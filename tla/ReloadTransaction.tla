-------------------------- MODULE ReloadTransaction --------------------------
(***************************************************************************)
(* One configuration reload (rust/src/reload.rs, reload_owned_transaction) *)
(* over the parts it must change together: the active generation, the      *)
(* task supervisor, the durable provider and account rows, the wire        *)
(* policy and the wire preferences of the shared resolver.  Every step of  *)
(* it may fail, tasks run and shutdown may begin at any await.             *)
(*                                                                         *)
(* What a part holds is the configuration it was last given.  Leases and   *)
(* the retirement of the old generation are in GenerationLifecycle.        *)
(***************************************************************************)
EXTENDS TaskSupervisor

CONSTANTS
    Configs,
    FirstConfig,  \* the configuration at startup
    SpecsOf,      \* available_task_specs, per configuration
    Mixed,
    None

ASSUME ConfigAssumption ==
    /\ FirstConfig \in Configs
    /\ SpecsOf \in [Configs -> SpecSets]
    /\ {Mixed, None} \cap Configs = {}

VARIABLES
    active,       \* the configuration of the active generation
    durable,      \* the committed provider and account rows
    policy,       \* WireResolver.config
    preferences,  \* WireResolver.configured_preferences
    gateOpen,     \* ~ManagerState.admission_closed
    reloadPc,     \* where the reload is: the await it is suspended in
    candidate,    \* the configuration being loaded
    old,          \* the configuration of active_slot() when it began
    repaired,     \* the durable rows were restored after a failed commit
    result,       \* ReloadResult.category of the last reload
    before,       \* what was in force when the candidate was staged
    shutPc        \* where process shutdown is

reloadVars == <<active, durable, policy, preferences, gateOpen, reloadPc,
                candidate, old, repaired, result, before>>
vars == <<supervisorVars, reloadVars, shutPc>>

-----------------------------------------------------------------------------
Init ==
    /\ SupervisorInit(SpecsOf[FirstConfig])
    /\ active = FirstConfig
    /\ durable = FirstConfig
    /\ policy = FirstConfig
    /\ preferences = FirstConfig
    /\ gateOpen = TRUE
    /\ reloadPc = "idle"
    /\ candidate = None
    /\ old = None
    /\ repaired = TRUE
    /\ result = "none"
    /\ before = FirstConfig
    /\ shutPc = "running"

\* A candidate is staged and neither accepted nor rolled back.
Staged == {"committing", "beginning", "applying", "durable", "repairing",
           "undoing", "compensating"}

\* manager.shutdown() and begin_shutdown() are one synchronous step.
is_shutting_down == shutPc # "running"

\* The configuration every part agrees on; shutdown stops the tasks.
Agreed ==
    IF \E c \in Configs : /\ active = c /\ durable = c /\ policy = c
                          /\ is_shutting_down \/ active_specs = SpecsOf[c]
      THEN active ELSE Mixed

\* The reload returns: what its locals own is dropped.
Return(category) ==
    /\ reloadPc' = "idle"
    /\ result' = category
    /\ candidate' = None
    /\ old' = None
    /\ repaired' = TRUE

-----------------------------------------------------------------------------
(* Preparation, with admission open.                                       *)

\* Read, validate and classify the file; PersistenceDelta::prepare follows.
\* The categories that end here change nothing.
BeginReload(c) ==
    /\ reloadPc = "idle"
    /\ ~is_shutting_down
    /\ c # active
    /\ candidate' = c
    /\ old' = active
    /\ reloadPc' = "preparing"
    /\ UNCHANGED <<supervisorVars, active, durable, policy, preferences,
                   gateOpen, repaired, result, before, shutPc>>

\* persistence_prepare_failed
PrepareFails ==
    /\ reloadPc = "preparing"
    /\ Return("Aborted")
    /\ UNCHANGED <<supervisorVars, active, durable, policy, preferences,
                   gateOpen, before, shutPc>>

\* RuntimeGenerationFactory::prepare sets the shared resolver's preferences
\* before it awaits the construction of the candidate.
BuildCandidate ==
    /\ reloadPc = "preparing"
    /\ preferences' = candidate
    /\ reloadPc' = "building"
    /\ UNCHANGED <<supervisorVars, active, durable, policy, gateOpen,
                   candidate, old, repaired, result, before, shutPc>>

\* set_configured_preferences(previous): by a failed construction, abort() or
\* the drop of the prepared generation.
RestorePreferences == preferences' = old

\* candidate_prepare_failed, or the task preflight or stage() refused and
\* candidate.abort() restored the preferences; closing it changes nothing here.
BuildFails ==
    /\ reloadPc = "building"
    /\ RestorePreferences
    /\ Return("Aborted")
    /\ UNCHANGED <<supervisorVars, active, durable, policy, gateOpen, before, shutPc>>

-----------------------------------------------------------------------------
(* The staged swap.                                                        *)

\* Where the reload goes when the running diff has been committed.
Continue(committing) ==
    IF diff'.waits = NoTask THEN "beginning" ELSE committing

\* prepare_diff, stage, stage_wire_resolver_policy and the first segment of
\* the task commit are one synchronous step.
StageAndCommitTasks ==
    /\ reloadPc = "building"
    /\ ~is_shutting_down
    /\ gateOpen
    /\ gateOpen' = FALSE
    /\ before' = Agreed
    /\ Segment(prepare_diff(active_specs, SpecsOf[candidate]))
    /\ reloadPc' = Continue("committing")
    /\ UNCHANGED <<shuttingDown, joining, active, durable, policy, preferences,
                   candidate, old, repaired, result, shutPc>>

ResumeCommit ==
    /\ reloadPc = "committing"
    /\ StopReturns
    /\ Segment(diff)
    /\ reloadPc' = Continue("committing")
    /\ UNCHANGED <<shuttingDown, joining, active, durable, policy, preferences,
                   gateOpen, candidate, old, repaired, result, before, shutPc>>

\* BEGIN IMMEDIATE succeeded.
TransactionBegins ==
    /\ reloadPc = "beginning"
    /\ reloadPc' = "applying"
    /\ UNCHANGED <<supervisorVars, active, durable, policy, preferences,
                   gateOpen, candidate, old, repaired, result, before, shutPc>>

\* validate_snapshot and apply succeeded: commit_pointer, then COMMIT.
CommitPointer ==
    /\ reloadPc = "applying"
    /\ active' = candidate
    /\ reloadPc' = "durable"
    /\ UNCHANGED <<supervisorVars, durable, policy, preferences, gateOpen,
                   candidate, old, repaired, result, before, shutPc>>

\* wire_policy.commit()
PublishPolicy == policy' = candidate

\* COMMIT succeeded: the policy, accept or accept_during_shutdown, finalize
\* and accept_wire_preferences, without an await.
CommitSucceeds ==
    /\ reloadPc = "durable"
    /\ durable' = candidate
    /\ PublishPolicy
    /\ gateOpen' = ~is_shutting_down
    /\ diff' = NoDiff
    /\ Return("Applied")
    /\ UNCHANGED <<taskMap, task, shuttingDown, joining, active, preferences,
                   before, shutPc>>

-----------------------------------------------------------------------------
(* Undoing.                                                                *)

\* staged.rollback: the gate reopens unless shutdown holds it closed.
ReopenGate == gateOpen' = ~is_shutting_down

\* Defect: the commit of the task diff is left in place.
KeepTasks ==
    /\ UNCHANGED <<taskMap, task>>
    /\ diff' = NoDiff

\* rollback_committed up to its first await: prepare_diff refuses during
\* shutdown, else the inverse diff is committed.
RollbackTasks ==
    IF shuttingDown
      THEN UNCHANGED <<taskMap, task>> /\ diff' = NoDiff
      ELSE Segment(prepare_diff(active_specs, diff.previous))

\* BEGIN, validate_snapshot or apply failed and the transaction, if any, was
\* rolled back: the tasks are next.
UndoBeforePointer ==
    /\ reloadPc \in {"beginning", "applying"}
    /\ RollbackTasks
    /\ reloadPc' = "undoing"
    /\ UNCHANGED <<shuttingDown, joining, active, durable, policy, preferences,
                   gateOpen, candidate, old, repaired, result, before, shutPc>>

ResumeUndo ==
    /\ reloadPc \in {"undoing", "compensating"}
    /\ StopReturns
    /\ Segment(diff)
    /\ UNCHANGED <<shuttingDown, joining, reloadVars, shutPc>>

\* abort_staged_with_policy up to the await of the candidate's close, and the
\* same end of a complete compensation: staged.rollback reopens the gate.
RollbackStaged ==
    /\ reloadPc = "undoing" \/ (reloadPc = "compensating" /\ repaired)
    /\ diff.waits = NoTask
    /\ ReopenGate
    /\ diff' = NoDiff
    /\ reloadPc' = "closing"
    /\ UNCHANGED <<taskMap, task, shuttingDown, joining, active, durable,
                   policy, preferences, candidate, old, repaired, result, before, shutPc>>

\* The candidate is closed and its prepared generation dropped.
CandidateClosed ==
    /\ reloadPc = "closing"
    /\ RestorePreferences
    /\ Return("Aborted")
    /\ UNCHANGED <<supervisorVars, active, durable, policy, gateOpen, before, shutPc>>

\* COMMIT reported an error, whether or not it took effect.
CommitFails(took) ==
    /\ reloadPc = "durable"
    /\ durable' = IF took THEN candidate ELSE durable
    /\ reloadPc' = "repairing"
    /\ UNCHANGED <<supervisorVars, active, policy, preferences, gateOpen,
                   candidate, old, repaired, result, before, shutPc>>

\* persistence.restore in a transaction of its own, which may fail too.
RestoreRows(ok) == durable' = IF ok THEN old ELSE durable

\* The repair ended; rollback_pointer and the start of rollback_committed.
Repair(ok) ==
    /\ reloadPc = "repairing"
    /\ RestoreRows(ok)
    /\ repaired' = (ok /\ ~shuttingDown)
    /\ active' = old
    /\ RollbackTasks
    /\ reloadPc' = "compensating"
    /\ UNCHANGED <<shuttingDown, joining, policy, preferences, gateOpen,
                   candidate, old, result, before, shutPc>>

\* The drop of the staged swap reopens the gate too, and the candidate's drop
\* restores the preferences.
CompensationFails ==
    /\ reloadPc = "compensating"
    /\ ~repaired
    /\ diff.waits = NoTask
    /\ ReopenGate
    /\ RestorePreferences
    /\ diff' = NoDiff
    /\ Return("CompensationFailed")
    /\ UNCHANGED <<taskMap, task, shuttingDown, joining, active, durable,
                   policy, before, shutPc>>

-----------------------------------------------------------------------------
(* Process shutdown: request_shutdown and close_runtime_resources_until.   *)

request_shutdown ==
    /\ shutPc = "running"
    /\ shutPc' = "quiescing"
    /\ gateOpen' = FALSE
    /\ begin_shutdown
    /\ UNCHANGED <<active, durable, policy, preferences, reloadPc, candidate,
                   old, repaired, result, before>>

TakeSupervisedTasks ==
    /\ shutPc = "quiescing"
    /\ shutPc' = "joining"
    /\ TakeTasks
    /\ UNCHANGED reloadVars

JoinTask == JoinReturns /\ UNCHANGED <<reloadVars, shutPc>>

\* Generations and the database are closed once the tasks are joined.
CloseAfterTasks ==
    /\ shutPc = "joining"
    /\ AllJoined
    /\ shutPc' = "closed"
    /\ UNCHANGED <<supervisorVars, reloadVars>>

TaskStep(i) ==
    /\ \/ LoopBegins(i) \/ SleepElapses(i) \/ CancelObserved(i) \/ TickEnds(i)
       \/ AcquireReturns(i, gateOpen, is_shutting_down)
    /\ UNCHANGED <<reloadVars, shutPc>>

Timeout == (StopTimesOut \/ JoinTimesOut) /\ UNCHANGED <<reloadVars, shutPc>>

ReloadStep ==
    \/ PrepareFails \/ BuildCandidate \/ BuildFails \/ StageAndCommitTasks
    \/ ResumeCommit \/ TransactionBegins \/ CommitPointer \/ CommitSucceeds
    \/ UndoBeforePointer \/ ResumeUndo \/ RollbackStaged \/ CandidateClosed
    \/ CompensationFails
    \/ \E b \in BOOLEAN : CommitFails(b) \/ Repair(b)

ShutdownStep == TakeSupervisedTasks \/ JoinTask \/ CloseAfterTasks

Next ==
    \/ \E c \in Configs : BeginReload(c)
    \/ ReloadStep
    \/ request_shutdown
    \/ ShutdownStep
    \/ \E i \in Tasks : TaskStep(i)
    \/ Timeout

Spec == Init /\ [][Next]_vars

\* The runtime polls what is ready: a started loop goes on, a notified or
\* elapsed wait returns, a database call returns.  No timeout is assumed.
Fairness ==
    /\ WF_vars(ReloadStep)
    /\ WF_vars(ShutdownStep)
    /\ \A i \in Tasks :
         /\ WF_vars(LoopBegins(i) /\ UNCHANGED <<reloadVars, shutPc>>)
         /\ WF_vars(CancelObserved(i) /\ UNCHANGED <<reloadVars, shutPc>>)

FairSpec == Spec /\ Fairness

-----------------------------------------------------------------------------
\* Every variable has the type of its Rust counterpart; a staged swap and
\* shutdown keep the gate closed.
TypeOK ==
    /\ taskMap \in [Names -> Tasks \cup {NoTask}]
    /\ \A i \in Tasks : task[i].loop \in LoopStates
    /\ {active, durable, policy, preferences} \subseteq Configs
    /\ gateOpen => ~is_shutting_down /\ reloadPc \notin Staged
    /\ shuttingDown = is_shutting_down

\* A loop that nobody has told to stop is the one the map has under its name:
\* no name has two such loops, and a later diff or shutdown finds each of them,
\* also when shutdown takes the map while a commit awaits a task it stops.
RunningIsRegistered ==
    \A i \in Tasks : Live(i) /\ ~task[i].cancelled => taskMap[task[i].name] = i

\* Whenever no reload is running, the shared wire resolver has the preferences
\* of the active generation, however the last reload ended.
PreferencesFollowActive == reloadPc = "idle" => preferences = active

\* What the reload promises to the outside.
Abstract == INSTANCE AtomicReload WITH
    inForce <- IF reloadPc \in Staged THEN before ELSE Agreed,
    staged <- reloadPc \in Staged,
    shut <- is_shutting_down,
    outcome <- result

\* reload_owned_transaction implements AtomicReload: the pointer, the rows, the
\* tasks and the wire policy change together or not at all, unless the reload
\* reports CompensationFailed.
ReloadIsAtomic == Abstract!Spec

\* Every reload returns and releases the reload lock, without help from the
\* timeout of stop_task: each task it stops ends.
ReloadReturns == reloadPc # "idle" ~> reloadPc = "idle"

\* Once requested, shutdown gets past the supervised tasks.
ShutdownPassesTasks == shutPc = "quiescing" ~> shutPc = "closed"

\* A loop that was told to stop ends by itself, wherever it is and whoever has
\* forgotten it: no wait of it misses the cancellation.
CancelledLoopsEnd ==
    \A i \in Tasks : task[i].cancelled /\ Live(i) ~> ~Live(i)

\* What comments and documents say and the code does not do.

\* task_supervisor.rs, commit: "The caller invokes this only after the runtime
\* publication acceptance point; no callback can run while this diff is merely
\* staged."
TasksStartAfterAcceptance ==
    reloadPc \in Staged =>
        \A i \in Tasks : Live(i) /\ ~task[i].cancelled =>
            task[i].schedule = SpecsOf[old][task[i].name]

\* reload.rs: "A pre-accept failure can therefore never expose candidate wire
\* behavior."
CandidateWireIsHidden == gateOpen => preferences = active

\* deep-dive-background.md: "Shutdown joins supervised work before generation
\* close and database close."
JoinedBeforeClose == shutPc = "closed" => \A i \in Tasks : ~Live(i)
=============================================================================
