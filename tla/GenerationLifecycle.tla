------------------------- MODULE GenerationLifecycle -------------------------
(***************************************************************************)
(* The runtime-generation lifecycle (rust/src/runtime_lifecycle): the      *)
(* RuntimeManager publishes one active GenerationSlot, requests hold       *)
(* leases on the slot they were admitted under, terminal jobs retain       *)
(* finalization references, a reload stages, commits, accepts or rolls     *)
(* back a candidate, an old slot is retired by a task of its own, and      *)
(* process shutdown adopts and closes what it finds.                       *)
(*                                                                         *)
(* A slot stands for one GenerationSlot together with the                  *)
(* RuntimeGeneration it owns.  Lease and reference counts are the          *)
(* cardinalities of the sets Leases(s) and References(s).  Elapsed time    *)
(* is abstract: a bounded wait may end in its timeout at any moment at     *)
(* which the awaited condition does not hold.                              *)
(***************************************************************************)
EXTENDS Naturals, FiniteSets

CONSTANTS
    Requests,                  \* client requests, one at a time each
    Slots,                     \* bound: generations ever prepared by a run
    FirstSlot,                 \* the generation published at startup
    NoSlot,
    MAX_RETIRING_GENERATIONS   \* manager.rs: backlog bound of stage()

ASSUME SlotAssumption ==
    /\ FirstSlot \in Slots
    /\ NoSlot \notin Slots
    /\ MAX_RETIRING_GENERATIONS \in Nat \ {0}

VARIABLES
    active,          \* RuntimeManagerInner.active
    admissionClosed, \* ManagerState.admission_closed
    pendingSwap,     \* ManagerState.pending_swap
    shutdown,        \* ManagerState.shutdown
    retiring,        \* RuntimeManagerInner.retiring
    accepting,       \* GenerationSlot.accepting, per slot
    slotState,       \* GenerationSlot.state, per slot
    scheduled,       \* GenerationSlot.retirement_scheduled, per slot
    retirePc,        \* where the slot's retirement task is
    closer,          \* who won GenerationResources.closed.swap(true)
    report,          \* GenerationResources.close_report
    clients,         \* the generation's ProviderClientPool
    lastFailure,     \* FinalizationSupervisor.last_failure is set
    reqPc,           \* where a request is in RuntimeManager::acquire
    lease,           \* the slot a request holds a GenerationLease on
    job,             \* the request's terminal job, in register and after
    jobSlot,         \* the slot whose supervisor runs that job
    reloadPc,        \* where the single reload transaction is
    swapOld,         \* StagedGenerationSwap.old
    swapNew,         \* the candidate, StagedGenerationSwap.new once staged
    sawShutdown,     \* is_shutting_down() as rollback() read it
    shutPc,          \* where process shutdown is
    adopted,         \* the slots close_for_shutdown adopted
    left,            \* adopted slots still to be closed
    shutCur,         \* the adopted slot being closed
    forced           \* close_for_shutdown's forced flag

gateVars == <<active, admissionClosed, pendingSwap, shutdown, retiring>>
slotVars == <<accepting, slotState>>
taskVars == <<scheduled, retirePc>>
resourceVars == <<closer, report, clients>>
jobVars == <<lastFailure, job, jobSlot>>
requestVars == <<reqPc, lease>>
reloadVars == <<reloadPc, swapOld, swapNew, sawShutdown>>
shutVars == <<shutPc, adopted, left, shutCur, forced>>
vars == <<gateVars, slotVars, taskVars, resourceVars, jobVars, requestVars,
          reloadVars, shutVars>>

-----------------------------------------------------------------------------
SlotStates == {"Absent", "Active", "Retiring", "DrainingFinalization",
               "Closing", "Closed", "FailedClose"}

\* States in which try_retain_finalization refuses a reference.
Rejecting == {"DrainingFinalization", "Closing", "Closed", "FailedClose"}

RunningTask == {"leases", "references", "drain"}

Leases(s) == {r \in Requests : lease[r] = s}

\* Defect: the lease count is not awaited.
LeaseDrainSkipped(s) == TRUE

\* GenerationSlot::wait_for_drain returns.
LeasesDrained(s) == Leases(s) = {}

\* Defect: the wait for leases has no deadline.
LeaseWaitUnbounded(s) == FALSE

\* The bounded wait for the leases runs into its deadline.
LeaseWaitExpires(s) == Leases(s) # {}

\* A reference is counted from the compare-exchange until the guard's drop.
References(s) ==
    {r \in Requests : jobSlot[r] = s /\ job[r] \in {"counted", "held", "removed"}}

\* Entries of FinalizationSupervisor.jobs of the slot's generation.
Jobs(s) == {r \in Requests : jobSlot[r] = s /\ job[r] \in {"held", "bare"}}

\* register() holds the jobs mutex while it retains the terminal reference.
JobsLocked(s) ==
    \E r \in Requests : jobSlot[r] = s /\ job[r] \in {"reading", "counted"}

Reaped == {s \in retiring : slotState[s] # "Closed"}

\* gate_notify.notify_waiters()
Woken == [r \in Requests |-> IF reqPc[r] = "parked" THEN "woken" ELSE reqPc[r]]

Init ==
    /\ active = FirstSlot
    /\ admissionClosed = FALSE
    /\ pendingSwap = FALSE
    /\ shutdown = FALSE
    /\ retiring = {}
    /\ accepting = [s \in Slots |-> s = FirstSlot]
    /\ slotState = [s \in Slots |-> IF s = FirstSlot THEN "Active" ELSE "Absent"]
    /\ scheduled = [s \in Slots |-> FALSE]
    /\ retirePc = [s \in Slots |-> "none"]
    /\ closer = [s \in Slots |-> "none"]
    /\ report = [s \in Slots |-> "none"]
    /\ clients = [s \in Slots |-> IF s = FirstSlot THEN "Open" ELSE "Absent"]
    /\ lastFailure = [s \in Slots |-> FALSE]
    /\ reqPc = [r \in Requests |-> "idle"]
    /\ lease = [r \in Requests |-> NoSlot]
    /\ job = [r \in Requests |-> "none"]
    /\ jobSlot = [r \in Requests |-> NoSlot]
    /\ reloadPc = "idle"
    /\ swapOld = NoSlot
    /\ swapNew = NoSlot
    /\ sawShutdown = FALSE
    /\ shutPc = "running"
    /\ adopted = {}
    /\ left = {}
    /\ shutCur = NoSlot
    /\ forced = FALSE

-----------------------------------------------------------------------------
(* Requests: RuntimeManager::acquire, the handler and the lease's drop.    *)

\* The state lock covers the gate check, the load of the active slot and the
\* lease increment.
AcquireGranted(r) ==
    /\ reqPc[r] \in {"idle", "woken"}
    /\ job[r] = "none"
    /\ ~shutdown
    /\ ~admissionClosed
    /\ accepting[active]
    /\ reqPc' = [reqPc EXCEPT ![r] = "leased"]
    /\ lease' = [lease EXCEPT ![r] = active]
    /\ UNCHANGED <<gateVars, slotVars, taskVars, resourceVars, jobVars,
                   reloadVars, shutVars>>

\* The waiter is registered before the gate is inspected, so no notification
\* between the check and the await is lost.
AcquireParked(r) ==
    /\ reqPc[r] \in {"idle", "woken"}
    /\ job[r] = "none"
    /\ ~shutdown
    /\ admissionClosed \/ ~accepting[active]
    /\ reqPc' = [reqPc EXCEPT ![r] = "parked"]
    /\ UNCHANGED <<gateVars, slotVars, taskVars, resourceVars, jobVars, lease,
                   reloadVars, shutVars>>

\* Err(ShuttingDown); a request that was never parked changes nothing.
AcquireRefused(r) ==
    /\ reqPc[r] = "woken"
    /\ shutdown
    /\ reqPc' = [reqPc EXCEPT ![r] = "idle"]
    /\ UNCHANGED <<gateVars, slotVars, taskVars, resourceVars, jobVars, lease,
                   reloadVars, shutVars>>

\* Drop of the lease: the handler returned or its future was dropped.  The
\* pending finalization is declared after the lease, so it is dropped, and
\* registers its job, first: the lease is never released inside register().
ReleaseLease(r) ==
    /\ lease[r] # NoSlot
    /\ job[r] \notin {"reading", "counted"}
    /\ lease' = [lease EXCEPT ![r] = NoSlot]
    /\ reqPc' = [reqPc EXCEPT ![r] = "idle"]
    /\ UNCHANGED <<gateVars, slotVars, taskVars, resourceVars, jobVars,
                   reloadVars, shutVars>>

-----------------------------------------------------------------------------
(* Terminal jobs: FinalizationSupervisor::register retains a reference with *)
(* GenerationSlot::try_retain_finalization (read the state, compare-       *)
(* exchange the count, read the state again) and runs the job either way.  *)

RegisterReadState(r) ==
    /\ lease[r] # NoSlot
    /\ job[r] = "none"
    /\ ~JobsLocked(lease[r])
    /\ job' = [job EXCEPT ![r] =
                 IF slotState[lease[r]] \in Rejecting THEN "bare" ELSE "reading"]
    /\ jobSlot' = [jobSlot EXCEPT ![r] = lease[r]]
    /\ UNCHANGED <<gateVars, slotVars, taskVars, resourceVars, lastFailure,
                   requestVars, reloadVars, shutVars>>

RegisterCount(r) ==
    /\ job[r] = "reading"
    /\ job' = [job EXCEPT ![r] = "counted"]
    /\ UNCHANGED <<gateVars, slotVars, taskVars, resourceVars, lastFailure,
                   jobSlot, requestVars, reloadVars, shutVars>>

RegisterRecheckState(r) ==
    /\ job[r] = "counted"
    /\ job' = [job EXCEPT ![r] =
                 IF slotState[jobSlot[r]] \in Rejecting THEN "bare" ELSE "held"]
    /\ UNCHANGED <<gateVars, slotVars, taskVars, resourceVars, lastFailure,
                   jobSlot, requestVars, reloadVars, shutVars>>

\* The worker finishes: a failure is recorded before the job leaves the map,
\* and remove_job takes the entry out before it drops the reference.
JobDone(r, failed) ==
    /\ job[r] \in {"held", "bare"}
    /\ ~JobsLocked(jobSlot[r])
    /\ lastFailure' = [lastFailure EXCEPT ![jobSlot[r]] = @ \/ failed]
    /\ job' = [job EXCEPT ![r] = IF @ = "held" THEN "removed" ELSE "none"]
    /\ jobSlot' = [jobSlot EXCEPT ![r] = IF job[r] = "held" THEN @ ELSE NoSlot]
    /\ UNCHANGED <<gateVars, slotVars, taskVars, resourceVars, requestVars,
                   reloadVars, shutVars>>

\* Drop of the GenerationFinalizationGuard.
DropReference(r) ==
    /\ job[r] = "removed"
    /\ job' = [job EXCEPT ![r] = "none"]
    /\ jobSlot' = [jobSlot EXCEPT ![r] = NoSlot]
    /\ UNCHANGED <<gateVars, slotVars, taskVars, resourceVars, lastFailure,
                   requestVars, reloadVars, shutVars>>

-----------------------------------------------------------------------------
(* Retirement: RuntimeManager::retire_slot.                                *)

RetireLeasesDrained(s) ==
    /\ retirePc[s] = "leases"
    /\ LeasesDrained(s)
    /\ slotState' = [slotState EXCEPT ![s] = "DrainingFinalization"]
    /\ retirePc' = [retirePc EXCEPT ![s] = "references"]
    /\ UNCHANGED <<gateVars, accepting, scheduled, resourceVars, jobVars,
                   requestVars, reloadVars, shutVars>>

RetireTimeout(s) ==
    /\ \/ retirePc[s] = "leases" /\ LeaseWaitExpires(s)
       \/ retirePc[s] = "references" /\ References(s) # {}
    /\ slotState' = [slotState EXCEPT ![s] = "FailedClose"]
    /\ retirePc' = [retirePc EXCEPT ![s] = "finished"]
    /\ UNCHANGED <<gateVars, accepting, scheduled, resourceVars, jobVars,
                   requestVars, reloadVars, shutVars>>

\* closed.swap(true): the first caller owns the close.
CloseOwner(s, c) == IF closer[s] = "none" THEN c ELSE closer[s]

\* Closing, then GenerationResources::close.
RetireReferencesDrained(s) ==
    /\ retirePc[s] = "references"
    /\ References(s) = {}
    /\ slotState' = [slotState EXCEPT ![s] = "Closing"]
    /\ retirePc' = [retirePc EXCEPT ![s] = "drain"]
    /\ closer' = [closer EXCEPT ![s] = CloseOwner(s, "retirement")]
    /\ UNCHANGED <<gateVars, accepting, scheduled, report, clients, jobVars,
                   requestVars, reloadVars, shutVars>>

\* drain_with_timeout: a recorded worker failure wins over an empty map, and
\* a non-empty map may run into the timeout.
DrainSucceeds(s) == ~JobsLocked(s) /\ Jobs(s) = {} /\ ~lastFailure[s]
DrainFails(s) == ~JobsLocked(s) /\ (Jobs(s) # {} \/ lastFailure[s])

\* What GenerationResources::close hands to caller c: the owner drains, every
\* other caller waits for the owner's report.
CloseYields(s, c, outcome) ==
    IF closer[s] = c
      THEN IF outcome = "ok" THEN DrainSucceeds(s) ELSE DrainFails(s)
      ELSE report[s] = outcome

\* A failed drain keeps the provider clients open for accepted work.
RetireClose(s, outcome) ==
    /\ retirePc[s] = "drain"
    /\ CloseYields(s, "retirement", outcome)
    /\ report' = [report EXCEPT ![s] = outcome]
    /\ clients' = [clients EXCEPT ![s] =
                     IF outcome = "ok" /\ closer[s] = "retirement"
                       THEN "Closed" ELSE @]
    /\ slotState' = [slotState EXCEPT ![s] =
                       IF outcome = "ok" THEN "Closed" ELSE "FailedClose"]
    /\ retirePc' = [retirePc EXCEPT ![s] = "finished"]
    /\ UNCHANGED <<gateVars, accepting, scheduled, closer, jobVars,
                   requestVars, reloadVars, shutVars>>

-----------------------------------------------------------------------------
(* Reload: ReloadService::reload_owned_transaction under the reload lock,  *)
(* with the manager's StagedGenerationSwap.  Reading and validating the    *)
(* configuration, the task diff, the wire policy and the database are      *)
(* choices between success and failure here.                               *)

PrepareCandidate(s) ==
    /\ reloadPc = "idle"
    /\ ~shutdown
    /\ clients[s] = "Absent"
    /\ clients' = [clients EXCEPT ![s] = "Open"]
    /\ swapOld' = active
    /\ swapNew' = s
    /\ reloadPc' = "prepared"
    /\ UNCHANGED <<gateVars, slotVars, taskVars, closer, report, jobVars,
                   requestVars, sawShutdown, shutVars>>

\* The conditions of RuntimeManager::stage, in its order.
CanStage ==
    /\ ~shutdown
    /\ ~admissionClosed
    /\ ~pendingSwap
    /\ Cardinality(Reaped) < MAX_RETIRING_GENERATIONS
    /\ active = swapOld
    /\ accepting[active]

\* Defect: the candidate's slot is created accepting.
StagedAcceptingEarly == TRUE

\* GenerationSlot::new(generation, false)
StagedAccepting == FALSE

Stage ==
    /\ reloadPc = "prepared"
    /\ CanStage
    /\ retiring' = Reaped
    /\ slotState' = [slotState EXCEPT ![swapNew] = "Active"]
    /\ accepting' = [accepting EXCEPT ![swapNew] = StagedAccepting]
    /\ admissionClosed' = TRUE
    /\ pendingSwap' = TRUE
    /\ reloadPc' = "staged"
    /\ UNCHANGED <<active, shutdown, taskVars, resourceVars, jobVars,
                   requestVars, swapOld, swapNew, sawShutdown, shutVars>>

\* The task preflight failed, or stage() did, before or after its reap;
\* candidate.abort() closes it.
StageRefused ==
    /\ reloadPc = "prepared"
    /\ retiring' \in {retiring, Reaped}
    /\ reloadPc' = "candidate"
    /\ UNCHANGED <<active, admissionClosed, pendingSwap, shutdown, slotVars,
                   taskVars, resourceVars, jobVars, requestVars, swapOld,
                   swapNew, sawShutdown, shutVars>>

CommitPointer ==
    /\ reloadPc = "staged"
    /\ active = swapOld
    /\ accepting' = [accepting EXCEPT ![swapOld] = FALSE, ![swapNew] = FALSE]
    /\ slotState' = [slotState EXCEPT ![swapOld] = "Retiring"]
    /\ active' = swapNew
    /\ reloadPc' = "committed"
    /\ UNCHANGED <<admissionClosed, pendingSwap, shutdown, retiring, taskVars,
                   resourceVars, jobVars, requestVars, swapOld, swapNew,
                   sawShutdown, shutVars>>

\* The database transaction committed: the reload can no longer be undone.
DurableCommit ==
    /\ reloadPc = "committed"
    /\ reloadPc' = "durable"
    /\ UNCHANGED <<gateVars, slotVars, taskVars, resourceVars, jobVars,
                   requestVars, swapOld, swapNew, sawShutdown, shutVars>>

\* The database commit failed; the pointer goes back with admission closed.
RollbackPointer ==
    /\ reloadPc = "committed"
    /\ active = swapNew
    /\ active' = swapOld
    /\ slotState' = [slotState EXCEPT ![swapOld] = "Active"]
    /\ accepting' = [accepting EXCEPT ![swapOld] = ~shutdown, ![swapNew] = FALSE]
    /\ reloadPc' = "restored"
    /\ UNCHANGED <<admissionClosed, pendingSwap, shutdown, retiring, taskVars,
                   resourceVars, jobVars, requestVars, swapOld, swapNew,
                   sawShutdown, shutVars>>

\* rollback() reads is_shutting_down() before it stores accepting.
RollbackBegin ==
    /\ reloadPc \in {"staged", "restored"}
    /\ slotState' = [slotState EXCEPT ![swapOld] = "Active"]
    /\ sawShutdown' = shutdown
    /\ reloadPc' = "rollback"
    /\ UNCHANGED <<gateVars, accepting, taskVars, resourceVars, jobVars,
                   requestVars, swapOld, swapNew, shutVars>>

\* Defect: parked requests are not notified.
FinishGateSilent ==
    /\ pendingSwap' = FALSE
    /\ admissionClosed' = (admissionClosed /\ shutdown)
    /\ reqPc' = reqPc

\* RuntimeManager::finish_gate
FinishGate ==
    /\ pendingSwap' = FALSE
    /\ admissionClosed' = (admissionClosed /\ shutdown)
    /\ reqPc' = Woken

RollbackFinish ==
    /\ reloadPc = "rollback"
    /\ accepting' = [accepting EXCEPT ![swapOld] = ~sawShutdown,
                                      ![swapNew] = FALSE]
    /\ FinishGate
    /\ reloadPc' = "candidate"
    /\ UNCHANGED <<active, shutdown, retiring, slotState, taskVars,
                   resourceVars, jobVars, lease, swapOld, swapNew,
                   sawShutdown, shutVars>>

\* The rejected candidate is closed: it never had a job, so the drain does not
\* wait.  If shutdown adopted it while it was the active pointer and began its
\* close first, the reload waits for that report.
CloseCandidate ==
    /\ reloadPc = "candidate"
    /\ closer[swapNew] = "none" \/ report[swapNew] # "none"
    /\ closer' = [closer EXCEPT ![swapNew] = CloseOwner(swapNew, "reload")]
    /\ report' = [report EXCEPT ![swapNew] = IF @ = "none" THEN "ok" ELSE @]
    /\ clients' = [clients EXCEPT ![swapNew] =
                     IF closer[swapNew] = "none" THEN "Closed" ELSE @]
    /\ reloadPc' = "idle"
    /\ UNCHANGED <<gateVars, slotVars, taskVars, jobVars, requestVars,
                   swapOld, swapNew, sawShutdown, shutVars>>

\* Compensation failed: the reload returns and Drop only restores the gate.
DropStaged ==
    /\ reloadPc = "restored"
    /\ FinishGate
    /\ reloadPc' = "idle"
    /\ UNCHANGED <<active, shutdown, retiring, slotVars, taskVars,
                   resourceVars, jobVars, lease, swapOld, swapNew,
                   sawShutdown, shutVars>>

Accept ==
    /\ reloadPc = "durable"
    /\ ~shutdown
    /\ active = swapNew
    /\ slotState' = [slotState EXCEPT ![swapNew] = "Active"]
    /\ accepting' = [accepting EXCEPT ![swapNew] = TRUE]
    /\ pendingSwap' = FALSE
    /\ admissionClosed' = FALSE
    /\ retiring' = retiring \union {swapOld}
    /\ reqPc' = Woken
    /\ reloadPc' = "accepted"
    /\ UNCHANGED <<active, shutdown, taskVars, resourceVars, jobVars, lease,
                   swapOld, swapNew, sawShutdown, shutVars>>

AcceptDuringShutdown ==
    /\ reloadPc = "durable"
    /\ shutdown
    /\ active = swapNew
    /\ slotState' = [slotState EXCEPT ![swapNew] = "Active"]
    /\ accepting' = [accepting EXCEPT ![swapNew] = FALSE]
    /\ pendingSwap' = FALSE
    /\ admissionClosed' = TRUE
    /\ retiring' = retiring \union {swapOld}
    /\ reqPc' = Woken
    /\ reloadPc' = "accepted"
    /\ UNCHANGED <<active, shutdown, taskVars, resourceVars, jobVars, lease,
                   swapOld, swapNew, sawShutdown, shutVars>>

\* schedule_retirement runs after the state lock is released: it reaps, takes
\* the slot's retirement_scheduled flag and spawns one task.
ScheduleRetirement ==
    /\ reloadPc = "accepted"
    /\ scheduled' = [scheduled EXCEPT ![swapOld] = TRUE]
    /\ retirePc' = [retirePc EXCEPT ![swapOld] =
                      IF scheduled[swapOld] THEN @ ELSE "leases"]
    /\ retiring' = IF scheduled[swapOld] THEN Reaped
                                         ELSE Reaped \union {swapOld}
    /\ reloadPc' = "idle"
    /\ UNCHANGED <<active, admissionClosed, pendingSwap, shutdown, slotVars,
                   resourceVars, jobVars, requestVars, swapOld, swapNew,
                   sawShutdown, shutVars>>

-----------------------------------------------------------------------------
(* Process shutdown: ServerRuntimeHandle::request_shutdown and             *)
(* RuntimeManager::close_for_shutdown.                                     *)

\* RuntimeManager::shutdown
CloseAdmission ==
    /\ shutdown' = TRUE
    /\ admissionClosed' = TRUE
    /\ accepting' = [accepting EXCEPT ![active] = FALSE]
    /\ reqPc' = Woken

RequestShutdown ==
    /\ shutPc = "running"
    /\ CloseAdmission
    /\ shutPc' = "quiescing"
    /\ UNCHANGED <<active, pendingSwap, retiring, slotState, taskVars,
                   resourceVars, jobVars, lease, reloadVars, adopted, left,
                   shutCur, forced>>

Adoptable == {active} \union Reaped

\* close_for_shutdown repeats shutdown() and adopts what it sees once.
AdoptGenerations(initiallyForced) ==
    /\ shutPc = "quiescing"
    /\ CloseAdmission
    /\ retiring' = Reaped
    /\ adopted' = Adoptable
    /\ left' = adopted'
    /\ forced' = initiallyForced
    /\ shutPc' = "leases"
    /\ UNCHANGED <<active, pendingSwap, slotState, taskVars, resourceVars,
                   jobVars, lease, reloadVars, shutCur>>

ShutdownLeasesDrained ==
    /\ shutPc = "leases"
    /\ \A s \in adopted : LeasesDrained(s)
    /\ shutPc' = IF forced THEN "abort" ELSE "retirements"
    /\ UNCHANGED <<gateVars, slotVars, taskVars, resourceVars, jobVars,
                   requestVars, reloadVars, adopted, left, shutCur, forced>>

ShutdownTimeout ==
    /\ \/ shutPc = "leases" /\ \E s \in adopted : LeaseWaitExpires(s)
       \/ shutPc = "retirements" /\ \E s \in Slots : retirePc[s] \in RunningTask
    /\ forced' = TRUE
    /\ shutPc' = "abort"
    /\ UNCHANGED <<gateVars, slotVars, taskVars, resourceVars, jobVars,
                   requestVars, reloadVars, adopted, left, shutCur>>

ShutdownRetirementsDrained ==
    /\ shutPc = "retirements"
    /\ \A s \in Slots : retirePc[s] \notin RunningTask
    /\ shutPc' = "close"
    /\ UNCHANGED <<gateVars, slotVars, taskVars, resourceVars, jobVars,
                   requestVars, reloadVars, adopted, left, shutCur, forced>>

\* A task is aborted where it awaits.  One whose close can proceed without
\* waiting completes before abort_retirement_tasks has joined it.
AbortRetirementTasks ==
    /\ shutPc = "abort"
    /\ \A s \in Slots : retirePc[s] = "drain" =>
          \A outcome \in {"ok", "failed"} :
             ~CloseYields(s, "retirement", outcome)
    /\ retirePc' = [s \in Slots |-> IF retirePc[s] \in RunningTask
                                      THEN "finished" ELSE retirePc[s]]
    /\ shutPc' = "close"
    /\ UNCHANGED <<gateVars, slotVars, scheduled, resourceVars, jobVars,
                   requestVars, reloadVars, adopted, left, shutCur, forced>>

AlreadyClosed(s) == slotState[s] = "Closed"

ShutdownSkipsClosed(s) ==
    /\ shutPc = "close"
    /\ shutCur = NoSlot
    /\ s \in left
    /\ AlreadyClosed(s)
    /\ left' = left \ {s}
    /\ UNCHANGED <<gateVars, slotVars, taskVars, resourceVars, jobVars,
                   requestVars, reloadVars, shutPc, adopted, shutCur, forced>>

ShutdownCloseBegin(s) ==
    /\ shutPc = "close"
    /\ shutCur = NoSlot
    /\ s \in left
    /\ ~AlreadyClosed(s)
    /\ slotState' = [slotState EXCEPT ![s] = "Closing"]
    /\ closer' = [closer EXCEPT ![s] = CloseOwner(s, "shutdown")]
    /\ left' = left \ {s}
    /\ shutCur' = s
    /\ UNCHANGED <<gateVars, accepting, taskVars, report, clients, jobVars,
                   requestVars, reloadVars, shutPc, adopted, forced>>

\* A failed report is followed by force_close_with_timeout in either mode, so
\* the provider clients are closed whatever the outcome.
ShutdownCloseEnd(outcome) ==
    /\ shutCur # NoSlot
    /\ CloseYields(shutCur, "shutdown", outcome)
    /\ report' = [report EXCEPT ![shutCur] = outcome]
    /\ clients' = [clients EXCEPT ![shutCur] = "Closed"]
    /\ slotState' = [slotState EXCEPT ![shutCur] =
                       IF outcome = "ok" THEN "Closed" ELSE "FailedClose"]
    /\ forced' = (forced \/ outcome = "failed")
    /\ shutCur' = NoSlot
    /\ UNCHANGED <<gateVars, accepting, taskVars, closer, jobVars,
                   requestVars, reloadVars, shutPc, adopted, left>>

ShutdownDone ==
    /\ shutPc = "close"
    /\ left = {}
    /\ shutCur = NoSlot
    /\ shutPc' = "done"
    /\ UNCHANGED <<gateVars, slotVars, taskVars, resourceVars, jobVars,
                   requestVars, reloadVars, adopted, left, shutCur, forced>>

\* The process exits once close_for_shutdown has returned.
Exited == shutPc = "done" /\ UNCHANGED vars

-----------------------------------------------------------------------------
RequestNext(r) ==
    \/ AcquireGranted(r)
    \/ AcquireParked(r)
    \/ AcquireRefused(r)
    \/ ReleaseLease(r)
    \/ RegisterReadState(r)
    \/ RegisterCount(r)
    \/ RegisterRecheckState(r)
    \/ \E failed \in BOOLEAN : JobDone(r, failed)
    \/ DropReference(r)

RetireNext(s) ==
    \/ RetireLeasesDrained(s)
    \/ RetireTimeout(s)
    \/ RetireReferencesDrained(s)
    \/ \E outcome \in {"ok", "failed"} : RetireClose(s, outcome)

\* What the reload does once it has begun; it never stops half way.
ReloadStep ==
    \/ Stage
    \/ StageRefused
    \/ CommitPointer
    \/ DurableCommit
    \/ RollbackPointer
    \/ RollbackBegin
    \/ RollbackFinish
    \/ CloseCandidate
    \/ DropStaged
    \/ Accept
    \/ AcceptDuringShutdown
    \/ ScheduleRetirement

ReloadNext == ReloadStep \/ \E s \in Slots : PrepareCandidate(s)

\* What shutdown does once it has been requested.
ShutdownStep ==
    \/ \E initiallyForced \in BOOLEAN : AdoptGenerations(initiallyForced)
    \/ ShutdownLeasesDrained
    \/ ShutdownTimeout
    \/ ShutdownRetirementsDrained
    \/ AbortRetirementTasks
    \/ \E s \in Slots : ShutdownSkipsClosed(s) \/ ShutdownCloseBegin(s)
    \/ \E outcome \in {"ok", "failed"} : ShutdownCloseEnd(outcome)
    \/ ShutdownDone

Next ==
    \/ \E r \in Requests : RequestNext(r)
    \/ \E s \in Slots : RetireNext(s)
    \/ ReloadNext
    \/ RequestShutdown
    \/ ShutdownStep
    \/ Exited

Spec == Init /\ [][Next]_vars

\* A woken acquire() runs its loop again.
Repoll(r) ==
    /\ reqPc[r] = "woken"
    /\ AcquireGranted(r) \/ AcquireParked(r) \/ AcquireRefused(r)

\* The runtime polls every spawned task that is ready.  Nothing is assumed of
\* clients: a request need never release its lease, nor a reload or a shutdown
\* ever be asked for.  The drain of a close polls the jobs mutex, which
\* register() holds for a few instructions only: it is granted in the end even
\* if requests keep taking it, which is strong fairness.
Fairness ==
    /\ \A r \in Requests :
          /\ WF_vars(Repoll(r))
          /\ WF_vars(RegisterCount(r) \/ RegisterRecheckState(r))
          /\ WF_vars(DropReference(r))
    /\ \A s \in Slots : WF_vars(RetireNext(s))
    /\ WF_vars(ReloadStep)
    /\ WF_vars(ShutdownStep)
    /\ SF_vars(\E outcome \in {"ok", "failed"} : ShutdownCloseEnd(outcome))

FairSpec == Spec /\ Fairness

-----------------------------------------------------------------------------
\* Every variable has the type its Rust counterpart has.
TypeOK ==
    /\ active \in Slots
    /\ admissionClosed \in BOOLEAN /\ pendingSwap \in BOOLEAN
    /\ shutdown \in BOOLEAN
    /\ retiring \in SUBSET Slots
    /\ accepting \in [Slots -> BOOLEAN]
    /\ slotState \in [Slots -> SlotStates]
    /\ scheduled \in [Slots -> BOOLEAN]
    /\ retirePc \in [Slots -> RunningTask \union {"none", "finished"}]
    /\ closer \in [Slots -> {"none", "retirement", "shutdown", "reload"}]
    /\ report \in [Slots -> {"none", "ok", "failed"}]
    /\ clients \in [Slots -> {"Absent", "Open", "Closed"}]
    /\ lastFailure \in [Slots -> BOOLEAN]
    /\ reqPc \in [Requests -> {"idle", "parked", "woken", "leased"}]
    /\ lease \in [Requests -> Slots \union {NoSlot}]
    /\ job \in [Requests -> {"none", "reading", "counted", "held", "bare",
                             "removed"}]
    /\ jobSlot \in [Requests -> Slots \union {NoSlot}]
    /\ reloadPc \in {"idle", "prepared", "staged", "committed", "durable",
                     "accepted", "restored", "rollback", "candidate"}
    /\ swapOld \in Slots \union {NoSlot} /\ swapNew \in Slots \union {NoSlot}
    /\ sawShutdown \in BOOLEAN
    /\ shutPc \in {"running", "quiescing", "leases", "retirements", "abort",
                   "close", "done"}
    /\ adopted \in SUBSET Slots /\ left \in SUBSET Slots
    /\ shutCur \in Slots \union {NoSlot}
    /\ forced \in BOOLEAN

\* Until shutdown is forced, the provider clients of a generation are closed
\* only when no request leases it and no terminal job of it is in flight:
\* retire_slot's two waits and close()'s drain, with try_retain_finalization,
\* leave no window for late work.
QuietWhenClosed ==
    \A s \in Slots : clients[s] = "Closed" /\ ~forced =>
        /\ Leases(s) = {}
        /\ Jobs(s) = {}
        /\ ~JobsLocked(s)

\* While admission is open, the active slot is accepting, Active, not being
\* retired, and its provider clients are open: acquire() neither parks behind
\* an open gate nor hands out a lease on a generation that is going away.
OpenGateServes ==
    ~admissionClosed =>
        /\ accepting[active]
        /\ slotState[active] = "Active"
        /\ clients[active] = "Open"
        /\ active \notin retiring /\ retirePc[active] = "none"

\* A staged candidate is invisible: from prepare until accept() has run after
\* the durable commit no request leases it and nothing else accepts, so a
\* reload that fails at any step before has served no traffic.
CandidateIsInvisible ==
    reloadPc \notin {"idle", "accepted"} =>
        /\ Leases(swapNew) = {} /\ Jobs(swapNew) = {}
        /\ ~accepting[swapNew]
        /\ \A s \in Slots : accepting[s] => s = swapOld

\* While a swap is staged its pointer is where the swap's phase says, whatever
\* shutdown does meanwhile.  Hence commit_pointer, rollback_pointer, accept
\* and accept_during_shutdown never find ActivePointerChanged, and the
\* fail_closed exit of the reload, which would leave admission closed for
\* good, is never taken.
SwapOwnsPointer ==
    /\ reloadPc \in {"staged", "restored", "rollback"} => active = swapOld
    /\ reloadPc \in {"committed", "durable", "accepted"} => active = swapNew
    /\ pendingSwap <=> reloadPc \in {"staged", "committed", "durable",
                                     "restored", "rollback"}

\* register() starts a terminal job without a generation reference only on a
\* slot whose retirement already failed or that shutdown forces: its request
\* holds a lease, and the lease keeps retirement out of the other states that
\* refuse a reference.
UnreferencedOnlyAfterFailure ==
    [][\A r \in Requests : job[r] # "bare" /\ job'[r] = "bare" =>
          forced \/ slotState[jobSlot'[r]] = "FailedClose"]_vars

\* The generations close_for_shutdown adopted have their provider clients
\* closed when it returns, forced or not, whatever a concurrent reload did.
AdoptedAreClosed ==
    shutPc = "done" => \A s \in adopted : clients[s] = "Closed"

\* manager.rs:270 says close_for_shutdown will "adopt every generation for
\* process shutdown and close it exactly once": when it has returned and no
\* reload is under way, the active generation's provider clients are closed.
EveryGenerationAdopted ==
    shutPc = "done" /\ reloadPc = "idle" => clients[active] = "Closed"

\* manager.rs:618 says the caller of stage() "must explicitly accept or roll
\* back" the swap: once a reload has returned, every generation with open
\* provider clients is the active one or tracked for retirement.
EveryCandidateSettled ==
    reloadPc = "idle" =>
        \A s \in Slots : clients[s] = "Open" => s = active \/ s \in retiring

\* A retirement never makes the same slot draw a second close: whoever won
\* the closed flag keeps it, and a successful report is never overwritten.
CloseOwnerIsStable ==
    [][\A s \in Slots : /\ closer[s] # "none" => closer'[s] = closer[s]
                        /\ report[s] = "ok" => report'[s] = "ok"]_vars

\* A request parked at the admission gate is woken: every exit of a reload
\* (accept, rollback, drop) and shutdown notify the gate.
ParkedIsWoken ==
    \A r \in Requests : reqPc[r] = "parked" ~> reqPc[r] # "parked"

\* A scheduled retirement ends: its waits are bounded, so a leaked lease or a
\* stuck job parks the slot in FailedClose, never in Retiring.
RetirementEnds ==
    \A s \in Slots : retirePc[s] = "leases" ~> retirePc[s] = "finished"

\* Shutdown runs to its end even if no lease is ever released and no terminal
\* job ever completes: no close waits for a report that will not come.
ShutdownEnds == shutdown ~> shutPc = "done"
=============================================================================
