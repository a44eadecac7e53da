-------------------------- MODULE RequestAccounting --------------------------
(***************************************************************************)
(* The durable accounting of one logical request: publication of its       *)
(* attempts, terminal finalization, the user and instance budgets both     *)
(* consult, and the reconciliation that runs after a crash.                *)
(*                                                                         *)
(* Every SQLite transaction is one action, because the database has one    *)
(* connection behind one gate (db/connection.rs).  Between transactions    *)
(* the coordinator that drives a request, the publication worker, the      *)
(* finalization supervisor's worker, a client that goes away and a crash   *)
(* of the process interleave freely.                                       *)
(*                                                                         *)
(* One user and one instance scope have one hard token rule each.  A       *)
(* request is known by the id its INSERT gives it, an attempt and its      *)
(* provider reservation by their common position in `attempts`.  A pair    *)
(* (status_code, error_class) is one value of Facts.                       *)
(***************************************************************************)
EXTENDS Integers, Sequences, FiniteSets, FiniteSetsExt

CONSTANTS
    NumRequests,        \* requests the clients send
    Attributed,         \* those of a managed user; the rest use a shared key
    MaxAttempts,        \* attempts the retry policy allows one request
    Single,             \* single_attempt_worst_tokens of every request
    UserLimit,          \* max_tokens of the user's hard daily rule
    InstanceLimit,      \* max_tokens of the instance's hard daily rule
    MaxConcurrent,      \* max_concurrent of the user's rule
    Days,               \* UTC days the model runs through
    SupervisorCapacity, \* retained finalization jobs the supervisor admits
    BatchLimit,         \* rows one reconciliation pass may fix per table
    MaxCrashes          \* process deaths

Requests == 1 .. NumRequests

ASSUME AccountingAssumption ==
    /\ NumRequests \in Nat \ {0}
    /\ Attributed \subseteq Requests
    /\ {MaxAttempts, Single, Days, SupervisorCapacity, BatchLimit} \subseteq Nat \ {0}
    /\ {UserLimit, InstanceLimit, MaxConcurrent, MaxCrashes} \subseteq Nat

VARIABLES
    status,     \* requests.status; "absent" before the INSERT
    attempts,   \* request_attempts joined with reservations, in id order
    userHold,   \* user_budget_reservations by request
    instHold,   \* instance_budget_reservations by request
    userUsed,   \* user_budget_usage by day: [requests, tokens]
    instUsed,   \* instance_budget_usage by day
    day,        \* date('now')
    pc,         \* where the coordinator of a request is
    pending,    \* the data a PendingFinalization carries
    upstream,   \* facts of last_upstream, or "none"
    jobs,       \* keys of the supervisor's job map: <<request, attempt>>
    command,    \* the command a request's worker is running
    result,     \* what the worker sent to the waiting coordinator
    phase,      \* "serving", or "recovering" while startup reconciles
    crashes

durable == <<status, attempts, userHold, instHold, userUsed, instUsed>>
supervisor == <<jobs, command, result>>
vars == <<durable, day, pc, pending, upstream, supervisor, phase, crashes>>

-----------------------------------------------------------------------------

NoRow == -2      \* the attempt has no user_budget_attempt_usage row
Unknown == -1    \* its row has tokens_known = 0

Facts == {"none", "ok", "response", "transport", "NoEligibleRoute",
          "Downstream", "CoordinatorInterrupted", "PublicationInterrupted",
          "process_interrupted"}

TargetStatus == {"completed", "cancelled", "error"}
Terminal == TargetStatus \union {"interrupted"}

Data == [target: TargetStatus, facts: Facts, usage: Unknown .. Single]
NoData == [target |-> "error", facts |-> "none", usage |-> Unknown]

Attempt == [req: Requests, completed: BOOLEAN, facts: Facts,
            reservation: {"active", "released"}, usage: NoRow .. Single]

NoCommand == [kind |-> "none", attempt |-> 0, data |-> NoData, tries |-> 0]
Command == [kind: {"Request", "FailedAttempt"}, attempt: Nat, data: Data,
            tries: 0 .. 2]

Hold == [status: {"none", "active", "settled", "released"},
         held: Nat, day: 1 .. Days]
NoHold == [status |-> "none", held |-> 0, day |-> 1]

AttemptsOf(r) == {a \in DOMAIN attempts : attempts[a].req = r}
LastAttempt(r) == Max(AttemptsOf(r))

(* rules_exceeded: what the rule's window already holds.                   *)
HeldOn(hold, d) ==
    LET live == {r \in Requests : hold[r].status = "active" /\ hold[r].day = d}
    IN  MapThenSumSet(LAMBDA r : hold[r].held, live)

ActiveHolds(hold) == Cardinality({r \in Requests : hold[r].status = "active"})

ConcurrencyAllowed(hold) == ActiveHolds(hold) + 1 <= MaxConcurrent

Exceeds(limit, used, hold, d, add) ==
    used[d].tokens + HeldOn(hold, d) + add > limit

(* hold_for_admission and hold_for_retry under a hard token rule.          *)
AdmissionHold == 2 * Single
RetryHold == Single

-----------------------------------------------------------------------------
(* Publication.                                                            *)

OpenAttempt(r) == [req |-> r, completed |-> FALSE, facts |-> "none",
                   reservation |-> "active", usage |-> NoRow]

NewHold == [status |-> "active", held |-> AdmissionHold, day |-> day]

(* publish_transaction for a request that has no row yet.  Request ids are *)
(* given in the order of the INSERTs.  A refused publication rolls the     *)
(* claim back and writes nothing.                                          *)
PublishInitial(r) ==
    /\ phase = "serving" /\ pc[r] = "idle"
    /\ status[r] = "absent" /\ \A q \in 1 .. r - 1 : pc[q] # "idle"
    /\ r \in Attributed =>
         /\ ~Exceeds(UserLimit, userUsed, userHold, day, AdmissionHold)
         /\ ConcurrencyAllowed(userHold)
    /\ ~Exceeds(InstanceLimit, instUsed, instHold, day, AdmissionHold)
    /\ status' = [status EXCEPT ![r] = "pending"]
    /\ userHold' = IF r \in Attributed
                   THEN [userHold EXCEPT ![r] = NewHold] ELSE userHold
    /\ instHold' = [instHold EXCEPT ![r] = NewHold]
    /\ attempts' = Append(attempts, OpenAttempt(r))
    /\ pc' = [pc EXCEPT ![r] = "published"]
    /\ UNCHANGED <<userUsed, instUsed, day, pending, upstream, supervisor,
                   phase, crashes>>

(* publish_owned refuses before its transaction, or the transaction        *)
(* answers with a refusal: the claim is rolled back, nothing is durable.   *)
PublicationRefused(r) ==
    /\ phase = "serving" /\ pc[r] = "idle"
    /\ pc' = [pc EXCEPT ![r] = "gone"]
    /\ UNCHANGED <<durable, day, pending, upstream, supervisor, phase, crashes>>

(* The PriorAttemptNotFinalized check.                                     *)
PriorAttemptFinalized(r) ==
    LET prior == attempts[LastAttempt(r)]
    IN  prior.completed /\ prior.reservation # "active"

(* user_budget::check_retry and instance_budget::check_retry re-check the  *)
(* day the hold was admitted on; only the user's one wants an active hold. *)
RetryAllowed(limit, used, hold, r) ==
    ~Exceeds(limit, used, hold, hold[r].day, RetryHold)

UserRetryAllowed(r) ==
    r \in Attributed =>
      /\ userHold[r].status = "active"
      /\ RetryAllowed(UserLimit, userUsed, userHold, r)

InstanceRetryAllowed(r) ==
    instHold[r].status = "active" =>
      RetryAllowed(InstanceLimit, instUsed, instHold, r)

Extend(hold, r) ==
    IF hold[r].status = "active"
    THEN [hold EXCEPT ![r].held = @ + RetryHold] ELSE hold

RetryReady(r) ==
    /\ phase = "serving" /\ pc[r] = "select"
    /\ status[r] = "pending" /\ PriorAttemptFinalized(r)

(* publish_transaction for a further attempt of a pending request.         *)
PublishRetry(r) ==
    /\ RetryReady(r) /\ UserRetryAllowed(r) /\ InstanceRetryAllowed(r)
    /\ userHold' = Extend(userHold, r)
    /\ instHold' = Extend(instHold, r)
    /\ attempts' = Append(attempts, OpenAttempt(r))
    /\ pc' = [pc EXCEPT ![r] = "published"]
    /\ UNCHANGED <<status, userUsed, instUsed, day, pending, upstream,
                   supervisor, phase, crashes>>

(* The instance scope refuses after the user's hold was extended: the      *)
(* closure returns Ok(BudgetExceeded), so the extension commits.           *)
RetryOverInstance(r) ==
    /\ RetryReady(r) /\ UserRetryAllowed(r) /\ ~InstanceRetryAllowed(r)
    /\ userHold' = Extend(userHold, r)
    /\ pc' = [pc EXCEPT ![r] = "gone"]
    /\ UNCHANGED <<status, attempts, instHold, userUsed, instUsed, day,
                   pending, upstream, supervisor, phase, crashes>>

(* Selection or publication of the retry fails without a durable effect: a *)
(* selection error, a missing provider, a changed principal, a database    *)
(* error, an exceeded user rule.  execute_input returns the error and      *)
(* nothing terminalizes the request.                                       *)
RetryFails(r) ==
    /\ phase = "serving" /\ pc[r] = "select"
    /\ pc' = [pc EXCEPT ![r] = "gone"]
    /\ UNCHANGED <<durable, day, pending, upstream, supervisor, phase, crashes>>

(* The publication worker's send reaches the coordinator, which submits.   *)
Deliver(r) ==
    /\ phase = "serving" /\ pc[r] = "published"
    /\ pc' = [pc EXCEPT ![r] = "sent"]
    /\ UNCHANGED <<durable, day, pending, upstream, supervisor, phase, crashes>>

(* The rows are committed but the claim cannot be converted, in the worker *)
(* or again in the coordinator: the PostCommit error ends the request and  *)
(* nothing compensates the rows.                                           *)
DeliveryInterrupted(r) ==
    /\ phase = "serving" /\ pc[r] = "published"
    /\ pc' = [pc EXCEPT ![r] = "gone"]
    /\ UNCHANGED <<durable, day, pending, upstream, supervisor, phase, crashes>>

(* The receiver is gone: compensate_lost_delivery ends in                  *)
(* compensate_durable, whose failure is only logged.  The request stays    *)
(* pending and its holds active.                                           *)
LostDelivery(r) ==
    /\ phase = "serving" /\ pc[r] = "published"
    /\ attempts' \in {attempts, [attempts EXCEPT ![LastAttempt(r)] =
           [@ EXCEPT !.facts = "PublicationInterrupted",
                     !.completed = TRUE, !.reservation = "released"]]}
    /\ pc' = [pc EXCEPT ![r] = "gone"]
    /\ UNCHANGED <<status, userHold, instHold, userUsed, instUsed, day,
                   pending, upstream, supervisor, phase, crashes>>

(* The handler's future is dropped at one of its awaits.                   *)
CallerGone(r) ==
    /\ phase = "serving" /\ pc[r] \in {"sent", "cleanup", "select"}
    /\ pc' = [pc EXCEPT ![r] = "gone"]
    /\ upstream' = [upstream EXCEPT ![r] = "none"]
    /\ result' = [result EXCEPT ![r] = "none"]
    /\ UNCHANGED <<durable, day, pending, jobs, command, phase, crashes>>

-----------------------------------------------------------------------------
(* The finalization supervisor.                                            *)

(* register refuses a key that is still in the map with another command,   *)
(* and any key at capacity; the refusal only releases the claim.           *)
CanRegister(r) ==
    /\ <<r, LastAttempt(r)>> \notin jobs
    /\ Cardinality(jobs) < SupervisorCapacity

Register(r, kind, data) ==
    /\ jobs' = jobs \union {<<r, LastAttempt(r)>>}
    /\ command' = [command EXCEPT ![r] =
           [kind |-> kind, attempt |-> LastAttempt(r), data |-> data, tries |-> 0]]
    /\ UNCHANGED result

(* The attempt failed and policy retries: cleanup_failed_attempt registers *)
(* and waits.  A response (not a transport error) becomes last_upstream.   *)
AttemptRetryable(r, facts) ==
    /\ phase = "serving" /\ pc[r] = "sent"
    /\ Cardinality(AttemptsOf(r)) < MaxAttempts
    /\ upstream' = [upstream EXCEPT ![r] = IF facts = "response" THEN facts ELSE @]
    /\ IF CanRegister(r)
       THEN /\ Register(r, "FailedAttempt",
                        [target |-> "error", facts |-> facts, usage |-> Unknown])
            /\ pc' = [pc EXCEPT ![r] = "cleanup"]
       ELSE /\ pc' = [pc EXCEPT ![r] = "gone"]
            /\ UNCHANGED supervisor
    /\ UNCHANGED <<durable, day, pending, phase, crashes>>

CleanupWaited(r) ==
    /\ phase = "serving" /\ pc[r] = "cleanup" /\ result[r] # "none"
    /\ pc' = [pc EXCEPT ![r] = IF result[r] = "ok" THEN "select" ELSE "gone"]
    /\ result' = [result EXCEPT ![r] = "none"]
    /\ UNCHANGED <<durable, day, pending, upstream, jobs, command, phase, crashes>>

Respond(r, data) ==
    /\ pc' = [pc EXCEPT ![r] = "respond"]
    /\ pending' = [pending EXCEPT ![r] = data]
    /\ UNCHANGED <<durable, day, upstream, supervisor, phase, crashes>>

(* success_data: the provider may report the tokens or leave them unknown. *)
AttemptSucceeds(r, usage) ==
    /\ phase = "serving" /\ pc[r] = "sent"
    /\ Respond(r, [target |-> "completed", facts |-> "ok", usage |-> usage])

(* failure_data for an attempt that is not retried.                        *)
AttemptFails(r, facts) ==
    /\ phase = "serving" /\ pc[r] = "sent"
    /\ Respond(r, [target |-> "error", facts |-> facts, usage |-> Unknown])

(* No eligible account remains: the last upstream response is passed       *)
(* through under the last attempt's identity, or a synthetic 503.          *)
NoEligibleRoute(r) ==
    /\ phase = "serving" /\ pc[r] = "select"
    /\ Respond(r, [target |-> "error", usage |-> Unknown,
                   facts |-> IF upstream[r] = "none" THEN "NoEligibleRoute"
                             ELSE upstream[r]])

Undelivered(data) ==
    {[data EXCEPT !.target = "cancelled", !.facts = "Downstream"],
     [data EXCEPT !.target = "error", !.facts = "Downstream"],
     [data EXCEPT !.target = "error", !.facts = "CoordinatorInterrupted"]}

(* PendingFinalization::complete, delivered or not, and its Drop.          *)
Complete(r) ==
    /\ phase = "serving" /\ pc[r] = "respond"
    /\ \E data \in {pending[r]} \union Undelivered(pending[r]) :
         IF CanRegister(r) THEN Register(r, "Request", data)
         ELSE UNCHANGED supervisor
    /\ pc' = [pc EXCEPT ![r] = "gone"]
    /\ pending' = [pending EXCEPT ![r] = NoData]
    /\ upstream' = [upstream EXCEPT ![r] = "none"]
    /\ UNCHANGED <<durable, day, phase, crashes>>

-----------------------------------------------------------------------------
(* finalize_durable, one transaction.                                      *)

FactsConflict(attempt, data) ==
    attempt.completed /\ data.facts # "none" /\ data.facts # attempt.facts

(* The tokens the recorded attempts of r report.                           *)
Observed(r, atts) ==
    MapThenSumSet(LAMBDA a : atts[a].usage,
                  {a \in DOMAIN atts : atts[a].req = r /\ atts[a].usage >= 0})

(* An attempt of unknown usage makes settlement charge at least the hold.  *)
Charged(hold, r, atts) ==
    IF \E a \in DOMAIN atts : atts[a].req = r /\ atts[a].usage = Unknown
    THEN Max({hold[r].held, Observed(r, atts)})
    ELSE Observed(r, atts)

(* Defect: any hold row is folded, whatever its state.                     *)
Settles_again(hold, r) == hold[r].status # "none"

(* record_attempt_and_maybe_settle returns early on a settled or released  *)
(* hold.                                                                   *)
Settles(hold, r) == hold[r].status = "active"

(* Usage goes to the day the hold was admitted on, not to the current one. *)
FoldUsage(used, hold, r, atts) ==
    IF Settles(hold, r)
    THEN [used EXCEPT ![hold[r].day].requests = @ + 1,
                      ![hold[r].day].tokens = @ + Charged(hold, r, atts)]
    ELSE used

SettleHold(hold, r) ==
    IF Settles(hold, r) THEN [hold EXCEPT ![r].status = "settled"] ELSE hold

(* Defect: a failed attempt keeps its provider reservation.                *)
FinalizedAttempt_keeps(attempt, data) ==
    IF attempt.completed THEN attempt
    ELSE [attempt EXCEPT !.completed = TRUE, !.facts = data.facts,
                         !.usage = data.usage]

(* The attempt and reservation updates and the attempt's usage row.        *)
FinalizedAttempt(attempt, data) ==
    IF attempt.completed
    THEN [attempt EXCEPT !.reservation = "released"]
    ELSE [attempt EXCEPT !.completed = TRUE, !.facts = data.facts,
                         !.reservation = "released", !.usage = data.usage]

(* The update of the attempt, its reservation and both budgets.            *)
ConvergeAttempt(r, c, terminalize) ==
    LET atts == [attempts EXCEPT ![c.attempt] = FinalizedAttempt(@, c.data)] IN
    /\ attempts' = atts
    /\ IF terminalize
       THEN /\ userUsed' = FoldUsage(userUsed, userHold, r, atts)
            /\ instUsed' = FoldUsage(instUsed, instHold, r, atts)
            /\ userHold' = SettleHold(userHold, r)
            /\ instHold' = SettleHold(instHold, r)
       ELSE UNCHANGED <<userUsed, instUsed, userHold, instHold>>

(* Whether the transaction refuses before its first write.                 *)
Refused(r, c) ==
    IF c.kind = "Request"
    THEN status[r] \in Terminal /\ status[r] # c.data.target
    ELSE status[r] # "pending"

(* An Ok(Invariant) from the terminal-facts check commits the request      *)
(* update that precedes it.                                                *)
FinalizeDurable(r, c) ==
    IF Refused(r, c) THEN UNCHANGED durable
    ELSE /\ status' = IF c.kind = "Request"
                      THEN [status EXCEPT ![r] = c.data.target] ELSE status
         /\ IF FactsConflict(attempts[c.attempt], c.data)
            THEN UNCHANGED <<attempts, userHold, instHold, userUsed, instUsed>>
            ELSE ConvergeAttempt(r, c, c.kind = "Request")

FinalizeErr(r, c) == Refused(r, c) \/ FactsConflict(attempts[c.attempt], c.data)

(* The result is sent; it is kept here while someone waits for it.         *)
FinishCommand(r, outcome) ==
    /\ command' = [command EXCEPT ![r] = NoCommand]
    /\ result' = [result EXCEPT ![r] = IF pc[r] = "cleanup" THEN outcome ELSE "none"]
    /\ UNCHANGED <<jobs, day, pc, pending, upstream, phase, crashes>>

(* One try of run_command that ends the loop: success, or an error that is *)
(* permanent.  The result is sent before remove_job runs.                  *)
RunCommand(r, kind) ==
    /\ phase = "serving" /\ command[r] # NoCommand /\ command[r].kind = kind
    /\ FinalizeDurable(r, command[r])
    /\ FinishCommand(r, IF FinalizeErr(r, command[r]) THEN "err" ELSE "ok")

(* finalize_request terminalizes the request with its attempt.             *)
FinalizeRequest(r) == RunCommand(r, "Request")

(* finalize_failed_attempt leaves the request pending.                     *)
FinalizeFailedAttempt(r) == RunCommand(r, "FailedAttempt")

(* A try that fails transiently, before the transaction or after it (the   *)
(* claim could not be released).  The third one exhausts the loop.         *)
TryFails(r) ==
    /\ phase = "serving" /\ command[r] # NoCommand
    /\ \/ UNCHANGED durable
       \/ ~FinalizeErr(r, command[r]) /\ FinalizeDurable(r, command[r])
    /\ IF command[r].tries < 2
       THEN /\ command' = [command EXCEPT ![r].tries = @ + 1]
            /\ UNCHANGED <<jobs, result, day, pc, pending, upstream, phase, crashes>>
       ELSE FinishCommand(r, "err")

RemoveJob(r, a) ==
    /\ phase = "serving" /\ <<r, a>> \in jobs /\ command[r].attempt # a
    /\ jobs' = jobs \ {<<r, a>>}
    /\ UNCHANGED <<durable, day, pc, pending, upstream, command, result, phase, crashes>>

-----------------------------------------------------------------------------
(* Crash, and the reconciliation that runs before the next process serves. *)

Crash ==
    /\ crashes < MaxCrashes
    /\ crashes' = crashes + 1
    /\ phase' = "recovering"
    /\ pc' = [r \in Requests |-> IF pc[r] = "idle" THEN "idle" ELSE "gone"]
    /\ pending' = [r \in Requests |-> NoData]
    /\ upstream' = [r \in Requests |-> "none"]
    /\ jobs' = {}
    /\ command' = [r \in Requests |-> NoCommand]
    /\ result' = [r \in Requests |-> "none"]
    /\ UNCHANGED <<durable, day>>

(* SELECT id ... ORDER BY id LIMIT BatchLimit.                             *)
FirstBatch(ids) ==
    {i \in ids : Cardinality({j \in ids : j <= i}) <= BatchLimit}

PendingRequests == FirstBatch({r \in Requests : status[r] = "pending"})

ActiveReservations ==
    FirstBatch({a \in DOMAIN attempts : attempts[a].reservation = "active"})

OpenAttempts == FirstBatch({a \in DOMAIN attempts : ~attempts[a].completed})

(* Defect: the update counts holds that are already released.              *)
HoldsToRelease_counted(hold, st) ==
    FirstBatch({r \in Requests : st[r] = "interrupted"})

(* Active holds of the first interrupted requests there ever were.         *)
HoldsToRelease(hold, st) ==
    {r \in FirstBatch({q \in Requests : st[q] = "interrupted"}) :
        hold[r].status = "active"}

Release(hold, ids) ==
    [r \in Requests |-> IF r \in ids THEN [hold[r] EXCEPT !.status = "released"]
                        ELSE hold[r]]

(* One reconcile_once: five bounded updates in one transaction.  A pass    *)
(* that fixes no row is the converged report that lets the process serve.  *)
ReconcilePass ==
    /\ phase = "recovering"
    /\ status' = [r \in Requests |->
           IF r \in PendingRequests THEN "interrupted" ELSE status[r]]
    /\ attempts' = [a \in DOMAIN attempts |->
           [attempts[a] EXCEPT
              !.reservation = IF a \in ActiveReservations THEN "released" ELSE @,
              !.completed = @ \/ a \in OpenAttempts,
              !.facts = IF a \in OpenAttempts THEN "process_interrupted" ELSE @]]
    /\ LET users == HoldsToRelease(userHold, status')
           instances == HoldsToRelease(instHold, status')
       IN  /\ userHold' = Release(userHold, users)
           /\ instHold' = Release(instHold, instances)
           /\ phase' = IF PendingRequests \union ActiveReservations \union
                          OpenAttempts \union users \union instances = {}
                       THEN "serving" ELSE "recovering"
    /\ UNCHANGED <<userUsed, instUsed, day, pc, pending, upstream, supervisor, crashes>>

(* Midnight, UTC.                                                          *)
NewDay ==
    /\ day < Days
    /\ day' = day + 1
    /\ UNCHANGED <<durable, pc, pending, upstream, supervisor, phase, crashes>>

-----------------------------------------------------------------------------

Init ==
    /\ status = [r \in Requests |-> "absent"]
    /\ attempts = <<>>
    /\ userHold = [r \in Requests |-> NoHold]
    /\ instHold = [r \in Requests |-> NoHold]
    /\ userUsed = [d \in 1 .. Days |-> [requests |-> 0, tokens |-> 0]]
    /\ instUsed = [d \in 1 .. Days |-> [requests |-> 0, tokens |-> 0]]
    /\ day = 1
    /\ pc = [r \in Requests |-> "idle"]
    /\ pending = [r \in Requests |-> NoData]
    /\ upstream = [r \in Requests |-> "none"]
    /\ jobs = {}
    /\ command = [r \in Requests |-> NoCommand]
    /\ result = [r \in Requests |-> "none"]
    /\ phase = "serving"
    /\ crashes = 0

RequestNext(r) ==
    \/ PublishInitial(r) \/ PublicationRefused(r)
    \/ PublishRetry(r) \/ RetryOverInstance(r) \/ RetryFails(r)
    \/ Deliver(r) \/ DeliveryInterrupted(r) \/ LostDelivery(r) \/ CallerGone(r)
    \/ \E facts \in {"response", "transport"} :
         AttemptRetryable(r, facts) \/ AttemptFails(r, facts)
    \/ \E usage \in Unknown .. Single : AttemptSucceeds(r, usage)
    \/ CleanupWaited(r) \/ NoEligibleRoute(r) \/ Complete(r)

WorkerNext(r) ==
    \/ FinalizeRequest(r) \/ FinalizeFailedAttempt(r) \/ TryFails(r)
    \/ \E a \in DOMAIN attempts : RemoveJob(r, a)

(* No coordinator or worker has anything left to do.                       *)
Quiescent ==
    /\ phase = "serving" /\ jobs = {}
    /\ \A r \in Requests : pc[r] \in {"idle", "gone"}
    /\ UNCHANGED vars

Next ==
    \/ \E r \in Requests : RequestNext(r) \/ WorkerNext(r)
    \/ Crash \/ ReconcilePass \/ NewDay \/ Quiescent

Spec == Init /\ [][Next]_vars

(* The runtime polls a spawned worker and the startup loop; nothing obliges *)
(* clients, providers, midnight or crashes.                                *)
Fairness ==
    /\ WF_vars(ReconcilePass)
    /\ \A r \in Requests : WF_vars(FinalizeRequest(r) \/ FinalizeFailedAttempt(r) \/ TryFails(r))
    /\ \A r \in Requests : WF_vars(\E a \in DOMAIN attempts : RemoveJob(r, a))

FairSpec == Spec /\ Fairness

-----------------------------------------------------------------------------
(* Properties.                                                             *)

(* Every durable row and every process-local value has its type.           *)
TypeOK ==
    /\ status \in [Requests -> {"absent", "pending"} \union Terminal]
    /\ attempts \in Seq(Attempt)
    /\ userHold \in [Requests -> Hold] /\ instHold \in [Requests -> Hold]
    /\ userUsed \in [1 .. Days -> [requests: Nat, tokens: Nat]]
    /\ instUsed \in [1 .. Days -> [requests: Nat, tokens: Nat]]
    /\ day \in 1 .. Days
    /\ pc \in [Requests -> {"idle", "published", "sent", "cleanup", "select",
                           "respond", "gone"}]
    /\ pending \in [Requests -> Data]
    /\ upstream \in [Requests -> {"none", "response"}]
    /\ jobs \subseteq Requests \X DOMAIN attempts
    /\ command \in [Requests -> Command \union {NoCommand}]
    /\ result \in [Requests -> {"none", "ok", "err"}]
    /\ phase \in {"serving", "recovering"}
    /\ crashes \in 0 .. MaxCrashes

(* A hard rule is never overrun while providers bill no more than the      *)
(* admitted worst case: what a day has been charged and what its live      *)
(* holds reserve stays within the limit, through concurrent admissions,    *)
(* retries, unknown usage, midnight and crashes, and the user never has    *)
(* more live holds than max_concurrent.                                    *)
BudgetNeverOverrun ==
    /\ \A d \in 1 .. Days :
         /\ userUsed[d].tokens + HeldOn(userHold, d) <= UserLimit
         /\ instUsed[d].tokens + HeldOn(instHold, d) <= InstanceLimit
    /\ ActiveHolds(userHold) <= MaxConcurrent

SettledOn(hold, d) ==
    {r \in Requests : hold[r].status = "settled" /\ hold[r].day = d}

(* A logical request is folded once: a day's request count is the number   *)
(* of holds settled on it, although the supervisor re-runs a command whose *)
(* transaction already committed.                                          *)
FoldedOnce ==
    \A d \in 1 .. Days :
      /\ userUsed[d].requests = Cardinality(SettledOn(userHold, d))
      /\ instUsed[d].requests = Cardinality(SettledOn(instHold, d))

(* Nothing is settled early: a settled request is terminal, all of its     *)
(* attempts are closed with their provider reservation released, and every *)
(* one has reported or unknown usage in the bill.                          *)
SettledIsComplete ==
    \A r \in Requests : "settled" \in {userHold[r].status, instHold[r].status} =>
      /\ status[r] \in TargetStatus
      /\ \A a \in AttemptsOf(r) :
           /\ attempts[a].completed /\ attempts[a].reservation = "released"
           /\ attempts[a].usage # NoRow

(* Unknown usage is never free: what a day is charged covers the whole     *)
(* hold of each settled request that had an attempt of unknown usage.      *)
UnknownIsCharged ==
    \A d \in 1 .. Days :
      LET blind == {r \in SettledOn(instHold, d) :
                     \E a \in AttemptsOf(r) : attempts[a].usage = Unknown}
      IN  instUsed[d].tokens >= MapThenSumSet(LAMBDA r : instHold[r].held, blind)

(* A hold is given back without a charge only when the crash of its        *)
(* process interrupted the request.                                        *)
ReleasedOnlyIfInterrupted ==
    \A r \in Requests : "released" \in {userHold[r].status, instHold[r].status} =>
      status[r] = "interrupted"

(* "the same reconciliation pass releases each active user/instance hold   *)
(* on those requests": a process that serves has no active hold on a       *)
(* request a crash interrupted.                                            *)
InterruptedHoldsNothing ==
    phase = "serving" =>
      \A r \in Requests : status[r] = "interrupted" =>
        "active" \notin {userHold[r].status, instHold[r].status}

(* "terminal finalization settles one daily and one monthly usage bucket   *)
(* in the same transaction that terminalizes the request": no request that *)
(* finalization made terminal still has an active hold.                    *)
TerminalHoldsNothing ==
    \A r \in Requests : status[r] \in TargetStatus =>
      "active" \notin {userHold[r].status, instHold[r].status}

(* Durable history is final: a terminal request, a completed attempt and a *)
(* hold that is no longer active are never changed again, neither by a     *)
(* late command nor by reconciliation.                                     *)
HistoryIsFinal ==
    [][/\ \A r \in Requests :
            /\ status[r] \in Terminal => status'[r] = status[r]
            /\ userHold[r].status \in {"settled", "released"} => userHold'[r] = userHold[r]
            /\ instHold[r].status \in {"settled", "released"} => instHold'[r] = instHold[r]
       /\ \A a \in DOMAIN attempts : attempts[a].completed =>
            /\ attempts'[a].completed
            /\ attempts'[a].facts = attempts[a].facts
            /\ attempts'[a].usage = attempts[a].usage]_vars

(* The process serves only once recovery converged: no request of an       *)
(* earlier process is pending, no attempt open, no reservation active.     *)
RecoveryConverges ==
    [][phase = "recovering" /\ phase' = "serving" =>
         /\ \A r \in Requests : status'[r] # "pending"
         /\ \A a \in DOMAIN attempts' :
              attempts'[a].completed /\ attempts'[a].reservation = "released"]_vars

(* Startup reconciliation ends: each pass fixes something or is the last.  *)
RecoveryEnds == phase = "recovering" ~> phase = "serving"

(* Retained finalization work leaves the supervisor's map, whatever its    *)
(* outcome, so a drain of the supervisor can finish.                       *)
JobsDrain ==
    \A r \in Requests : \A a \in 1 .. NumRequests * MaxAttempts :
      <<r, a>> \in jobs ~> <<r, a>> \notin jobs

=============================================================================
