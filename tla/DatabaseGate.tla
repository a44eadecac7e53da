---------------------------- MODULE DatabaseGate -----------------------------
(***************************************************************************)
(* The serialized database (rust/src/db/connection.rs): one SQLite         *)
(* connection on a worker thread, one permit in front of it, and callers   *)
(* whose futures can be dropped at every await.  A closure handed to the   *)
(* worker runs whether or not its caller still waits, so the permit        *)
(* travels: into the closure (call, with_transaction, begin_transaction),  *)
(* on to the DatabaseTransaction, and to the task its Drop spawns.         *)
(*                                                                         *)
(* SQL is reduced to what opens and ends a transaction; any statement may  *)
(* fail.  The dedicated checkpointer exists only in qualification builds   *)
(* and is left out.                                                        *)
(***************************************************************************)
EXTENDS Naturals, Sequences

CONSTANTS
    Callers,    \* callers of the database
    MaxQueued,  \* bound: cancelled inspections at the worker
    NoCaller

VARIABLES
    permit,      \* where the semaphore's permit is
    waiters,     \* the FIFO of acquire_owned
    jobs,        \* closures queued at the worker, in order
    openTxn,     \* whose transaction is open on the connection
    leftOpen,    \* a ROLLBACK failed: openTxn belongs to nobody any more
    caller,      \* what each caller awaits
    dbClosed,    \* DatabaseInner.closed
    physical     \* "open", "closing" once physical_closed was swapped, "closed"

databaseVars == <<permit, waiters, jobs, openTxn, leftOpen, caller, dbClosed,
                  physical>>

-----------------------------------------------------------------------------
\* The closures: call, with_transaction, begin_transaction's BEGIN, the
\* statements of a DatabaseTransaction, the ROLLBACK of a failed COMMIT and of
\* a Drop, the inspection of checkpoint_maintenance, close.
JobKinds == {"call", "txn", "begin", "statement", "commit", "rollback",
             "safety", "drop", "inspect", "close"}

AcquireKinds == {"call", "txn", "begin", "close"}

DatabaseInit ==
    /\ permit = "free"
    /\ waiters = <<>>
    /\ jobs = <<>>
    /\ openTxn = NoCaller
    /\ leftOpen = FALSE
    /\ caller = [c \in Callers |-> "idle"]
    /\ dbClosed = FALSE
    /\ physical = "open"

Queue(k, c) == Append(jobs, [kind |-> k, by |-> c, awaited |-> TRUE])

\* The worker drops what is sent to it after close.
Alive == physical # "closed"

Awaits(c, s) == caller' = [caller EXCEPT ![c] = s]

-----------------------------------------------------------------------------
(* Getting the permit.                                                     *)

\* acquire_permit and close() up to the semaphore; only close does not look at
\* the closed flag.
Ask(c, k) ==
    /\ caller[c] = "idle"
    /\ k # "close" => ~dbClosed
    /\ waiters' = Append(waiters, [by |-> c, kind |-> k])
    /\ Awaits(c, "waiting")
    /\ UNCHANGED <<permit, jobs, openTxn, leftOpen, dbClosed, physical>>

\* The permit reaches the first waiter, which queues its closure.
Granted ==
    /\ permit = "free"
    /\ waiters # <<>>
    /\ Head(waiters).kind # "close"
    /\ waiters' = Tail(waiters)
    /\ IF Alive
         THEN /\ permit' = "job"
              /\ jobs' = Queue(Head(waiters).kind, Head(waiters).by)
              /\ Awaits(Head(waiters).by, Head(waiters).kind)
         ELSE /\ UNCHANGED <<permit, jobs>>
              /\ Awaits(Head(waiters).by, "idle")
    /\ UNCHANGED <<openTxn, leftOpen, dbClosed, physical>>

\* close() with the permit; the second close returns at once.
GrantedToClose ==
    /\ permit = "free"
    /\ waiters # <<>>
    /\ Head(waiters).kind = "close"
    /\ waiters' = Tail(waiters)
    /\ dbClosed' = TRUE
    /\ IF physical = "open"
         THEN /\ physical' = "closing"
              /\ permit' = "future"
              /\ jobs' = Queue("close", Head(waiters).by)
              /\ Awaits(Head(waiters).by, "close")
         ELSE /\ UNCHANGED <<physical, permit, jobs>>
              /\ Awaits(Head(waiters).by, "idle")
    /\ UNCHANGED <<openTxn, leftOpen>>

\* checkpoint_maintenance takes the permit only if nobody waits for it, and
\* keeps it in its own future.
Inspect(c) ==
    /\ caller[c] = "idle"
    /\ ~dbClosed
    /\ permit = "free"
    /\ waiters = <<>>
    /\ Len(jobs) < MaxQueued
    /\ permit' = "future"
    /\ jobs' = Queue("inspect", c)
    /\ Awaits(c, "inspect")
    /\ UNCHANGED <<waiters, openTxn, leftOpen, dbClosed, physical>>

-----------------------------------------------------------------------------
(* The worker.                                                             *)

Job == Head(jobs)
Answer(s) == IF Job.awaited THEN Awaits(Job.by, s) ELSE UNCHANGED caller

\* A plain closure ends and drops its permit.
RunCall ==
    /\ jobs # <<>>
    /\ Job.kind = "call"
    /\ permit' = "free"
    /\ Answer("idle")
    /\ UNCHANGED <<openTxn, leftOpen>>

\* with_transaction: BEGIN, the body, COMMIT or ROLLBACK in one closure; a
\* failed ROLLBACK leaves the transaction open, and the caller has to act.
RunTransaction(rollbackFails) ==
    /\ jobs # <<>>
    /\ Job.kind = "txn"
    /\ permit' = "free"
    /\ \/ /\ ~rollbackFails
          /\ Answer("idle")
          /\ UNCHANGED <<openTxn, leftOpen>>
       \/ /\ rollbackFails
          /\ openTxn = NoCaller
          /\ openTxn' = Job.by
          /\ leftOpen' = TRUE
          /\ Answer("broken")

\* Defect: a transaction nobody awaits is forgotten instead of dropped.
ForgottenTransaction == "handle"

\* A DatabaseTransaction whose caller is gone is dropped by the worker.
UnclaimedTransaction == "spawned"

\* BEGIN IMMEDIATE fails inside an open transaction.
RunBegin(fails) ==
    /\ jobs # <<>>
    /\ Job.kind = "begin"
    /\ openTxn # NoCaller => fails
    /\ IF fails
         THEN /\ permit' = "free"
              /\ Answer("idle")
              /\ UNCHANGED openTxn
         ELSE /\ openTxn' = Job.by
              /\ permit' = IF Job.awaited THEN "handle" ELSE UnclaimedTransaction
              /\ Answer("holding")
    /\ UNCHANGED leftOpen

RunStatement ==
    /\ jobs # <<>>
    /\ Job.kind = "statement"
    /\ Answer("holding")
    /\ UNCHANGED <<permit, openTxn, leftOpen>>

\* COMMIT; the caller takes the permit back when it goes on.
RunCommit(fails) ==
    /\ jobs # <<>>
    /\ Job.kind = "commit"
    /\ openTxn' = IF fails THEN openTxn ELSE NoCaller
    /\ Answer(IF fails THEN "commit_failed" ELSE "ended")
    /\ UNCHANGED <<permit, leftOpen>>

\* ROLLBACK by rollback(), after a failed COMMIT, or by Drop's task.  After a
\* COMMIT that took effect there is nothing left to roll back.
RunRollback(fails) ==
    /\ jobs # <<>>
    /\ Job.kind \in {"rollback", "safety", "drop"}
    /\ openTxn' = IF fails THEN openTxn ELSE NoCaller
    /\ leftOpen' = (leftOpen \/ (fails /\ openTxn # NoCaller))
    /\ permit' = IF Job.kind = "drop" THEN "free" ELSE permit
    /\ Answer("ended")

\* The inspection and its PASSIVE checkpoint; the permit is its future's.
RunInspection ==
    /\ jobs # <<>>
    /\ Job.kind = "inspect"
    /\ permit' = IF Job.awaited THEN "free" ELSE permit
    /\ Answer("idle")
    /\ UNCHANGED <<openTxn, leftOpen>>

WorkerStep ==
    /\ physical # "closed"
    /\ \/ RunCall \/ RunStatement \/ RunInspection
       \/ \E b \in BOOLEAN : \/ RunTransaction(b) \/ RunBegin(b) \/ RunCommit(b)
                             \/ RunRollback(b)
    /\ jobs' = Tail(jobs)
    /\ UNCHANGED <<waiters, dbClosed, physical>>

\* The connection closes and the worker ends: whatever is queued behind the
\* close fails, and permits in dropped closures return.
RunClose ==
    /\ jobs # <<>>
    /\ Job.kind = "close"
    /\ physical' = "closed"
    /\ openTxn' = NoCaller
    /\ leftOpen' = FALSE
    /\ jobs' = <<>>
    /\ permit' = "free"
    /\ caller' = [c \in Callers |->
                    IF \E i \in DOMAIN jobs : jobs[i].by = c /\ jobs[i].awaited
                      THEN "idle" ELSE caller[c]]
    /\ UNCHANGED <<waiters, dbClosed>>

-----------------------------------------------------------------------------
(* A caller with a DatabaseTransaction.                                    *)

Use(c, k) ==
    /\ caller[c] = "holding"
    /\ k \in {"statement", "commit", "rollback"}
    /\ jobs' = Queue(k, c)
    /\ Awaits(c, k)
    /\ UNCHANGED <<permit, waiters, openTxn, leftOpen, dbClosed, physical>>

\* COMMIT failed: a safety ROLLBACK follows.
CommitFailed(c) ==
    /\ caller[c] = "commit_failed"
    /\ jobs' = Queue("safety", c)
    /\ Awaits(c, "safety")
    /\ UNCHANGED <<permit, waiters, openTxn, leftOpen, dbClosed, physical>>

\* finished = true and permit.take()
Finish(c) ==
    /\ caller[c] = "ended"
    /\ permit' = "free"
    /\ Awaits(c, "idle")
    /\ UNCHANGED <<waiters, jobs, openTxn, leftOpen, dbClosed, physical>>

\* with_transaction's caller learns that its ROLLBACK failed: the database is
\* marked closed and close() follows.
FailClosed(c) ==
    /\ caller[c] = "broken"
    /\ dbClosed' = TRUE
    /\ waiters' = Append(waiters, [by |-> c, kind |-> "close"])
    /\ Awaits(c, "waiting")
    /\ UNCHANGED <<permit, jobs, openTxn, leftOpen, physical>>

\* Defect: Drop releases the permit at once.
DropReleases == permit' = "free"

\* Drop gives the permit to the task it spawns.
DropHandsOver == permit' = "spawned"

\* A caller whose future is dropped leaves the semaphore's queue.
WithoutWaiter(c) ==
    LET place == CHOOSE i \in DOMAIN waiters : waiters[i].by = c
    IN  [i \in 1 .. Len(waiters) - 1 |-> waiters[IF i < place THEN i ELSE i + 1]]

\* The caller's future is dropped.  An unfinished DatabaseTransaction goes with
\* it; a closure at the worker, and the permit inside it, do not.
Cancel(c) ==
    /\ caller[c] # "idle"
    /\ Awaits(c, "idle")
    /\ waiters' = IF caller[c] = "waiting" THEN WithoutWaiter(c) ELSE waiters
    /\ IF caller[c] \in {"holding", "statement", "commit", "commit_failed",
                         "rollback", "safety", "ended"}
         THEN DropHandsOver
         ELSE permit' = IF caller[c] \in {"inspect", "close"} THEN "free" ELSE permit
    /\ jobs' = [i \in DOMAIN jobs |->
                  [kind |-> jobs[i].kind, by |-> jobs[i].by,
                   awaited |-> jobs[i].awaited /\ jobs[i].by # c]]
    /\ UNCHANGED <<openTxn, leftOpen, dbClosed, physical>>

\* The spawned task sends ROLLBACK, or finds the connection closed.
SpawnedRollback ==
    /\ permit = "spawned"
    /\ ~\E i \in DOMAIN jobs : jobs[i].kind = "drop"
    /\ IF Alive
         THEN jobs' = Append(jobs, [kind |-> "drop", by |-> openTxn,
                                        awaited |-> FALSE]) /\ UNCHANGED permit
         ELSE permit' = "free" /\ UNCHANGED jobs
    /\ UNCHANGED <<waiters, openTxn, leftOpen, caller, dbClosed, physical>>

DatabaseNext ==
    \/ \E c \in Callers : \/ \E k \in AcquireKinds : Ask(c, k)
                          \/ \E k \in JobKinds : Use(c, k)
                          \/ Inspect(c) \/ CommitFailed(c) \/ Finish(c)
                          \/ FailClosed(c) \/ Cancel(c)
    \/ Granted \/ GrantedToClose \/ SpawnedRollback
    \/ WorkerStep \/ RunClose

DatabaseSpec == DatabaseInit /\ [][DatabaseNext]_databaseVars

\* The worker and the runtime go on; a caller with a transaction ends it.
DatabaseFairness ==
    /\ WF_databaseVars(WorkerStep \/ RunClose)
    /\ WF_databaseVars(Granted \/ GrantedToClose)
    /\ WF_databaseVars(SpawnedRollback)
    /\ \A c \in Callers :
         /\ WF_databaseVars(CommitFailed(c) \/ Finish(c) \/ FailClosed(c))
         /\ SF_databaseVars(Use(c, "commit") \/ Use(c, "rollback"))

-----------------------------------------------------------------------------
\* A closure never runs inside another caller's transaction, wherever the
\* futures of the two were dropped: the permit outlives a cancelled caller.
\* A transaction whose ROLLBACK failed is left to AmbiguityFailsClosed.
RunsInOwnTransaction ==
    jobs # <<>> /\ openTxn # NoCaller /\ ~leftOpen => Job.by = openTxn

\* The permit always comes back: no cancelled call, begin_transaction, commit
\* or dropped DatabaseTransaction keeps it.
PermitReturns == permit # "free" ~> permit = "free"

\* deep-dive-database.md: "Commit/rollback ambiguity fails closed": once a
\* ROLLBACK has failed, nothing but the close runs on the connection.
AmbiguityFailsClosed ==
    jobs # <<>> /\ leftOpen => Job.kind = "close" \/ Job.by = openTxn
=============================================================================
