------------------------- MODULE DatabaseMaintenance -------------------------
(***************************************************************************)
(* What the process writes in the background, and the upkeep of the        *)
(* database: the usage coalescer and its flush (operations/metrics.rs),    *)
(* retention cleanup and checkpointing of the write-ahead log              *)
(* (db/connection.rs), all run by callbacks of task_supervisor.rs that a   *)
(* timeout or the end of the server may drop at any await.                 *)
(*                                                                         *)
(* A transaction of with_transaction takes the gate's permit, is counted   *)
(* and hands the permit to its job on the worker thread, which runs to the *)
(* end even if its caller is dropped; DatabaseGate has the queue at the    *)
(* gate.  A usage row is the number of events in it, and a transaction     *)
(* that changes rows adds one frame to the log.  Which of the old rows a   *)
(* batch takes is left open.                                               *)
(***************************************************************************)
EXTENDS Naturals, FiniteSets, FiniteSetsExt, Functions

CONSTANTS
    MetricKeys,          \* bucket, provider, model, account, ...
    max_rows,
    max_pending_events,
    MaxEvents,           \* bound on the events offered to the coalescer
    soft_wal_frames,
    MaxTransactions,     \* bound on the transactions of the process
    RequestRows,
    MaxReservations,     \* reservations of one request, one per attempt
    row_limit,
    batch_limit

ASSUME MaintenanceAssumption ==
    {max_rows, max_pending_events, soft_wal_frames, row_limit, batch_limit} \subseteq Nat \ {0}

VARIABLES
    job,          \* the worker's job and whether its caller still waits
    transactions, \* DatabaseInner.transactions
    wal,          \* frames of the log not checkpointed; those the last inspection left
    checker,      \* the checkpoint tick: place, count it loaded, observed_transactions
    buffer,       \* State.buffer: events per row
    totals,       \* offered to the coalescer; total_flushed; total_dropped
    flush,        \* the running flush: place and batch
    rollups,      \* usage_rollups
    lost,         \* events of the batches that were dropped before their job
    rows,         \* requests: status and whether past the retention period
    reserved,     \* reservations per request
    cleanup       \* the retention tick: place and batches completed

metricsVars == <<buffer, totals, flush, rollups, lost>>
retentionVars == <<rows, reserved, cleanup>>
maintenanceVars == <<metricsVars, checker, retentionVars, job, transactions, wal>>

-----------------------------------------------------------------------------
NoEvents == [k \in MetricKeys |-> 0]

\* State.pending_events, and the events of a batch.
EventsIn(b) == MapThenSumSet(LAMBDA k : b[k], MetricKeys)

RowsIn(b) == {k \in MetricKeys : b[k] > 0}

AddRows(b, c) == [k \in MetricKeys |-> b[k] + c[k]]

NoJob == [kind |-> "none", awaited |-> FALSE, batch |-> NoEvents]

\* The worker is idle, so the permit is free unless the checkpoint tick has it.
PermitIsFree == job.kind = "none" /\ checker.at \notin {"holding", "inspected"}

\* with_transaction after acquire_permit: counted, then handed to the worker.
Submit(kind, batch) ==
    /\ PermitIsFree
    /\ transactions < MaxTransactions
    /\ transactions' = transactions + 1
    /\ job' = [kind |-> kind, awaited |-> TRUE, batch |-> batch]

\* The job leaves the worker and its permit goes with it.
JobEnds == job' = NoJob

\* A commit appends to the log.
Appends == wal' = [wal EXCEPT !.frames = @ + 1]

MaintenanceInit ==
    /\ job = NoJob
    /\ transactions = 0
    /\ wal = [frames |-> 0, left |-> 0]
    /\ checker = [at |-> "idle", current |-> 0, observed |-> 0]
    /\ buffer = NoEvents
    /\ totals = [offered |-> 0, flushed |-> 0, dropped |-> 0]
    /\ flush = [at |-> "idle", batch |-> NoEvents]
    /\ rollups = NoEvents
    /\ lost = 0
    /\ rows = [r \in RequestRows |-> [status |-> "none", old |-> FALSE]]
    /\ reserved = [r \in RequestRows |-> 0]
    /\ cleanup = [at |-> "idle", batches |-> 0]

-----------------------------------------------------------------------------
(* The usage coalescer.                                                    *)

\* record_buffered: over a cap the event is counted as dropped.
RecordUsage(k) ==
    LET full == \/ EventsIn(buffer) >= max_pending_events
                \/ Cardinality(RowsIn(buffer)) >= max_rows /\ buffer[k] = 0
    IN  /\ totals.offered < MaxEvents
        /\ totals' = [totals EXCEPT !.offered = @ + 1,
                                    !.dropped = IF full THEN @ + 1 ELSE @]
        /\ buffer' = IF full THEN buffer ELSE [buffer EXCEPT ![k] = @ + 1]
        /\ UNCHANGED <<flush, rollups, lost, checker, retentionVars, job, transactions, wal>>

\* flush: under flush_lock the buffer is taken and emptied.
TakeBatch ==
    /\ flush.at = "idle"
    /\ buffer # NoEvents
    /\ flush' = [at |-> "gate", batch |-> buffer]
    /\ buffer' = NoEvents
    /\ UNCHANGED <<totals, rollups, lost, checker, retentionVars, job, transactions, wal>>

SubmitBatch ==
    /\ flush.at = "gate"
    /\ flush' = [flush EXCEPT !.at = "worker"]
    /\ Submit("flush", flush.batch)
    /\ UNCHANGED <<buffer, totals, rollups, lost, checker, retentionVars, wal>>

\* acquire_permit refuses, or BEGIN, the upserts or COMMIT fail.
FlushFails ==
    \/ /\ flush.at = "gate"
       /\ flush' = [flush EXCEPT !.at = "failed"]
       /\ UNCHANGED <<buffer, totals, rollups, lost, checker, retentionVars, job, transactions, wal>>
    \/ /\ job.kind = "flush"
       /\ JobEnds
       /\ IF job.awaited
            THEN flush' = [flush EXCEPT !.at = "failed"] /\ UNCHANGED lost
            ELSE lost' = lost + EventsIn(job.batch) /\ UNCHANGED flush
       /\ UNCHANGED <<buffer, totals, rollups, checker, retentionVars, transactions, wal>>

\* METRICS_UPSERT_SQL for every row, committed as one transaction.
WorkerStores ==
    /\ job.kind = "flush"
    /\ checker.at # "orphan"
    /\ rollups' = AddRows(rollups, job.batch)
    /\ JobEnds
    /\ Appends
    /\ flush' = IF job.awaited THEN [flush EXCEPT !.at = "stored"] ELSE flush
    /\ UNCHANGED <<buffer, totals, lost, checker, retentionVars, transactions>>

FlushCounts ==
    /\ flush.at = "stored"
    /\ totals' = [totals EXCEPT !.flushed = @ + EventsIn(flush.batch)]
    /\ flush' = [at |-> "idle", batch |-> NoEvents]
    /\ UNCHANGED <<buffer, rollups, lost, checker, retentionVars, job, transactions, wal>>

\* Whether rows of a failed batch fit beside what was recorded meanwhile.
FitsBack(b, kept) ==
    /\ EventsIn(AddRows(b, kept)) <= max_pending_events
    /\ Cardinality(RowsIn(AddRows(b, kept))) <= max_rows

\* A failed flush merges its rows back, a row that does not fit is dropped.
Rebuffer(kept) ==
    /\ flush.at = "failed"
    /\ buffer' = AddRows(buffer, kept)
    /\ totals' = [totals EXCEPT !.dropped = @ + EventsIn(flush.batch) - EventsIn(kept)]
    /\ flush' = [at |-> "idle", batch |-> NoEvents]
    /\ UNCHANGED <<rollups, lost, checker, retentionVars, job, transactions, wal>>

\* The sub-batches of whole rows that fit and leave out only rows that do not.
Kept ==
    LET part(s) == [k \in MetricKeys |-> IF k \in s THEN flush.batch[k] ELSE 0]
    IN  {part(s) : s \in {q \in SUBSET RowsIn(flush.batch) :
            /\ FitsBack(buffer, part(q))
            /\ \A k \in RowsIn(flush.batch) \ q : ~FitsBack(buffer, part(q \cup {k}))}}

\* The flush's future is dropped: at the gate its batch goes with it, at the
\* worker the job goes on without it.
DropFlush ==
    /\ flush.at \in {"gate", "worker", "stored"}
    /\ lost' = IF flush.at = "gate" THEN lost + EventsIn(flush.batch) ELSE lost
    /\ job' = IF flush.at = "worker" THEN [job EXCEPT !.awaited = FALSE] ELSE job
    /\ flush' = [at |-> "idle", batch |-> NoEvents]
    /\ UNCHANGED <<buffer, totals, rollups, checker, retentionVars, transactions, wal>>

-----------------------------------------------------------------------------
(* Checkpointing of the log.                                               *)

\* checkpoint_maintenance up to its await: not due when nothing was begun
\* since, and no waiting at the gate.
CheckStarts ==
    /\ checker.at = "idle"
    /\ transactions # checker.observed
    /\ PermitIsFree
    /\ checker' = [checker EXCEPT !.at = "holding", !.current = transactions]
    /\ UNCHANGED <<metricsVars, retentionVars, job, transactions, wal>>

\* The inspection on the worker: a PASSIVE checkpoint from soft_wal_frames on,
\* which stops at the oldest frame another process still reads.
WorkerInspects(left) ==
    /\ checker.at \in {"holding", "orphan"}
    /\ IF wal.frames >= soft_wal_frames THEN left \in 0..wal.frames ELSE left = wal.frames
    /\ wal' = [frames |-> left, left |-> left]
    /\ checker' = [checker EXCEPT !.at = IF @ = "holding" THEN "inspected" ELSE "idle"]
    /\ UNCHANGED <<metricsVars, retentionVars, job, transactions>>

\* Defect: a deferred inspection counts as one.
CheckDefersObserved ==
    /\ checker.at = "holding"
    /\ checker' = [checker EXCEPT !.at = "idle", !.observed = checker.current]
    /\ UNCHANGED <<metricsVars, retentionVars, job, transactions, wal>>

\* The inspection meets a busy log, or fails.
CheckDefers ==
    /\ checker.at = "holding"
    /\ checker' = [checker EXCEPT !.at = "idle"]
    /\ UNCHANGED <<metricsVars, retentionVars, job, transactions, wal>>

\* The permit is dropped and the count that was loaded is stored.
CheckObserves ==
    /\ checker.at = "inspected"
    /\ checker' = [checker EXCEPT !.at = "idle", !.observed = checker.current]
    /\ UNCHANGED <<metricsVars, retentionVars, job, transactions, wal>>

\* The tick is dropped: the permit is free at once, the worker still has its call.
DropCheck ==
    /\ checker.at \in {"holding", "inspected"}
    /\ checker' = [checker EXCEPT !.at = IF @ = "holding" THEN "orphan" ELSE "idle"]
    /\ UNCHANGED <<metricsVars, retentionVars, job, transactions, wal>>

-----------------------------------------------------------------------------
(* Requests as the coordinator writes them, and retention.                 *)

\* A transaction of the request path, whole: publication or a further attempt
\* inserts a reservation, finalization ends the request.
RequestWrites(r) ==
    /\ PermitIsFree /\ checker.at # "orphan"
    /\ transactions < MaxTransactions
    /\ transactions' = transactions + 1
    /\ Appends
    /\ \/ /\ rows[r].status \in {"none", "pending"}
          /\ reserved[r] < MaxReservations
          /\ reserved' = [reserved EXCEPT ![r] = @ + 1]
          /\ rows' = [rows EXCEPT ![r].status = "pending"]
       \/ /\ rows[r].status = "pending"
          /\ rows' = [rows EXCEPT ![r].status = "done"]
          /\ UNCHANGED reserved
    /\ UNCHANGED <<metricsVars, cleanup, checker, job>>

\* started_at passes the retention period, of a pending request too.
Ages(r) ==
    /\ rows[r].status \in {"pending", "done"}
    /\ ~rows[r].old
    /\ rows' = [rows EXCEPT ![r].old = TRUE]
    /\ UNCHANGED <<metricsVars, reserved, cleanup, checker, job, transactions, wal>>

\* The loop of cleanup_retention is entered, or goes round, within its budget.
CleanupBatch ==
    /\ cleanup.at = "idle"
    /\ cleanup.batches < batch_limit
    /\ Submit("cleanup", NoEvents)
    /\ cleanup' = [cleanup EXCEPT !.at = "worker"]
    /\ UNCHANGED <<metricsVars, rows, reserved, checker, wal>>

Expired(r) == rows[r].status = "done" /\ rows[r].old

\* delete_old on reservations: at most row_limit rows of expired requests.
ReservationsLeft ==
    LET owed == MapThenSumSet(LAMBDA r : IF Expired(r) THEN reserved[r] ELSE 0, RequestRows)
    IN  {left \in [RequestRows -> 0..MaxReservations] :
            /\ \A r \in RequestRows : IF Expired(r) THEN left[r] <= reserved[r]
                                                    ELSE left[r] = reserved[r]
            /\ MapThenSumSet(LAMBDA r : reserved[r] - left[r], RequestRows)
                 = Min({row_limit, owed})}

\* The requests the same batch may delete after that.
ExpiredRows(left) == {r \in RequestRows : Expired(r) /\ left[r] = 0}

\* The batch's transaction: reservations first, then requests; a request that
\* is still referenced fails the foreign key and with it the batch.
WorkerCleans(left, gone) ==
    /\ job.kind = "cleanup"
    /\ checker.at # "orphan"
    /\ gone \subseteq ExpiredRows(left)
    /\ Cardinality(gone) = Min({row_limit, Cardinality(ExpiredRows(left))})
    /\ JobEnds
    /\ LET conflict == \E r \in gone : left[r] > 0
           changed == left # reserved \/ gone # {}
       IN  /\ rows' = IF conflict THEN rows
                      ELSE [r \in RequestRows |->
                              IF r \in gone THEN [status |-> "none", old |-> FALSE] ELSE rows[r]]
           /\ reserved' = IF conflict THEN reserved ELSE left
           /\ wal' = IF changed /\ ~conflict THEN [wal EXCEPT !.frames = @ + 1] ELSE wal
           /\ cleanup' = IF conflict THEN [cleanup EXCEPT !.at = "conflict"]
                         ELSE IF ~job.awaited THEN cleanup
                         ELSE [cleanup EXCEPT !.at = IF changed THEN "idle" ELSE "done",
                                              !.batches = @ + 1]
    /\ UNCHANGED <<metricsVars, checker, transactions>>

\* The tick ends: nothing changed, its budget is spent or it is dropped; the
\* next tick starts afresh.
CleanupEnds ==
    /\ cleanup.at # "conflict"
    /\ cleanup # [at |-> "idle", batches |-> 0]
    /\ job' = IF cleanup.at = "worker" THEN [job EXCEPT !.awaited = FALSE] ELSE job
    /\ cleanup' = [at |-> "idle", batches |-> 0]
    /\ UNCHANGED <<metricsVars, rows, reserved, checker, transactions, wal>>

MaintenanceNext ==
    \/ \E k \in MetricKeys : RecordUsage(k)
    \/ TakeBatch \/ SubmitBatch \/ FlushFails \/ WorkerStores \/ FlushCounts
    \/ flush.at = "failed" /\ \E kept \in Kept : Rebuffer(kept)
    \/ DropFlush
    \/ CheckStarts \/ CheckDefers \/ CheckObserves \/ DropCheck
    \/ \E left \in 0..wal.frames : WorkerInspects(left)
    \/ \E r \in RequestRows : RequestWrites(r) \/ Ages(r)
    \/ CleanupBatch \/ CleanupEnds
    \/ job.kind = "cleanup" /\
         \E left \in ReservationsLeft, gone \in SUBSET RequestRows : WorkerCleans(left, gone)

MaintenanceSpec == MaintenanceInit /\ [][MaintenanceNext]_maintenanceVars

-----------------------------------------------------------------------------
(* Properties.                                                             *)

\* No usage event is counted twice and none disappears without a count, over
\* full buffers, failed and retried flushes: what was offered to the coalescer
\* is in usage_rollups, in the buffer, in the batch of a flush, in
\* total_dropped, or went with a flush dropped at the gate or an unheard job.
EventsAreCounted ==
    LET flying == IF flush.at \in {"gate", "failed"} THEN EventsIn(flush.batch) ELSE 0
        working == IF job.kind = "flush" THEN EventsIn(job.batch) ELSE 0
    IN  totals.offered =
          EventsIn(rollups) + EventsIn(buffer) + flying + working + totals.dropped + lost

\* Retention never meets a foreign key: a request whose reservations did not
\* fit in the batch waits for a later one, so that no tick fails and wedges
\* every later one (cleanup_retention).
RetentionNeverWedges == cleanup.at # "conflict"

\* When a checkpoint tick finds nothing due, every frame in the log was there
\* at the last inspection and that one left it: no commit is overlooked
\* because it raced the tick, a deferred inspection or a dropped tick.
NoCommitIsOverlooked ==
    transactions = checker.observed /\ PermitIsFree => wal.frames <= wal.left

=============================================================================
