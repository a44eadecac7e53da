--------------------------- MODULE TaskSupervisor ----------------------------
(***************************************************************************)
(* The recurring task supervisor (rust/src/task_supervisor.rs): the map of *)
(* named tasks, the loop of each task, a prepared diff being committed or  *)
(* undone, and the shutdown that takes the map and joins what it finds.    *)
(*                                                                         *)
(* The process runs on one current_thread runtime, so an action is the     *)
(* code between two awaits.  A TaskState is an element of Tasks; one that  *)
(* has ended and that nobody refers to is used again.  A task's schedule   *)
(* is an element of Schedules, and what a callback does is left out.       *)
(***************************************************************************)
EXTENDS Naturals, FiniteSetsExt, Functions

CONSTANTS
    Names,       \* task names, numbers in the order of the inventory's map
    Schedules,   \* the schedules a name may have
    Off,         \* a disabled row of the inventory
    Leased,      \* the names with TaskOwnership::ActiveGenerationLeased
    Tasks,       \* bound: TaskStates alive at a time
    NoTask

ASSUME TaskAssumption ==
    /\ Names \subseteq Nat
    /\ Names \subseteq Tasks
    /\ Leased \subseteq Names
    /\ Off \notin Schedules
    /\ NoTask \notin Tasks

VARIABLES
    taskMap,       \* SupervisorInner.tasks
    task,          \* the TaskStates
    shuttingDown,  \* SupervisorInner.shutting_down
    diff,          \* the PreparedTaskDiff being committed
    joining        \* the map shutdown_with_timeout took, as far as it is not joined

supervisorVars == <<taskMap, task, shuttingDown, diff, joining>>

-----------------------------------------------------------------------------
SpecSets == [Names -> Schedules \cup {Off}]

\* Where run_task is.  "acquire" awaits a generation lease, "tick" awaits the
\* callback, "sleep" the next tick.
LoopStates == {"spawned", "sleep", "acquire", "tick", "done"}

Absent == [name |-> 0, schedule |-> Off, cancelled |-> FALSE, permit |-> FALSE,
           loop |-> "done"]

Live(i) == task[i].loop # "done"

\* RuntimeTaskSupervisor::active_specs
active_specs ==
    [n \in Names |-> IF taskMap[n] = NoTask THEN Off ELSE task[taskMap[n]].schedule]

\* TaskSpecDiff::compute, for rows that are enabled when they have a schedule.
added(current, candidate) ==
    {n \in Names : current[n] = Off /\ candidate[n] # Off}
removed(current, candidate) ==
    {n \in Names : current[n] # Off /\ candidate[n] = Off}
rescheduled(current, candidate) ==
    {n \in Names : /\ current[n] # Off
                   /\ candidate[n] # Off
                   /\ current[n] # candidate[n]}

\* A diff with nothing left to do.
NoDiff == [stops |-> {}, starts |-> {}, candidate |-> [n \in Names |-> Off],
           previous |-> [n \in Names |-> Off], waits |-> NoTask]

\* prepare_diff: the names whose task is to be stopped, the names to start one
\* for, and both inventories.
prepare_diff(current, candidate) ==
    [stops |-> removed(current, candidate) \cup rescheduled(current, candidate),
     starts |-> rescheduled(current, candidate) \cup added(current, candidate),
     candidate |-> candidate,
     previous |-> current,
     waits |-> NoTask]

\* install_initial_tasks: every enabled row has been started.
SupervisorInit(specs) ==
    /\ taskMap = [n \in Names |-> IF specs[n] = Off THEN NoTask ELSE n]
    /\ task = [i \in Tasks |->
                 IF i \in Names /\ specs[i] # Off
                   THEN [Absent EXCEPT !.name = i, !.schedule = specs[i],
                                       !.loop = "spawned"]
                   ELSE Absent]
    /\ shuttingDown = FALSE
    /\ diff = NoDiff
    /\ joining = [n \in Names |-> NoTask]

-----------------------------------------------------------------------------
(* cancel_task, TaskState::new and start.                                  *)

\* Defect: the notification is not kept for a loop that is not asleep.
cancel_lossy(t) == [t EXCEPT !.cancelled = TRUE, !.permit = (t.loop = "sleep")]

\* cancel_task: the flag, and a notify_one that leaves a permit.
cancel_task(t) == [t EXCEPT !.cancelled = TRUE, !.permit = TRUE]

\* Tasks that have ended and are in nobody's hands.
Free == {i \in Tasks : /\ ~Live(i)
                       /\ \A n \in Names : taskMap[n] # i
                       /\ diff.waits # i
                       /\ \A n \in Names : joining[n] # i}

\* The TaskStates allocated for the names in N.
Fresh(N) == CHOOSE f \in Injection(N, Free) : TRUE

\* insert_and_start, the map's side and the tasks' side.  It never finds a task
\* under its name: the diff was computed from the map, which only its owner fills.
Inserted(N) == [n \in Names |-> IF n \in N THEN Fresh(N)[n] ELSE taskMap[n]]
Started(N, specs) ==
    [i \in Tasks |->
       IF \E n \in N : Fresh(N)[n] = i
         THEN LET n == CHOOSE k \in N : Fresh(N)[k] = i
              IN [Absent EXCEPT !.name = n, !.schedule = specs[n],
                                !.loop = "spawned"]
         ELSE task[i]]

-----------------------------------------------------------------------------
(* run_task                                                                *)

\* The loop's future completed or was aborted; only the map still reads the
\* spec of a task that ended.
Ended(i) ==
    IF \E n \in Names : taskMap[n] = i
      THEN [task[i] EXCEPT !.loop = "done", !.permit = FALSE] ELSE Absent

\* The head of the loop: the cancelled flag, then the tick.
Head_of_loop(i) ==
    IF task[i].cancelled THEN Ended(i)
    ELSE [task[i] EXCEPT !.loop =
            IF task[i].name \in Leased THEN "acquire" ELSE "tick"]

\* wait_or_cancel up to its select: the flag ends the loop.
Enter_wait(i) ==
    IF task[i].cancelled THEN Ended(i) ELSE [task[i] EXCEPT !.loop = "sleep"]

Set(i, t) ==
    /\ task' = [task EXCEPT ![i] = t]
    /\ UNCHANGED <<taskMap, shuttingDown, diff, joining>>

\* The first poll of run_task: a delay, or an immediate first tick.
LoopBegins(i) ==
    /\ task[i].loop = "spawned"
    /\ Set(i, Enter_wait(i)) \/ Set(i, Head_of_loop(i))

SleepElapses(i) == task[i].loop = "sleep" /\ Set(i, Head_of_loop(i))

\* A notification ends every wait of the loop: the sleep, the lease, the tick.
CancelObserved(i) ==
    /\ task[i].loop \in {"sleep", "acquire", "tick"}
    /\ task[i].permit
    /\ Set(i, Ended(i))

\* manager.acquire() returned a lease, or ShuttingDown.
AcquireReturns(i, open, shutdown) ==
    /\ task[i].loop = "acquire"
    /\ \/ shutdown /\ Set(i, Ended(i))
       \/ ~shutdown /\ open /\ Set(i, [task[i] EXCEPT !.loop = "tick"])

\* The callback returned, failed or panicked: record, then the next delay.
TickEnds(i) == task[i].loop = "tick" /\ Set(i, Enter_wait(i))

-----------------------------------------------------------------------------
(* PreparedTaskDiff::commit.  A segment runs up to the next stop_task that *)
(* has a loop to wait for; names without a task in the map are passed over. *)

\* The names to stop that still have a task in the map.
Remaining(d) == {n \in d.stops : taskMap[n] # NoTask}

\* The removed names come before the rescheduled ones, each in the map's order.
Precedes(d, m, n) ==
    \/ m \notin d.starts /\ n \in d.starts
    \/ (m \in d.starts <=> n \in d.starts) /\ m < n

\* The next task to stop.
Upcoming(d) ==
    LET gone == Remaining(d) \ d.starts
    IN IF gone # {} THEN Min(gone) ELSE Min(Remaining(d))

\* Names whose old task is gone when the commit comes to n.
Passed(d, n) == {m \in d.stops : Precedes(d, m, n)}

\* The last segment of commit: nothing to wait for any more.
CompleteDiff(d) ==
    /\ Remaining(d) = {}
    /\ ExistsInjection(d.starts, Free)
    /\ taskMap' = Inserted(d.starts)
    /\ task' = Started(d.starts, d.candidate)
    /\ diff' = [d EXCEPT !.stops = {}, !.starts = {}, !.waits = NoTask]

\* commit up to the stop_task of the next task; that task's name stays among
\* the stops until the stop returns.
AdvanceDiff(d) ==
    LET n == Upcoming(d)
        i == taskMap[n]
        N == d.starts \cap Passed(d, n)
    IN /\ Remaining(d) # {}
       /\ ExistsInjection(N, Free)
       /\ taskMap' = [Inserted(N) EXCEPT ![n] = NoTask]
       /\ task' = [Started(N, d.candidate) EXCEPT
                     ![i] = IF Live(i) THEN cancel_task(@) ELSE Absent]
       /\ diff' = [d EXCEPT !.stops = @ \ Passed(d, n), !.starts = @ \ N,
                            !.waits = i]

\* commit up to its next await or its end.
Segment(d) == CompleteDiff(d) \/ AdvanceDiff(d)

\* stop_task's join returned because the loop ended.
StopReturns == diff.waits # NoTask /\ ~Live(diff.waits)

\* The join timed out: the loop is aborted.
StopTimesOut ==
    /\ diff.waits # NoTask
    /\ Live(diff.waits)
    /\ Set(diff.waits, Ended(diff.waits))

-----------------------------------------------------------------------------
(* Shutdown.                                                               *)

InMap == {taskMap[n] : n \in Names} \ {NoTask}

\* begin_shutdown cancels every task of the map.
CancelAll ==
    [i \in Tasks |-> IF i \in InMap /\ Live(i) THEN cancel_task(task[i]) ELSE task[i]]

begin_shutdown ==
    /\ shuttingDown' = TRUE
    /\ task' = CancelAll
    /\ UNCHANGED <<taskMap, diff, joining>>

\* shutdown_with_timeout up to its first join: the map is taken.
TakeTasks ==
    /\ shuttingDown' = TRUE
    /\ task' = [i \in Tasks |->
                  IF i \in InMap /\ ~Live(i) THEN Absent ELSE CancelAll[i]]
    /\ joining' = taskMap
    /\ taskMap' = [n \in Names |-> NoTask]
    /\ UNCHANGED diff

\* The next task to join, in the order of the map's names.
Joined == Min({n \in Names : joining[n] # NoTask})

AllJoined == \A n \in Names : joining[n] = NoTask

\* The next task has been joined, in time or after an abort.
JoinReturns ==
    /\ ~AllJoined
    /\ ~Live(joining[Joined])
    /\ joining' = [joining EXCEPT ![Joined] = NoTask]
    /\ UNCHANGED <<taskMap, task, shuttingDown, diff>>

JoinTimesOut ==
    /\ ~AllJoined
    /\ Live(joining[Joined])
    /\ Set(joining[Joined], Ended(joining[Joined]))
=============================================================================
