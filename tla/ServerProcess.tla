---------------------------- MODULE ServerProcess ---------------------------
(***************************************************************************)
(* The server process from `eggpool serve` to its exit (server/mod.rs,     *)
(* operations/control.rs, operations/process.rs), and the stop and restart *)
(* commands that find it through its PID file, its listener and its        *)
(* control socket (operations/lifecycle.rs).                               *)
(*                                                                         *)
(* Processes run at the same time: every look at the PID file, the         *)
(* listener or the socket path is a step, and what it saw may be gone at   *)
(* the next one.  A step of the start may fail, and a process may be       *)
(* killed anywhere.  What requests do is left to the coordinators: here a  *)
(* request is a handler that may leave one body task behind.               *)
(***************************************************************************)
EXTENDS Naturals, FiniteSets

CONSTANTS
    Servers,      \* process ids, each started at most once
    NoServer,
    MaxBodies,    \* bound: handlers and body tasks of a server at a time
    MaxSignals    \* bound: kills, and signals from other sources than the commands

\* No process has the id that stands for none.
ASSUME ServerAssumption == NoServer \notin Servers

VARIABLES
    server,       \* each process: how far it is, and what it holds
    pidFile,      \* the process id in the PID file
    port,         \* the process whose listener is bound
    socketPath,   \* the process whose socket the control path names
    bodies,       \* ServerRuntimeInner::body_tasks of each process
    operator,     \* a stop or restart command
    signals

serverVars == <<server, pidFile, port, socketPath, bodies, operator, signals>>

\* What a process holds besides the paths above.
NoProcess == [at |-> "none", database |-> FALSE, listening |-> FALSE, handlers |-> 0,
              forced |-> FALSE]
NoOperator == [at |-> "idle"]

ServerInit ==
    /\ server = [s \in Servers |-> NoProcess]
    /\ pidFile = NoServer
    /\ port = NoServer
    /\ socketPath = NoServer
    /\ bodies = [s \in Servers |-> 0]
    /\ operator = NoOperator
    /\ signals = 0

ProcessEnded(s) == server[s].at \in {"exited", "killed"}

process_exists(s) == s # NoServer /\ server[s].at # "none" /\ ~ProcessEnded(s)

\* probe_health: the listener answers while its HTTP runtime serves.
probe_health == port # NoServer /\ server[port].at = "serving"

\* probe_control: a connection to the socket path is accepted.
probe_control == socketPath # NoServer /\ server[socketPath].listening

Step(s, from, to) ==
    /\ server[s].at = from
    /\ server' = [server EXCEPT ![s].at = to]

\* The process ends by itself and the system releases what is bound to it.
Leaves(s) ==
    /\ server' = [server EXCEPT ![s] = [NoProcess EXCEPT !.at = "exited"]]
    /\ port' = IF port = s THEN NoServer ELSE port
    /\ bodies' = [bodies EXCEPT ![s] = 0]

-----------------------------------------------------------------------------
(* The start: run_with_digest. *)

StartServer(s) ==
    /\ Step(s, "none", "started")
    /\ UNCHANGED <<pidFile, port, socketPath, bodies, operator, signals>>

\* ensure_start_state, the PID file: a live process refuses, a dead one is cleared.
CheckPidFile(s) ==
    /\ server[s].at = "started"
    /\ IF process_exists(pidFile)
         THEN Leaves(s) /\ UNCHANGED pidFile
         ELSE /\ Step(s, "started", "pid_checked")
              /\ pidFile' = NoServer
              /\ UNCHANGED <<port, bodies>>
    /\ UNCHANGED <<socketPath, operator, signals>>

\* ensure_start_state, the probes.
ProbeOthers(s) ==
    /\ server[s].at = "pid_checked"
    /\ IF probe_health \/ probe_control
         THEN Leaves(s)
         ELSE Step(s, "pid_checked", "checked") /\ UNCHANGED <<port, bodies>>
    /\ UNCHANGED <<pidFile, socketPath, operator, signals>>

BindListener(s) ==
    /\ server[s].at = "checked"
    /\ IF port = NoServer
         THEN Step(s, "checked", "bound") /\ port' = s /\ UNCHANGED bodies
         ELSE Leaves(s)
    /\ UNCHANGED <<pidFile, socketPath, operator, signals>>

OpenDatabase(s) ==
    /\ server[s].at = "bound"
    /\ server' = [server EXCEPT ![s].at = "opened", ![s].database = TRUE]
    /\ UNCHANGED <<pidFile, port, socketPath, bodies, operator, signals>>

\* Migrations, access state, account rows and startup recovery.
RecoverState(s) ==
    /\ Step(s, "opened", "recovered")
    /\ UNCHANGED <<pidFile, port, socketPath, bodies, operator, signals>>

\* The first generation is prepared, refreshed and transferred; its tasks start.
PublishGeneration(s) ==
    /\ Step(s, "recovered", "generation")
    /\ UNCHANGED <<pidFile, port, socketPath, bodies, operator, signals>>

\* clean_stale_socket: a socket that accepts is in use; one that refuses is
\* removed when the path still names it.
ObserveSocket(s) ==
    /\ server[s].at = "generation"
    /\ IF probe_control
         THEN Leaves(s) /\ UNCHANGED socketPath
         ELSE /\ Step(s, "generation", "socket_observed")
              /\ socketPath' = NoServer
              /\ UNCHANGED <<port, bodies>>
    /\ UNCHANGED <<pidFile, operator, signals>>

\* UnixListener::bind fails when the path names something.
BindSocket(s) ==
    /\ server[s].at = "socket_observed"
    /\ IF socketPath = NoServer
         THEN /\ server' = [server EXCEPT ![s].at = "control", ![s].listening = TRUE]
              /\ socketPath' = s
              /\ UNCHANGED <<port, bodies>>
         ELSE Leaves(s) /\ UNCHANGED socketPath
    /\ UNCHANGED <<pidFile, operator, signals>>

WritePid(s) ==
    /\ Step(s, "control", "published")
    /\ pidFile' = s
    /\ UNCHANGED <<port, socketPath, bodies, operator, signals>>

ServeListener(s) ==
    /\ Step(s, "published", "serving")
    /\ UNCHANGED <<pidFile, port, socketPath, bodies, operator, signals>>

\* A step of the start fails: what the process opened so far is closed, the
\* control socket included.
FailStart(s) ==
    /\ server[s].at \in {"bound", "opened", "recovered", "generation", "socket_observed",
                         "control"}
    /\ Leaves(s)
    /\ socketPath' = IF socketPath = s THEN NoServer ELSE socketPath
    /\ UNCHANGED <<pidFile, operator, signals>>

\* Defect: an HTTP runtime that does not start returns before the PID file is cleared.
FailServeKeepsPid(s) ==
    /\ server[s].at = "published"
    /\ Leaves(s)
    /\ socketPath' = IF socketPath = s THEN NoServer ELSE socketPath
    /\ UNCHANGED <<pidFile, operator, signals>>

\* The HTTP runtime does not start: serve_listener returns before any of the
\* shutdown, the PID file is cleared, and dropping the handle removes the socket.
FailServe(s) ==
    /\ server[s].at = "published"
    /\ Leaves(s)
    /\ socketPath' = IF socketPath = s THEN NoServer ELSE socketPath
    /\ pidFile' = IF pidFile = s THEN NoServer ELSE pidFile
    /\ UNCHANGED <<operator, signals>>

-----------------------------------------------------------------------------
(* Requests, and the shutdown: serve_listener and                          *)
(* close_runtime_resources_until.                                          *)

BeginRequest(s) ==
    /\ server[s].at = "serving"
    /\ server[s].handlers + bodies[s] < MaxBodies
    /\ server' = [server EXCEPT ![s].handlers = @ + 1]
    /\ UNCHANGED <<pidFile, port, socketPath, bodies, operator, signals>>

\* A handler returns; a streamed response goes on in a body task.
EndHandler(s, streamed) ==
    /\ server[s].handlers > 0
    /\ server' = [server EXCEPT ![s].handlers = @ - 1]
    /\ bodies' = [bodies EXCEPT ![s] = IF streamed THEN @ + 1 ELSE @]
    /\ UNCHANGED <<pidFile, port, socketPath, operator, signals>>

EndBody(s) ==
    /\ bodies[s] > 0
    /\ bodies' = [bodies EXCEPT ![s] = @ - 1]
    /\ UNCHANGED <<server, pidFile, port, socketPath, operator, signals>>

\* request_shutdown: on a signal, or when the HTTP runtime ends by itself.
RequestShutdown(s) ==
    /\ Step(s, "serving", "quiescing")
    /\ signals < MaxSignals /\ signals' = signals + 1
    /\ UNCHANGED <<pidFile, port, socketPath, bodies, operator>>

\* The HTTP runtime stops: its grace period ends the handlers that remain.
StopHttp(s) ==
    /\ server[s].at = "quiescing"
    /\ server' = [server EXCEPT ![s].at = "http_stopped", ![s].handlers = 0]
    /\ port' = NoServer
    /\ UNCHANGED <<pidFile, socketPath, bodies, operator, signals>>

\* ControlServerHandle::close joins the accept loop, which owns the listener ...
StopControl(s) ==
    /\ server[s].at = "http_stopped"
    /\ server' = [server EXCEPT ![s].at = "control_stopped", ![s].listening = FALSE]
    /\ UNCHANGED <<pidFile, port, socketPath, bodies, operator, signals>>

\* ... and remove_socket takes the path away while it names this socket.
RemoveSocket(s) ==
    /\ Step(s, "control_stopped", "draining")
    /\ socketPath' = IF socketPath = s THEN NoServer ELSE socketPath
    /\ UNCHANGED <<pidFile, port, bodies, operator, signals>>

\* Background tasks are joined, or the deadline passes.
JoinTasks(s, timed_out) ==
    /\ server[s].at = "draining"
    /\ server' = [server EXCEPT ![s].at = "tasks_joined", ![s].forced = timed_out]
    /\ UNCHANGED <<pidFile, port, socketPath, bodies, operator, signals>>

\* wait_empty until the deadline; what is left then is aborted.
WaitBodies(s, timed_out) ==
    /\ server[s].at = "tasks_joined"
    /\ ~timed_out => bodies[s] = 0
    /\ server' = [server EXCEPT ![s].at = "closing", ![s].forced = @ \/ timed_out]
    /\ bodies' = IF server'[s].forced THEN [bodies EXCEPT ![s] = 0] ELSE bodies
    /\ UNCHANGED <<pidFile, port, socketPath, operator, signals>>

\* close_for_shutdown, and the database after it.
CloseDatabase(s) ==
    /\ server[s].at = "closing"
    /\ server' = [server EXCEPT ![s].at = "closed", ![s].database = FALSE]
    /\ UNCHANGED <<pidFile, port, socketPath, bodies, operator, signals>>

\* clear_pid_if_matches, whatever serve_listener returned, and the process ends.
ClearPidAndExit(s) ==
    /\ server[s].at = "closed"
    /\ Leaves(s)
    /\ pidFile' = IF pidFile = s THEN NoServer ELSE pidFile
    /\ UNCHANGED <<socketPath, operator, signals>>

\* SIGKILL, a crash, or a signal before its handler is installed.
KillServer(s) ==
    /\ process_exists(s)
    /\ signals < MaxSignals /\ signals' = signals + 1
    /\ server' = [server EXCEPT ![s] = [NoProcess EXCEPT !.at = "killed"]]
    /\ port' = IF port = s THEN NoServer ELSE port
    /\ bodies' = [bodies EXCEPT ![s] = 0]
    /\ UNCHANGED <<pidFile, socketPath, operator>>

-----------------------------------------------------------------------------
(* The stop and restart commands. *)

\* read_pid, and process_exists for what it names; a stale file is cleared.
ReadPidFile(restart) ==
    /\ operator = NoOperator
    /\ IF process_exists(pidFile)
         THEN /\ operator' = [at |-> "found", pid |-> pidFile, restart |-> restart]
              /\ UNCHANGED pidFile
         ELSE /\ operator' = IF restart THEN [at |-> "spawn"] ELSE [at |-> "done"]
              /\ pidFile' = NoServer
    /\ UNCHANGED <<server, port, socketPath, bodies, signals>>

\* identity_proof and signal_term: the PID file, and the listener or the socket.
ProveAndSignal ==
    /\ operator.at = "found"
    /\ LET s == operator.pid
           proves_eggpool == pidFile = s /\ (probe_health \/ probe_control)
       IN  IF proves_eggpool /\ process_exists(s)
             THEN /\ operator' = [operator EXCEPT !.at = "waiting"]
                  /\ server' = IF server[s].at = "serving"
                                 THEN [server EXCEPT ![s].at = "quiescing"]
                                 ELSE IF server[s].at = "published"
                                   THEN [server EXCEPT ![s] = [NoProcess EXCEPT !.at = "killed"]]
                                   ELSE server
                  /\ port' = IF server[s].at = "published" /\ port = s THEN NoServer ELSE port
             ELSE operator' = [at |-> "done"] /\ UNCHANGED <<server, port>>
    /\ UNCHANGED <<pidFile, socketPath, bodies, signals>>

\* wait_for_exit_or_pid_clear and clear_pid_if_matches, or the timeout.
WaitForExit(timed_out) ==
    /\ operator.at = "waiting"
    /\ LET s == operator.pid
       IN  /\ ~timed_out => (pidFile # s \/ ~process_exists(s))
           /\ operator' = IF operator.restart /\ ~timed_out THEN [at |-> "spawn"] ELSE [at |-> "done"]
           /\ pidFile' = IF pidFile = s /\ ~timed_out THEN NoServer ELSE pidFile
    /\ UNCHANGED <<server, port, socketPath, bodies, signals>>

\* ensure_listener_is_free, and spawn_detached.
SpawnReplacement(s) ==
    /\ operator.at = "spawn"
    /\ server[s].at = "none"
    /\ server' = IF probe_health THEN server ELSE [server EXCEPT ![s].at = "started"]
    /\ operator' = [at |-> "done"]
    /\ UNCHANGED <<pidFile, port, socketPath, bodies, signals>>

-----------------------------------------------------------------------------

ServerStarts(s) ==
    \/ StartServer(s) \/ CheckPidFile(s) \/ ProbeOthers(s) \/ BindListener(s)
    \/ OpenDatabase(s) \/ RecoverState(s) \/ PublishGeneration(s)
    \/ ObserveSocket(s) \/ BindSocket(s) \/ WritePid(s) \/ ServeListener(s)
    \/ FailStart(s) \/ FailServe(s)

ServerStops(s) ==
    \/ StopHttp(s) \/ StopControl(s) \/ RemoveSocket(s)
    \/ \E timed_out \in BOOLEAN : JoinTasks(s, timed_out) \/ WaitBodies(s, timed_out)
    \/ CloseDatabase(s) \/ ClearPidAndExit(s)

ServerNext ==
    \/ \E s \in Servers :
         \/ ServerStarts(s) \/ ServerStops(s)
         \/ BeginRequest(s) \/ EndBody(s)
         \/ \E streamed \in BOOLEAN : EndHandler(s, streamed)
         \/ RequestShutdown(s) \/ KillServer(s)
         \/ SpawnReplacement(s)
    \/ \E restart \in BOOLEAN : ReadPidFile(restart)
    \/ ProveAndSignal
    \/ \E timed_out \in BOOLEAN : WaitForExit(timed_out)

\* The process runs, and the waits of the shutdown have deadlines; nothing is
\* assumed about handlers and bodies, which may never end by themselves.
ServerFairness == \A s \in Servers : WF_serverVars(ServerStops(s))

ServerSpec == ServerInit /\ [][ServerNext]_serverVars

-----------------------------------------------------------------------------

\* A process that ends by itself, after a shutdown or because any step of its
\* start failed, leaves neither its PID file nor its control socket behind,
\* whatever other processes and commands do (run_with_digest,
\* ControlServerHandle::close and drop, clear_pid_if_matches).
ExitLeavesNothing ==
    \A s \in Servers : server[s].at = "exited" => pidFile # s /\ socketPath # s

\* A server that was asked to stop ends, even if a response body never does.
ServeReturns ==
    \A s \in Servers : (server[s].at = "quiescing") ~> ProcessEnded(s)

=============================================================================
