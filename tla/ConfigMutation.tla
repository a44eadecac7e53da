--------------------------- MODULE ConfigMutation ---------------------------
(* The operator's configuration commands (set, connect, logout, key rotation,
   dashboard visibility, rehash): edit the file by an atomic replace, then have
   the running server take the edit, by a reload over the control socket or by
   a restart.  The mutation lock is in-process, so two commands interleave, and
   each may be killed between any two of its steps; the file then stays ahead
   of the server until a later command meets the difference.

   A configuration is the value of a field the server can reload live and of a
   field only a restart applies (config_reload_policy's two dispositions). *)
EXTENDS Naturals

CONSTANTS
    Commands,     \* operator command invocations
    NoConfig,     \* nothing read, or nothing running
    Values        \* values of a field

VARIABLES
    file,      \* the configuration file, always replaced whole
    command,   \* each invocation: where it is, mode, what it read, its transition
    server     \* the server: up or down, the configuration it runs, an exit requested

mutationVars == <<file, command, server>>

Configs == [live : Values, fixed : Values]
ConfigFields == {"live", "fixed"}
NewCommand == [at |-> "new", mode |-> "live", next |-> NoConfig, restart |-> FALSE,
               digest |-> NoConfig, outcome |-> "none"]

\* classify_transition: a transition with any restart-only difference is one.
HasRestartRequired(old, new) == old.fixed # new.fixed

MutationInit ==
    /\ file \in Configs
    /\ command = [c \in Commands |-> NewCommand]
    /\ server = [up |-> TRUE, running |-> file, stopping |-> FALSE]

Ends(c, outcome) == command' = [command EXCEPT ![c].at = "done", ![c].outcome = outcome]

\* mutate_text_with_transition: read the file, edit one field, validate, classify
\* against the content just read.  No difference is no mutation.
ReadAndEdit(c) ==
    /\ command[c].at = "new"
    /\ \E field \in ConfigFields, value \in Values, mode \in {"live", "restart"} :
           LET next == [file EXCEPT ![field] = value] IN
           IF next = file
           THEN Ends(c, "RehashNoop")
           ELSE command' = [command EXCEPT ![c] =
                    [@ EXCEPT !.at = "edited", !.mode = mode, !.next = next,
                              !.restart = HasRestartRequired(file, next)]]
    /\ UNCHANGED <<file, server>>

\* The rehash command edits nothing: it validates the file and asks for a reload.
Rehash(c) ==
    /\ command[c].at = "new"
    /\ command' = [command EXCEPT ![c].at = "digest"]
    /\ UNCHANGED <<file, server>>

\* atomic_replace: the temporary file is synced and renamed over the old one ...
Replace(c) ==
    /\ command[c].at = "edited"
    /\ file' = command[c].next
    /\ command' = [command EXCEPT ![c].at = "written"]
    /\ UNCHANGED server

\* ... or a step of it fails, and the temporary file is removed.
ReplaceFails(c) ==
    /\ command[c].at = "edited"
    /\ Ends(c, "WriteError")
    /\ UNCHANGED <<file, server>>

\* apply_after_mutation: restart, report, or go on to a live reload.
ChooseApply(c) ==
    /\ command[c].at = "written"
    /\ \/ command[c].mode = "restart" /\ command' = [command EXCEPT ![c].at = "restart"]
       \/ command[c].mode = "live" /\ command[c].restart /\ Ends(c, "RestartRequired")
       \/ /\ command[c].mode = "live" /\ ~command[c].restart
          /\ command' = [command EXCEPT ![c].at = "digest"]
    /\ UNCHANGED <<file, server>>

\* content_digest reads the file once more; the request goes to the socket.
SendReload(c) ==
    /\ command[c].at = "digest"
    /\ command' = [command EXCEPT ![c].at = "sent", ![c].digest = file]
    /\ UNCHANGED <<file, server>>

\* Defect: the server takes the operator's word that the change is live.
ServerReloadsUnclassified(c) ==
    /\ command[c].at = "sent" /\ server.up
    /\ IF file # command[c].digest
       THEN Ends(c, "RehashFailed") /\ UNCHANGED server
       ELSE Ends(c, "RehashApplied") /\ server' = [server EXCEPT !.running = file]
    /\ UNCHANGED file

\* reload_owned_transaction: the digest must match, and the difference to the
\* configuration that is running decides, not the operator's transition.
ServerReloads(c) ==
    /\ command[c].at = "sent" /\ server.up
    /\ \/ /\ file # command[c].digest
          /\ Ends(c, "RehashFailed") /\ UNCHANGED server
       \/ /\ file = command[c].digest /\ file = server.running
          /\ Ends(c, "RehashApplied") /\ UNCHANGED server
       \/ /\ file = command[c].digest /\ HasRestartRequired(server.running, file)
          /\ Ends(c, "RestartRequired") /\ UNCHANGED server
       \/ /\ file = command[c].digest /\ file # server.running
          /\ ~HasRestartRequired(server.running, file)
          /\ Ends(c, "RehashApplied") /\ server' = [server EXCEPT !.running = file]
    /\ UNCHANGED file

\* The answer is lost or late, or there is no server: the health probe decides.
ControlFails(c) ==
    /\ command[c].at = "sent"
    /\ Ends(c, IF server.up THEN "ControlUnavailable" ELSE "ServerNotRunning")
    /\ UNCHANGED <<file, server>>

\* restart_for_mutation: a server that is not running stays stopped; a running
\* one is told to terminate, once it has proved to be the server.
AskExit(c) ==
    /\ command[c].at = "restart"
    /\ IF server.up
       THEN /\ server' = [server EXCEPT !.stopping = TRUE]
            /\ command' = [command EXCEPT ![c].at = "exiting"]
       ELSE Ends(c, "ServerNotRunning") /\ UNCHANGED server
    /\ UNCHANGED file

\* wait_for_exit_or_pid_clear gives up: no replacement is started.
ExitTimesOut(c) ==
    /\ command[c].at = "exiting"
    /\ Ends(c, "RestartError")
    /\ UNCHANGED <<file, server>>

\* The old server is gone and the listener free: spawn_detached starts another,
\* which reads the file as it is now.
SpawnReplacement(c) ==
    /\ command[c].at = "exiting" /\ ~server.up
    /\ server' = [up |-> TRUE, running |-> file, stopping |-> FALSE]
    /\ Ends(c, "Restarted")
    /\ UNCHANGED file

\* ensure_listener_is_free: another command has started one already.
ListenerTaken(c) ==
    /\ command[c].at = "exiting" /\ server.up /\ ~server.stopping
    /\ Ends(c, "RestartError")
    /\ UNCHANGED <<file, server>>

\* The signalled server exits.
ServerExits ==
    /\ server.up /\ server.stopping
    /\ server' = [up |-> FALSE, running |-> NoConfig, stopping |-> FALSE]
    /\ UNCHANGED <<file, command>>

\* The operator's process is killed: what it has done stays done.
KillCommand(c) ==
    /\ command[c].at \notin {"new", "done"}
    /\ Ends(c, "killed")
    /\ UNCHANGED <<file, server>>

MutationNext ==
    \/ \E c \in Commands :
           \/ ReadAndEdit(c) \/ Rehash(c) \/ Replace(c) \/ ReplaceFails(c) \/ ChooseApply(c)
           \/ SendReload(c) \/ ServerReloads(c) \/ ControlFails(c)
           \/ AskExit(c) \/ ExitTimesOut(c) \/ SpawnReplacement(c) \/ ListenerTaken(c)
           \/ KillCommand(c)
    \/ ServerExits

MutationSpec == MutationInit /\ [][MutationNext]_mutationVars

(* Properties *)

\* However many commands were killed or refused and left the file ahead of the
\* server, a running server never changes a restart-only field, not even with
\* a later live change: such a transition is restart-required as a whole.
RestartOnlyFieldsWait ==
    [][server.up /\ server'.up => server'.running.fixed = server.running.fixed]_mutationVars
=============================================================================
