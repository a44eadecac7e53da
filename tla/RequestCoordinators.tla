------------------------- MODULE RequestCoordinators -------------------------
(***************************************************************************)
(* The two coordinators of a request (rust/src/coordinator/finite.rs,      *)
(* rust/src/coordinator/streaming/) and the attempt loop they share:       *)
(* select an account, try the next wire of its provider, classify a        *)
(* failure, clean the attempt up and go round again, until the request has *)
(* an execution whose finalization somebody must register.                 *)
(*                                                                         *)
(* What a failure means (rust/src/coordinator/failure.rs) comes first: an  *)
(* observation is classified into the effects on account, model, circuit   *)
(* and wire, and into the next step of the request.  An HTTP status is the *)
(* number itself, 0 standing for none; the provider's error text is        *)
(* already reduced to the signal that provider_error_signal extracts.      *)
(*                                                                         *)
(* A streaming request runs the loop up to the first byte and hands its    *)
(* StreamingExecution to the body task of finish_stream_execution: the     *)
(* pull loop of next_chunk with its terminal handlers, and the             *)
(* finalization that complete() or Drop registers.  A request with one     *)
(* finite answer, be it generation, remote compaction or embeddings,       *)
(* differs in the accounts and surfaces it can use and in what a bad       *)
(* answer does.                                                            *)
(*                                                                         *)
(* The provider, the client and the router answer nondeterministically.    *)
(* A step runs from one await to the next; the request's future, or the    *)
(* body task, can be dropped wherever it awaits.  What the registered      *)
(* commands then do to the durable rows is RequestAccounting.              *)
(***************************************************************************)
EXTENDS Naturals, FiniteSets, Sequences

CONSTANTS
    max_attempts,   \* RetryPolicy.max_attempts
    LedgerCapacity, \* EffectLedger.capacity
    Accounts,       \* the accounts the router can choose
    WireSurfaces,   \* the wire profiles of their provider
    NoAccount

ASSUME CoordinatorAssumption == max_attempts \in Nat \ {0} /\ NoAccount \notin Accounts

VARIABLES
    operation,    \* "Stream", or FiniteExecutionInput.operation; "None" before a request
    attempt,      \* attempt_number
    excluded,     \* excluded_accounts
    preferred,    \* preferred_account
    surfaces,     \* the surfaces resolved as candidates for this request
    tried,        \* attempted_wires
    sent,         \* the (account, wire) pairs submitted upstream, in order
    point,        \* where the request's future, or its body task, awaits
    effects,      \* the FailureEffects of the attempt that just failed
    ledger,       \* EffectLedger of the failure engine
    exec,         \* PendingStreamFinalizationParts
    clientGone,   \* the client closed its connection
    credited,     \* attempts the router recorded a success for
    penalised,    \* attempts whose failure effects were applied
    commands      \* the outcomes of the request commands registered

loopStateVars == <<operation, attempt, excluded, preferred, surfaces, tried, sent,
                   point, effects, ledger, exec, clientGone, credited, penalised,
                   commands>>

-----------------------------------------------------------------------------
(* The failure policy.                                                     *)

LocalSources == {"Client", "ClientValidation", "LocalPreparation", "Database",
                 "Cancellation"}

WireSignals == {"wire_auth_mismatch", "wire_surface_unsupported",
                "wire_schema_mismatch", "model_unsupported_on_surface"}
CredentialSignals == {"credential_invalid", "authentication_failed"}

\* An attempt that ran out of tries, or whose answer already reached the
\* client, is not repeated.
Retryable(o) == ~o.started /\ o.attempt < max_attempts

LocalFault(o) == o.source \in LocalSources \/ o.hint = "BadRequest"

OtherWire(o) == o.alternate /\ o.phase = "response_status"

\* wire_rejection is set from the signal by the coordinators' observation().
RejectsWire(o) == o.signal \in WireSignals /\ ~o.started

\* The arms of classify, in their order.
Verdict(o) ==
    IF LocalFault(o) THEN "local"
    ELSE IF RejectsWire(o) THEN "wire"
    ELSE IF o.source = "Transport" THEN "transport"
    ELSE IF o.signal \in CredentialSignals THEN "credential"
    ELSE IF o.signal \in WireSignals /\ OtherWire(o) THEN "wire"
    ELSE IF o.status \in {401, 404} /\ o.signal = "model_absent" THEN "model_absent"
    ELSE IF o.status = 401 THEN "unauthorized"
    ELSE IF \/ o.status = 402
            \/ o.status \in {403, 409, 422} /\ o.signal = "quota_exhausted" THEN "quota"
    ELSE IF o.status = 404 /\ OtherWire(o) THEN "wire"
    ELSE IF o.status = 408 THEN "timeout"
    ELSE IF \/ o.status \in {425, 429}
            \/ o.status \in {409, 422} /\ o.signal = "rate_limited" THEN "rate_limit"
    ELSE IF o.status \in 500 .. 599 THEN "server"
    ELSE "none"

\* account_effect, quarantine_model, circuit_penalty, reject_candidate and the
\* scope of the retry, arm by arm.
Consequence(verdict) ==
    [account |-> CASE verdict \in {"transport", "unauthorized", "timeout", "server"} -> "failure"
                   [] verdict = "credential" -> "disable_auth"
                   [] verdict = "quota" -> "quota"
                   [] verdict = "rate_limit" -> "rate_limit"
                   [] OTHER -> "none",
     quarantine |-> verdict \in {"model_absent", "timeout", "server"},
     circuit |-> verdict \in {"transport", "credential", "unauthorized", "timeout", "server"},
     reject |-> verdict = "wire",
     scope |-> CASE verdict \in {"local", "none"} -> "none"
                 [] verdict = "wire" -> "wire"
                 [] OTHER -> "account"]

\* classify: retry_scope and action only survive when the attempt is retryable.
Classify(o) ==
    LET c == Consequence(Verdict(o))
    IN  IF Retryable(o) THEN c ELSE [c EXCEPT !.scope = "none"]

\* try_apply_once: the ledger answers whether this attempt is new to it, and
\* forgets its oldest attempt when it is full.
FirstApplication(applied, id) == \A i \in DOMAIN applied : applied[i] # id

TryApplyOnce(applied, id) ==
    IF ~FirstApplication(applied, id) THEN applied
    ELSE Append(IF Len(applied) >= LedgerCapacity THEN Tail(applied) ELSE applied, id)

-----------------------------------------------------------------------------
(* The loop.                                                               *)

\* handoff, malformed_chunks > 0, forwarded_terminal, terminal_stored,
\* exhausted, data.outcome; native is a live stream, not a pending_terminal.
NoExec == [native |-> FALSE, passthrough |-> FALSE, started |-> FALSE,
           malformed |-> FALSE, forwarded |-> "none", stored |-> FALSE,
           exhausted |-> FALSE, bytes |-> FALSE, outcome |-> "none"]

NoEffects == Consequence("none")

LoopInit ==
    /\ attempt = 1
    /\ excluded = {}
    /\ preferred = NoAccount
    /\ tried = [a \in Accounts |-> {}]
    /\ sent = <<>>
    /\ point = "select"
    /\ effects = NoEffects
    /\ ledger = <<>>
    /\ exec = NoExec
    /\ clientGone = FALSE
    /\ credited = {}
    /\ penalised = {}
    /\ commands = <<>>

loopVars == <<operation, attempt, excluded, preferred, surfaces, tried, sent>>
healthVars == <<ledger, credited, penalised>>

Account == sent[Len(sent)][1]
Goto(p) == point' = p

\* pending_terminal: an execution without a stream, its data already decided.
PendingTerminal(outcome) ==
    /\ exec' = [NoExec EXCEPT !.outcome = outcome]
    /\ Goto("respond")

-----------------------------------------------------------------------------
(* The attempt loop, up to the first byte.                                 *)

\* select_and_claim(_for_account), the first candidate not yet attempted, and
\* publish_attributed; the request is then prepared and submitted.
SelectAndPublish(a, w) ==
    /\ point = "select"
    /\ a = preferred \/ (preferred = NoAccount /\ a \notin excluded)
    /\ w \in surfaces \ tried[a]
    /\ tried' = [tried EXCEPT ![a] = @ \union {w}]
    /\ sent' = Append(sent, <<a, w>>)
    /\ Goto("headers")
    /\ UNCHANGED <<operation, attempt, excluded, preferred, surfaces, effects, exec, clientGone,
                   healthVars, commands>>

\* No candidate left on the claimed account: the claim is rolled back and the
\* account left out.
NoCandidate(a) ==
    /\ point = "select"
    /\ a = preferred \/ (preferred = NoAccount /\ a \notin excluded)
    /\ surfaces \subseteq tried[a]
    /\ excluded' = excluded \union {a}
    /\ preferred' = NoAccount
    /\ UNCHANGED <<operation, attempt, surfaces, tried, sent, point, effects, exec, clientGone,
                   healthVars, commands>>

\* The router has no account for the request (any more).
NoClaim ==
    /\ point = "select"
    /\ IF sent = <<>> THEN Goto("refused") /\ UNCHANGED exec
                      ELSE PendingTerminal("UpstreamError")
    /\ UNCHANGED <<loopVars, effects, clientGone, healthVars, commands>>

\* An error while publishing or while waiting for the cleanup of a failed
\* attempt: the request ends without an execution.
InternalError ==
    /\ point \in {"headers", "cleanup"}
    /\ Goto("refused")
    /\ UNCHANGED <<loopVars, effects, exec, clientGone, healthVars, commands>>

Observation(source, status, signal, phase) ==
    [source |-> source, status |-> status, signal |-> signal, hint |-> "none",
     alternate |-> surfaces \ tried[Account] # {}, phase |-> phase,
     started |-> FALSE, attempt |-> attempt]

\* decide and apply_effects: the health of the account changes before the
\* first await of apply_failure_effects.
DecideAndApply(decided, outcome) ==
    /\ effects' = decided
    /\ exec' = [exec EXCEPT !.outcome = outcome]
    /\ ledger' = TryApplyOnce(ledger, Len(sent))
    /\ penalised' = IF FirstApplication(ledger, Len(sent))
                       /\ (decided.account # "none" \/ decided.quarantine)
                    THEN penalised \union {Len(sent)} ELSE penalised
    /\ UNCHANGED credited

\* A status that is not the upstream's fault and is not retried counts
\* against the client.
ErrorOutcome(status, signal) ==
    IF \/ status \in {408, 425, 429} \union 500 .. 599
       \/ Classify(Observation("ProviderResponse", status, signal,
                               "response_status")).scope # "none"
    THEN "UpstreamError" ELSE "ClientError"

\* apply_effects returned: should_retry sends the failed attempt to its
\* cleanup, anything else ends the request with its failure.
EffectsApplied ==
    /\ point = "effects"
    /\ Goto(IF effects.scope # "none" THEN "cleanup" ELSE "respond")
    /\ UNCHANGED <<loopVars, effects, exec, clientGone, healthVars, commands>>

\* prepare_next: the same account for another wire, another account otherwise.
PrepareNext ==
    /\ attempt' = attempt + 1
    /\ IF effects.scope = "wire"
       THEN preferred' = Account /\ UNCHANGED excluded
       ELSE preferred' = NoAccount /\ excluded' = excluded \union {Account}

CleanupFinished ==
    /\ point = "cleanup"
    /\ PrepareNext
    /\ Goto("select")
    /\ UNCHANGED <<operation, surfaces, tried, sent, effects, exec, clientGone, healthVars, commands>>

RegisterFinal(outcome) ==
    /\ commands' = Append(commands, outcome)
    /\ Goto("finished")
    /\ UNCHANGED <<loopVars, effects, exec, clientGone, healthVars>>

\* complete(Delivered), after next_chunk answered None or for an error body.
CompleteDelivered ==
    /\ point = "delivered"
    /\ RegisterFinal(exec.outcome)

ClientLeaves ==
    /\ ~clientGone /\ point \notin {"finished", "refused", "dropped"}
    /\ clientGone' = TRUE
    /\ UNCHANGED <<loopVars, point, effects, exec, healthVars, commands>>

\* The handler's future is dropped before it has an execution; the published
\* attempt is left to the reconciler.
DropRequest ==
    /\ clientGone
    /\ point \in {"select", "headers", "error_body", "prefetch", "body", "effects",
                  "cleanup"}
    /\ Goto("dropped")
    /\ UNCHANGED <<loopVars, effects, exec, clientGone, healthVars, commands>>

-----------------------------------------------------------------------------
(* A streaming request.                                                    *)

StreamInit == LoopInit /\ operation = "Stream" /\ surfaces = WireSurfaces

-----------------------------------------------------------------------------
(* Up to the first byte.                                                   *)

\* prepare_borrowed fails after publication, or the wire stream cannot be
\* built once the answer started.
LocalFailure ==
    /\ point \in {"headers", "prefetch"}
    /\ PendingTerminal(IF point = "headers" THEN "UpstreamError" ELSE "ClientError")
    /\ UNCHANGED <<loopVars, effects, clientGone, healthVars, commands>>

\* pre_handoff_transport_terminal and pre_handoff_timeout_terminal: no
\* headers, a broken error body, no first byte.
UpstreamFails(source, phase) ==
    /\ source = "Transport" \/ phase = "response_headers"
    /\ \/ phase = "response_headers" /\ point = "headers"
       \/ phase = "error_response_read" /\ point = "error_body"
       \/ phase = "first_byte_prefetch" /\ point = "prefetch"
    /\ DecideAndApply(Classify(Observation(source, 0, "none", phase)), "UpstreamError")
    /\ Goto("effects")
    /\ UNCHANGED <<loopVars, clientGone, commands>>

HeadersArrive(ok) ==
    /\ point = "headers"
    /\ Goto(IF ok THEN "prefetch" ELSE "error_body")
    /\ UNCHANGED <<loopVars, effects, exec, clientGone, healthVars, commands>>

\* FiniteResponseOutcome::Success of a status outside 200..299.
ErrorBodySucceeds ==
    /\ point = "error_body"
    /\ credited' = credited \union {Len(sent)}
    /\ PendingTerminal("Completed")
    /\ UNCHANGED <<loopVars, effects, clientGone, ledger, penalised, commands>>

\* FiniteResponseOutcome::ProviderError.
ProviderError(status, signal) ==
    /\ point = "error_body"
    /\ DecideAndApply(Classify(Observation("ProviderResponse", status, signal,
                                           "response_status")),
                      ErrorOutcome(status, signal))
    /\ Goto("effects")
    /\ UNCHANGED <<loopVars, clientGone, commands>>

\* FiniteResponseOutcome::Malformed: its effects count, it is not repeated.
MalformedError(status) ==
    /\ point = "error_body"
    /\ DecideAndApply([Classify(Observation("ProviderResponse", status, "none",
                                            "response_decode"))
                          EXCEPT !.scope = "none"], "UpstreamError")
    /\ Goto("effects")
    /\ UNCHANGED <<loopVars, clientGone, commands>>

\* The first non-empty chunk, or the end of the body, before the timeout: the
\* stream is handed to the body task.
Prefetched(passthrough, bytes) ==
    /\ point = "prefetch"
    /\ exec' = [NoExec EXCEPT !.native = TRUE, !.passthrough = passthrough,
                              !.bytes = bytes]
    /\ Goto("handoff")
    /\ UNCHANGED <<loopVars, effects, clientGone, healthVars, commands>>

-----------------------------------------------------------------------------
(* The body task.                                                          *)

\* Defect: an execution counts as unterminated whatever was stored.
UndeliveredAlways(e) == IF e.started THEN "ClientCancelled" ELSE "Interrupted"

\* What complete(Cancelled) and Drop make of the outcome: a stored terminal
\* stands, anything else is the client's doing.
UndeliveredOutcome(e) ==
    IF e.stored THEN e.outcome
    ELSE IF e.started THEN "ClientCancelled" ELSE "Interrupted"

\* mark_started, by the branch for an error body and by the body task.
MarkStarted ==
    /\ point \in {"respond", "handoff"}
    /\ exec' = [exec EXCEPT !.started = TRUE]
    /\ Goto(IF point = "respond" THEN "delivered" ELSE "relay")
    /\ UNCHANGED <<loopVars, effects, clientGone, healthVars, commands>>

\* complete(Cancelled): the channel is closed, or next_chunk answered an error.
CompleteCancelled ==
    /\ \/ point \in {"relay", "pull", "storing", "sending"} /\ clientGone
       \/ point = "failed"
    /\ RegisterFinal(UndeliveredOutcome(exec))

\* Drop of the execution: the handler's future by the connection, the body
\* task by the shutdown.
DropExecution ==
    /\ point \in {"handoff", "relay", "pull", "storing", "sending",
                  "delivered", "failed"}
    /\ RegisterFinal(UndeliveredOutcome(exec))

\* Defect: the stream is not marked exhausted.
StoredOpen(e, outcome) == [e EXCEPT !.stored = TRUE, !.outcome = outcome]

\* terminal_stored, exhausted and the data of the terminal.
Stored(e, outcome) ==
    [e EXCEPT !.stored = TRUE, !.exhausted = TRUE, !.outcome = outcome]

\* A malformed chunk keeps a forwarded terminal from closing the stream.
ClosesForwarded(e) == e.forwarded # "none" /\ ~e.malformed

\* store_forwarded_terminal, at the head of next_chunk.
StoreForwarded ==
    /\ point = "relay" /\ ~exec.exhausted /\ ClosesForwarded(exec)
    /\ exec' = Stored(exec, IF exec.forwarded = "Completed" THEN "Completed"
                            ELSE "MidstreamError")
    /\ credited' = IF exec.forwarded = "Completed" THEN credited \union {Len(sent)}
                   ELSE credited
    /\ Goto("sending") \/ Goto("delivered")
    /\ UNCHANGED <<loopVars, effects, clientGone, ledger, penalised, commands>>

\* next_chunk after the terminal was stored.
NextAfterEnd ==
    /\ point = "relay" /\ exec.exhausted
    /\ Goto("delivered")
    /\ UNCHANGED <<loopVars, effects, exec, clientGone, healthVars, commands>>

PullBody ==
    /\ point = "relay" /\ ~exec.exhausted /\ ~ClosesForwarded(exec)
    /\ Goto("pull")
    /\ UNCHANGED <<loopVars, effects, exec, clientGone, healthVars, commands>>

\* decode_chunk: forwarded, with or without terminal evidence ...
ChunkForwarded(terminal) ==
    /\ point = "pull"
    /\ terminal = "none" \/ ~exec.passthrough
    /\ exec' = [exec EXCEPT !.bytes = TRUE,
                   !.forwarded = IF @ = "none" THEN terminal ELSE @]
    /\ Goto("sending")
    /\ UNCHANGED <<loopVars, effects, clientGone, healthVars, commands>>

\* ... or skipped as malformed; the loop pulls again.
ChunkMalformed ==
    /\ point = "pull" /\ ~exec.passthrough
    /\ exec' = [exec EXCEPT !.bytes = TRUE, !.malformed = TRUE]
    /\ Goto("relay")
    /\ UNCHANGED <<loopVars, effects, clientGone, healthVars, commands>>

\* sender.send
ChunkSent ==
    /\ point = "sending" /\ ~clientGone
    /\ Goto("relay")
    /\ UNCHANGED <<loopVars, effects, exec, clientGone, healthVars, commands>>

\* classify_eof and the correction for skipped chunks; a passthrough body has
\* no wire stream to ask.
EofClass(e, summary) ==
    IF e.passthrough THEN (IF e.bytes THEN "Complete" ELSE "EmptyEof")
    ELSE IF summary = "Complete" /\ e.malformed THEN "MalformedEof"
    ELSE summary

\* store_eof: no health effects for a stream that ended badly.
StoreEof(summary) ==
    LET class == EofClass(exec, summary)
    IN  /\ point = "pull"
        /\ exec' = Stored(exec, IF class = "Complete" THEN "Completed" ELSE "MidstreamError")
        /\ credited' = IF class = "Complete" THEN credited \union {Len(sent)}
                       ELSE credited
        /\ \/ class \in {"Complete", "Terminal"} /\ Goto("sending")
           \/ class \in {"Complete", "Terminal"} /\ Goto("delivered")
           \/ class \notin {"Complete", "Terminal"} /\ Goto("failed")
        /\ UNCHANGED <<loopVars, effects, clientGone, ledger, penalised, commands>>

\* store_idle_timeout, store_midstream_transport, store_translation_error:
\* the effects are applied before the terminal is stored.
MidstreamFault(source) ==
    /\ point = "pull"
    /\ DecideAndApply(Classify([Observation(source, 0, "none", "stream_body")
                                  EXCEPT !.started = TRUE]),
                      exec.outcome)
    /\ Goto("storing")
    /\ UNCHANGED <<loopVars, clientGone, commands>>

\* store_terminal
StoreMidstream ==
    /\ point = "storing"
    /\ exec' = Stored(exec, "MidstreamError")
    /\ Goto("failed")
    /\ UNCHANGED <<loopVars, effects, clientGone, healthVars, commands>>

-----------------------------------------------------------------------------
AttemptStep ==
    /\ operation = "Stream"
    /\ \/ \E a \in Accounts : NoCandidate(a) \/ \E w \in WireSurfaces : SelectAndPublish(a, w)
       \/ NoClaim \/ LocalFailure \/ InternalError
       \/ \E source \in {"Transport", "LocalPreparation"},
             phase \in {"response_headers", "error_response_read", "first_byte_prefetch"} :
               UpstreamFails(source, phase)
       \/ \E ok \in BOOLEAN : HeadersArrive(ok)
       \/ ErrorBodySucceeds
       \/ \E status \in {400, 401, 404, 429, 500},
             signal \in {"none", "model_absent", "wire_schema_mismatch"} :
               ProviderError(status, signal)
       \/ \E status \in {400, 500} : MalformedError(status)
       \/ EffectsApplied \/ CleanupFinished
       \/ \E passthrough, bytes \in BOOLEAN : Prefetched(passthrough, bytes)

RelayStep ==
    /\ operation = "Stream"
    /\ \/ MarkStarted \/ CompleteDelivered \/ CompleteCancelled
       \/ StoreForwarded \/ NextAfterEnd \/ PullBody
       \/ \E terminal \in {"none", "Completed", "Incomplete"} : ChunkForwarded(terminal)
       \/ ChunkMalformed \/ ChunkSent
       \/ \E summary \in {"Complete", "Terminal", "PrematureEof"} : StoreEof(summary)
       \/ \E source \in {"Transport", "LocalPreparation"} : MidstreamFault(source)
       \/ StoreMidstream

StreamNext ==
    \/ AttemptStep \/ RelayStep
    \/ operation = "Stream" /\ (ClientLeaves \/ DropRequest \/ DropExecution)

\* Timeouts bound every await for the provider before the handoff and between
\* two chunks; the channel to a client that stays is drained.  A provider may
\* send chunks for ever, but not without ever ending the body.
StreamFairness ==
    /\ WF_loopStateVars(AttemptStep)
    /\ WF_loopStateVars(RelayStep)
    /\ SF_loopStateVars(\E summary \in {"Complete", "Terminal", "PrematureEof"} : StoreEof(summary))

-----------------------------------------------------------------------------
(* A request with one finite answer.                                       *)


FiniteOperations == {"Generate", "Compact", "Embedding"}

\* Compaction needs the Responses surface, embeddings Chat Completions.
FiniteInit ==
    /\ LoopInit
    /\ \/ operation = "Generate" /\ surfaces = WireSurfaces
       \/ operation \in {"Compact", "Embedding"}
          /\ \E w \in WireSurfaces : surfaces = {w}

\* The provider of the claimed account cannot compact, or has no embeddings.
CapabilityMissed(a) ==
    /\ point = "select" /\ operation # "Generate"
    /\ a = preferred \/ (preferred = NoAccount /\ a \notin excluded)
    /\ excluded' = excluded \union {a}
    /\ preferred' = NoAccount
    /\ UNCHANGED <<operation, attempt, surfaces, tried, sent, point, effects, exec, clientGone,
                   healthVars, commands>>

\* The attempt is published but its body cannot be built.
PrepareFails ==
    /\ point = "headers"
    /\ PendingTerminal("UpstreamError")
    /\ UNCHANGED <<loopVars, effects, clientGone, healthVars, commands>>

\* Admission facts that do not fit the operation.
InvalidFacts ==
    /\ point = "headers"
    /\ PendingTerminal("ClientError")
    /\ UNCHANGED <<loopVars, effects, clientGone, healthVars, commands>>

FiniteHeaders ==
    /\ point = "headers"
    /\ Goto("body")
    /\ UNCHANGED <<loopVars, effects, exec, clientGone, healthVars, commands>>

\* A decision that may repeat the attempt, and one that never does.
Fails(o, outcome) ==
    /\ DecideAndApply(Classify(o), outcome)
    /\ Goto("effects")
    /\ UNCHANGED <<loopVars, clientGone, commands>>

FailsForGood(o, outcome) ==
    /\ DecideAndApply([Classify(o) EXCEPT !.scope = "none"], outcome)
    /\ Goto("effects")
    /\ UNCHANGED <<loopVars, clientGone, commands>>

\* submit_once: a transport failure, an oversized answer, or a request the
\* transport refused to build.
SubmitFails(source) ==
    /\ point = "headers"
    /\ Fails(Observation(source, 0, "none", "transport"), "UpstreamError")

\* read_to_bytes
BodyFails(source) ==
    /\ point = "body" /\ source # "LocalPreparation"
    /\ Fails(Observation(source, 0, "none", "body_read"), "UpstreamError")

\* A decoded success of any of the three operations.
AnswerSucceeds ==
    /\ point = "body"
    /\ credited' = credited \union {Len(sent)}
    /\ PendingTerminal("Completed")
    /\ UNCHANGED <<loopVars, effects, clientGone, ledger, penalised, commands>>

\* FiniteResponseOutcome::ProviderError
AnswerIsError(status, signal) ==
    /\ point = "body" /\ operation = "Generate"
    /\ Fails(Observation("ProviderResponse", status, signal, "response_status"),
             ErrorOutcome(status, signal))

\* CompactResponseOutcome::ProviderError
CompactIsError(status, signal) ==
    /\ point = "body" /\ operation = "Compact"
    /\ Fails(Observation("ProviderResponse", status, signal, "response_status"),
             ErrorOutcome(status, signal))

\* An embeddings answer with a failure status.
EmbeddingIsError(status) ==
    /\ point = "body" /\ operation = "Embedding"
    /\ Fails(Observation("ProviderResponse", status, "none", "embedding_status"),
             "UpstreamError")

\* A malformed answer has its effects and is not repeated.
AnswerMalformed(status) ==
    /\ point = "body" /\ operation = "Generate"
    /\ FailsForGood(Observation("ProviderResponse", status, "none",
                                "response_decode"), "UpstreamError")

\* A malformed compaction is recorded against the client.
CompactMalformed(status) ==
    /\ point = "body" /\ operation = "Compact"
    /\ FailsForGood(Observation("ProviderResponse", status, "none",
                                "response_decode"), "ClientError")

\* Malformed embeddings count as a bad gateway.
EmbeddingMalformed ==
    /\ point = "body" /\ operation = "Embedding"
    /\ FailsForGood(Observation("ProviderResponse", 502, "none",
                                "embedding_response"), "UpstreamError")

\* An answer that cannot be turned into the client's format: the proxy's own
\* fault for a generation, the provider's for a compaction.
AdaptationFails ==
    /\ point = "body"
    /\ \/ /\ operation = "Generate"
          /\ FailsForGood(Observation("LocalPreparation", 0, "none",
                                      "response_adaptation"), "UpstreamError")
       \/ /\ operation = "Compact"
          /\ Fails(Observation("ProviderResponse", 502, "none",
                               "response_adaptation"), "UpstreamError")

\* mark_started, before the usage metric is awaited.
FiniteStarted ==
    /\ point = "respond"
    /\ exec' = [exec EXCEPT !.started = TRUE]
    /\ Goto("delivered")
    /\ UNCHANGED <<loopVars, effects, clientGone, healthVars, commands>>

\* Drop of a PendingFinalization, whatever the answer was.
DropFinite ==
    /\ point = "delivered" /\ clientGone
    /\ RegisterFinal("Interrupted")

FiniteStep ==
    /\ operation \in FiniteOperations
    /\ \/ \E a \in Accounts :
               \/ NoCandidate(a) \/ CapabilityMissed(a)
               \/ \E w \in WireSurfaces : SelectAndPublish(a, w)
       \/ NoClaim \/ InternalError \/ PrepareFails \/ InvalidFacts \/ FiniteHeaders
       \/ \E source \in {"Transport", "LocalPreparation", "ProviderResponse"} :
               SubmitFails(source) \/ BodyFails(source)
       \/ AnswerSucceeds \/ AdaptationFails
       \/ \E status \in {400, 404, 429, 500}, signal \in {"none", "wire_schema_mismatch"} :
               AnswerIsError(status, signal) \/ CompactIsError(status, signal)
       \/ \E status \in {400, 500} :
               EmbeddingIsError(status) \/ AnswerMalformed(status) \/ CompactMalformed(status)
       \/ EmbeddingMalformed
       \/ EffectsApplied \/ CleanupFinished
       \/ FiniteStarted \/ CompleteDelivered

FiniteNext ==
    \/ FiniteStep
    \/ operation \in FiniteOperations /\ (ClientLeaves \/ DropRequest \/ DropFinite)

\* The transport's timeouts bound every await of the provider.
FiniteFairness == WF_loopStateVars(FiniteStep)

CoordinatorSpec ==
    /\ StreamInit \/ FiniteInit
    /\ [][StreamNext \/ FiniteNext]_loopStateVars

-----------------------------------------------------------------------------
(* Properties.                                                             *)

\* A request never submits the same wire of the same account twice, and never
\* more attempts than its policy allows: the exclusions of prepare_next and
\* the attempted_wires of execute_inner together cover every retry.
NoPairTwice ==
    /\ Len(sent) <= max_attempts
    /\ \A i, j \in 1 .. Len(sent) : sent[i] = sent[j] => i = j

\* A request recorded as Completed is one whose last attempt the router
\* credited, did not penalise, and whose stream had no chunk skipped; and a
\* terminal, once stored, is what complete() or Drop registers, however the
\* client leaves.
RecordedAsEnded ==
    commands # <<>> =>
        LET last == commands[1]
        IN  /\ Len(commands) = 1
            /\ last = "Completed" =>
                  /\ Len(sent) \in credited \ penalised
                  /\ ~exec.malformed
            /\ exec.stored => last = exec.outcome

\* A request always ends: with a registered command, an error, or its future
\* dropped; no retry loop and no stream holds it for ever.
RequestEnds == operation # "None" ~> (point \in {"finished", "refused", "dropped"})

=============================================================================
