----------------------------- MODULE StatusView ------------------------------
(***************************************************************************)
(* What the server says of itself: /v1/readyz and the status snapshot of   *)
(* GET /api/status and `eggpool status` (rust/src/server/health.rs,        *)
(* operations/status.rs, and status in runtime.rs), built while requests   *)
(* change the health the snapshot is about.                                *)
(*                                                                         *)
(* A query holds a generation lease, so configuration, registry and health *)
(* manager are those of one generation for its whole length.  It copies    *)
(* the health of every account, then awaits three reads of the database,   *)
(* and aggregates in one step after the last.  The copy is kept as the     *)
(* AccountStatusInput derived from it, which depends on nothing later.     *)
(*                                                                         *)
(* A breaker opens only through record_failure, which a rejected           *)
(* credential reaches and which disables the account for the generation's  *)
(* life: it is the count of rejections, and an open one stays open.        *)
(***************************************************************************)
EXTENDS Naturals, FiniteSets, FiniteSetsExt

CONSTANTS
    StatusAccounts,
    StatusProviders,
    AccountProvider,           \* the provider of each account
    CooldownLength,       \* the delay of a timed backoff
    BreakerThreshold,     \* rejections in a row that open the breaker
    ProbeLifetime,        \* models.stale_after_s
    AccountLayouts,       \* which accounts are enabled and have credentials
    LastSecond            \* bound of the clock

VARIABLES
    second,       \* the wall clock and the health clock
    accountRows,  \* accounts of the configuration: enabled, has credentials
    standing,     \* AccountHealth of each account
    pings,        \* the latest provider_pings row of each account
    modelRows,    \* models in the active catalogue, and in the database
    reachable,    \* the runtime still hands out leases
    query,        \* the readyz or status request being served
    report        \* the answer on its way out

statusVars == <<second, accountRows, standing, pings, modelRows, reachable, query, report>>

Timed == {"rate_limited", "upstream_server_error"}
Healthy == [is_healthy |-> TRUE, health_state |-> "healthy", disabled |-> FALSE,
            cooldown_until |-> 0, category |-> "none", rejections |-> 0,
            success |-> FALSE, quarantined |-> FALSE]
NeverPinged == [at |-> 0, ok |-> "none"]
NoInput == [routable |-> FALSE, in_backoff |-> FALSE, reason |-> "none", circuit_open |-> FALSE,
            success |-> FALSE, failure |-> FALSE, quarantine |-> FALSE, auth |-> FALSE]
NoQuery == [kind |-> "none", at |-> "idle", inputs |-> [a \in StatusAccounts |-> NoInput],
            pinged |-> [a \in StatusAccounts |-> NeverPinged], began |-> 0,
            database_ok |-> TRUE, models |-> FALSE]
NoSummary == [status |-> "none", observation |-> "none", reason |-> "none"]
NoReport == [kind |-> "none", routable |-> {}, providers |-> [p \in StatusProviders |-> NoSummary],
             status |-> "none", ready |-> FALSE, reason |-> "none", exit |-> 0]

StatusInit ==
    /\ second = 0
    /\ accountRows \in AccountLayouts
    /\ standing = [a \in StatusAccounts |-> Healthy]
    /\ pings = [a \in StatusAccounts |-> NeverPinged]
    /\ modelRows = [active |-> FALSE, stored |-> FALSE]
    /\ reachable = TRUE
    /\ query = NoQuery
    /\ report = NoReport

-----------------------------------------------------------------------------
(* Health, and the gate selection applies to it.                           *)

Configured(a) == accountRows[a].enabled /\ accountRows[a].credentials

OpenCircuit(h) == h.rejections >= BreakerThreshold

\* account_effectively_healthy: a cooldown that has ended no longer holds the
\* account back, a rejected credential always does.
account_effectively_healthy(h) == second >= h.cooldown_until /\ ~h.disabled /\ h.is_healthy

is_account_healthy_read_only(a) ==
    account_effectively_healthy(standing[a]) /\ ~OpenCircuit(standing[a])

record_success(h) ==
    LET free == ~h.disabled /\ h.health_state # "authentication_failed" /\ h.cooldown_until <= second
        tried == [h EXCEPT !.success = TRUE, !.quarantined = FALSE,
                           !.rejections = IF OpenCircuit(h) THEN @ ELSE 0]
    IN  IF free
        THEN [tried EXCEPT !.is_healthy = TRUE, !.health_state = "healthy", !.cooldown_until = 0]
        ELSE tried

record_failure(h) ==
    [h EXCEPT !.rejections = Min({@ + 1, BreakerThreshold}), !.category = "authentication_failed",
              !.health_state = "authentication_failed", !.is_healthy = FALSE, !.disabled = TRUE]

record_cooldown(h, reason) ==
    [h EXCEPT !.category = reason, !.health_state = reason,
              !.cooldown_until = Max({@, second + CooldownLength})]

\* A request on the account ends.  It may have been admitted before the
\* account was held back.
RequestOutcome(a) ==
    /\ Configured(a)
    /\ \/ standing' = [standing EXCEPT ![a] = record_success(@)]
       \/ standing' = [standing EXCEPT ![a] = record_failure(@)]
       \/ \E reason \in Timed : standing' = [standing EXCEPT ![a] = record_cooldown(@, reason)]
       \/ standing' = [standing EXCEPT ![a].quarantined = TRUE]
    /\ UNCHANGED <<second, accountRows, pings, modelRows, reachable, query, report>>

\* A catalogue refresh publishes its models in memory and stores them with
\* the ping of the account that was asked.
CatalogAnswers(a, ok) ==
    /\ Configured(a)
    /\ pings' = [pings EXCEPT ![a] = [at |-> second, ok |-> IF ok THEN "yes" ELSE "no"]]
    /\ modelRows' = IF ok THEN [active |-> TRUE, stored |-> TRUE] ELSE modelRows
    /\ UNCHANGED <<second, accountRows, standing, reachable, query, report>>

SecondPasses ==
    /\ second < LastSecond /\ second' = second + 1
    /\ UNCHANGED <<accountRows, standing, pings, modelRows, reachable, query, report>>

\* Shutdown stops handing out leases.
LeasesEnd ==
    /\ reachable /\ reachable' = FALSE
    /\ UNCHANGED <<second, accountRows, standing, pings, modelRows, query, report>>

-----------------------------------------------------------------------------
(* Aggregation (operations/status.rs).                                     *)

\* account_input_from_snapshot
account_input_from_snapshot(a) ==
    LET h == standing[a]
        in_cooldown == second < h.cooldown_until
        open == OpenCircuit(h)
        auth_terminal == "authentication_failed" \in {h.health_state, h.category}
        live_blocked == in_cooldown \/ open \/ auth_terminal
                          \/ (~h.is_healthy /\ h.category # "none")
    IN  [routable |-> Configured(a) /\ ~live_blocked,
         in_backoff |-> Configured(a) /\ (in_cooldown \/ open),
         reason |-> h.category, circuit_open |-> open, success |-> h.success,
         failure |-> h.category # "none", quarantine |-> h.quarantined, auth |-> auth_terminal]

\* The accounts of a provider that are enabled, and of these the routable ones.
EnabledOf(p) == {a \in StatusAccounts : AccountProvider[a] = p /\ accountRows[a].enabled}
RoutableOf(p, inputs) == {a \in EnabledOf(p) : inputs[a].routable}
BlockedOf(p, inputs) == {a \in EnabledOf(p) : accountRows[a].credentials /\ ~inputs[a].routable}

\* ping_evidence_for_provider on the provider's latest row; its age counts
\* from the moment the query began.
LatestPing(p, pinged) ==
    LET rows == {pinged[a] : a \in {x \in StatusAccounts : AccountProvider[x] = p /\ pinged[x].ok # "none"}}
    IN  IF rows = {} THEN NeverPinged ELSE CHOOSE r \in rows : \A s \in rows : s.at <= r.at
FreshPing(p, q, ok) ==
    LET ping == LatestPing(p, q.pinged)
    IN  ping.ok = ok /\ ping.at <= q.began /\ q.began - ping.at <= ProbeLifetime
StalePing(p, q) ==
    LET ping == LatestPing(p, q.pinged)
    IN  ping.ok # "none" /\ ping.at <= q.began /\ q.began - ping.at > ProbeLifetime

Verified(p, q) ==
    \/ \E a \in RoutableOf(p, q.inputs) : q.inputs[a].success
    \/ FreshPing(p, q, "yes")

\* observation_for
observation_for(p, q) ==
    CASE Verified(p, q) -> "verified"
      [] ~Verified(p, q) /\ StalePing(p, q) -> "stale"
      [] OTHER -> IF \/ \E a \in EnabledOf(p) : q.inputs[a].failure
                     \/ LatestPing(p, q.pinged).ok = "no"
                  THEN "failed" ELSE "never"

\* provider_failure_reason: the gravest cause among the blocked accounts; an
\* account whose rejection or open breaker is known counts for nothing else.
provider_failure_reason(p, q) ==
    LET blocked == BlockedOf(p, q.inputs)
        rest == {a \in blocked : ~q.inputs[a].auth /\ ~q.inputs[a].circuit_open}
        keyless == (EnabledOf(p) \ RoutableOf(p, q.inputs)) \ blocked
        auth == \/ \E a \in blocked : q.inputs[a].auth
                \/ \E a \in rest : q.inputs[a].reason = "authentication_failed"
        circuit == \E a \in blocked : ~q.inputs[a].auth /\ q.inputs[a].circuit_open
        rate == \E a \in rest : q.inputs[a].reason = "rate_limited"
        backoff == \E a \in rest : \/ q.inputs[a].reason = "upstream_server_error"
                                   \/ q.inputs[a].reason = "none" /\ q.inputs[a].in_backoff
        seen == auth \/ circuit \/ rate \/ backoff
    IN  CASE auth \/ (~seen /\ \E a \in keyless : q.inputs[a].auth) -> "authentication_failed"
          [] ~auth /\ (circuit \/ (~seen /\ \E a \in keyless : q.inputs[a].circuit_open)) ->
                "circuit_open"
          [] ~auth /\ ~circuit /\ rate -> "rate_limited"
          [] ~auth /\ ~circuit /\ ~rate /\ backoff -> "provider_backoff"
          [] OTHER -> IF blocked # {} THEN "partial_account_failure"
                      ELSE IF LatestPing(p, q.pinged).ok = "no" THEN "probe_failed" ELSE "none"

\* aggregate_provider: a ProviderHealthSummary, the counts aside.
Summary(status, observation, reason) ==
    [status |-> status, observation |-> observation, reason |-> reason]
OrElse(reason, otherwise) == IF reason = "none" THEN otherwise ELSE reason

aggregate_provider(p, q) ==
    LET partial == \/ BlockedOf(p, q.inputs) # {}
                   \/ \E a \in EnabledOf(p) : \/ q.inputs[a].in_backoff \/ q.inputs[a].circuit_open
                                              \/ q.inputs[a].auth
        quarantine == \E a \in RoutableOf(p, q.inputs) : q.inputs[a].quarantine
        cause == provider_failure_reason(p, q)
        Seen(status, reason) == Summary(status, observation_for(p, q), reason)
    IN  IF EnabledOf(p) = {} THEN Seen("disabled", "no_enabled_accounts")
        ELSE IF RoutableOf(p, q.inputs) = {}
             THEN Seen("unavailable", OrElse(cause, "no_routable_accounts"))
        ELSE IF partial THEN Seen("degraded", OrElse(cause, "partial_account_failure"))
        ELSE IF quarantine THEN Seen("degraded", "model_quarantine")
        ELSE IF FreshPing(p, q, "no") THEN Seen("degraded", "probe_failed")
        ELSE IF Verified(p, q) THEN Summary("ready", "verified", "none")
        ELSE IF StalePing(p, q) THEN Summary("unknown", "stale", "probe_stale")
        ELSE Seen("unknown", "unobserved")

\* evaluate_readiness, in the order of its early returns
evaluate_readiness(runtime, database_ok, stored) ==
    CASE ~runtime -> "runtime unavailable"
      [] runtime /\ ~database_ok -> "database not writable"
      [] runtime /\ database_ok /\ StatusAccounts = {} -> "no accounts configured"
      [] OTHER -> IF \A a \in StatusAccounts : ~accountRows[a].enabled THEN "no enabled accounts"
                  ELSE IF \A a \in StatusAccounts : ~Configured(a) THEN "no loaded credentials"
                  ELSE IF ~modelRows.active \/ ~stored THEN "no usable model catalog" ELSE "none"

Worst == {"degraded", "unavailable"}

\* aggregate_proxy; "reload in progress" and the like are left out.
aggregate_proxy(readiness, providers) ==
    IF readiness # "none" THEN "unready"
    ELSE IF \E p \in StatusProviders : providers[p].status \in Worst THEN "degraded" ELSE "ready"

\* The exit code of `eggpool status`.
ExitOf(status) == IF status = "unready" THEN 1 ELSE 0

\* offline_snapshot: nothing is claimed but what the configuration says.
offline_snapshot ==
    [NoReport EXCEPT !.kind = "status", !.status = "unavailable", !.exit = 3,
                     !.reason = "server unreachable",
                     !.providers = [p \in StatusProviders |->
                                       IF EnabledOf(p) = {}
                                       THEN Summary("disabled", "never", "no_enabled_accounts")
                                       ELSE Summary("unknown", "never", "unobserved")]]

-----------------------------------------------------------------------------
(* Queries (server/health.rs).                                             *)

Step(q) == query' = q /\ UNCHANGED <<second, accountRows, standing, pings, modelRows, reachable>>
Answer(r) == report' = r /\ Step(NoQuery)

\* readiness_snapshot and build_status_snapshot: without a lease the answer is
\* at once; with one, status copies the health of every account before the
\* first read.
BeginQuery(kind) ==
    /\ query = NoQuery
    /\ IF ~reachable
       THEN Answer([NoReport EXCEPT !.kind = kind, !.exit = 1, !.reason = "runtime unavailable",
                                    !.status = IF kind = "status" THEN "unready" ELSE "none"])
       ELSE /\ Step([NoQuery EXCEPT !.kind = kind, !.began = second,
                        !.at = IF kind = "status" THEN "pings" ELSE "enabled",
                        !.inputs = IF kind = "status"
                                   THEN [a \in StatusAccounts |-> account_input_from_snapshot(a)]
                                   ELSE @])
            /\ UNCHANGED report

\* PingRepository::latest_grouped
ReadPings(ok) ==
    /\ query.at = "pings"
    /\ Step([query EXCEPT !.at = "enabled", !.database_ok = ok,
                          !.pinged = IF ok THEN pings ELSE @])
    /\ UNCHANGED report

\* AccountRepository::list_enabled; readyz answers a failure at once.
ReadEnabled(ok) ==
    /\ query.at = "enabled"
    /\ IF ~ok /\ query.kind = "readyz"
       THEN Answer([NoReport EXCEPT !.kind = "readyz", !.reason = "database not writable"])
       ELSE /\ Step([query EXCEPT !.at = "models", !.database_ok = @ /\ ok])
            /\ UNCHANGED report

\* Defect: the copy taken before the reads is all the status answers from.
StillRoutableStale(q) == [a \in StatusAccounts |-> q.inputs[a]]

\* build_status_snapshot asks the health gate again when it aggregates.
StillRoutable(q) ==
    [a \in StatusAccounts |->
        [q.inputs[a] EXCEPT !.routable = @ /\ Configured(a) /\ is_account_healthy_read_only(a)]]

\* ModelRepository::list returns, and the answer is put together in one step.
ReadModelRows(ok) ==
    LET q == [query EXCEPT !.database_ok = @ /\ ok, !.inputs = StillRoutable(query)]
        readiness == evaluate_readiness(TRUE, q.database_ok, ok /\ modelRows.stored)
        providers == [p \in StatusProviders |-> aggregate_provider(p, q)]
        status == aggregate_proxy(readiness, providers)
    IN  /\ query.at = "models"
        /\ Answer(IF query.kind = "readyz"
                  THEN [NoReport EXCEPT !.kind = "readyz", !.ready = readiness = "none",
                                        !.reason = readiness]
                  ELSE [kind |-> "status", providers |-> providers, status |-> status,
                        routable |-> UNION {RoutableOf(p, q.inputs) : p \in StatusProviders},
                        ready |-> readiness = "none", reason |-> readiness,
                        exit |-> ExitOf(status)])

\* The local control request times out, or nobody listens: status falls back
\* to the configuration.
ControlUnavailable ==
    /\ query.kind = "status"
    /\ Answer(offline_snapshot)

\* A malformed or oversized answer is an error, without a snapshot.
ControlRefused ==
    /\ query.kind = "status"
    /\ Answer([NoReport EXCEPT !.kind = "status", !.exit = 1])

\* The answer is written out; nothing depends on it any more.
Delivered ==
    /\ report # NoReport /\ report' = NoReport
    /\ UNCHANGED <<second, accountRows, standing, pings, modelRows, reachable, query>>

StatusNext ==
    \/ Delivered
    \/ /\ report = NoReport
       /\ \/ SecondPasses \/ LeasesEnd \/ ControlUnavailable \/ ControlRefused
          \/ \E kind \in {"readyz", "status"} : BeginQuery(kind)
          \/ \E ok \in BOOLEAN : ReadPings(ok) \/ ReadEnabled(ok) \/ ReadModelRows(ok)
          \/ \E a \in StatusAccounts : \/ RequestOutcome(a)
                                       \/ \E ok \in BOOLEAN : CatalogAnswers(a, ok)

StatusSpec == StatusInit /\ [][StatusNext]_statusVars

-----------------------------------------------------------------------------
(* Properties.                                                             *)

\* An account the status calls routable passes the gate selection applies, at
\* the moment the status is answered: a rejection or cooldown that arrived
\* while build_status_snapshot awaited the database is not overlooked, though
\* the counts come from a copy taken before (server/health.rs:613).
ReportedIsRoutable ==
    [][report' # report =>
        \A a \in report'.routable : Configured(a) /\ is_account_healthy_read_only(a)]_statusVars
=============================================================================
