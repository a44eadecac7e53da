----------------------------- MODULE HealthState -----------------------------
(***************************************************************************)
(* The health of one account and its models: the live state of each        *)
(* generation (rust/src/health/health_manager.rs, quarantine.rs), its      *)
(* durable mirror (health/repository.rs), the failure effects that write   *)
(* both (routing/router.rs, apply_failure_effects), and the hydration of a *)
(* new generation by a restart or a reload.                                *)
(*                                                                         *)
(* Time is a clock of whole seconds shared by the monotonic and the wall   *)
(* clock.  A deadline of 0 is none.  The jitter source is a constant, so a *)
(* delay is a function of the rung.  The circuit breaker is in module      *)
(* SelectionClaims.                                                        *)
(***************************************************************************)
EXTENDS Naturals, FiniteSets, FiniteSetsExt

CONSTANTS
    Calls,            \* requests
    HealthModels,
    NoModel,          \* the NULL model_id of an account-wide row
    RetryHints,       \* Retry-After values; 0 is none
    BaseDelay,        \* BackoffPolicy.base_delay, for every timed reason
    DelayCap,         \* MAX_NONTERMINAL_BACKOFF_SECONDS
    promotion_threshold,
    MaxClock,         \* bound of the clock
    MaxEpoch          \* bound of the generations built

ASSUME HealthAssumption ==
    /\ NoModel \notin HealthModels
    /\ BaseDelay \in Nat /\ DelayCap \in Nat
    /\ 0 < BaseDelay /\ BaseDelay <= DelayCap
    /\ RetryHints \subseteq Nat
    /\ promotion_threshold \in Nat
    /\ MaxClock \in Nat /\ MaxEpoch \in Nat \ {0}

VARIABLES
    clock,
    epoch,        \* the published generation
    candidate,    \* what a reload is building: "none", or rotating or not
    manager,      \* per generation: account and model state
    observed,     \* per generation: the quarantine entry of each model
    backoffs,     \* account_backoffs: deadline by reason and model
    entries,      \* model_quarantine: entry by model
    calls,        \* each request: its generation, model and pending effects
    applied,      \* the latest deadline any live path applied, by scope
    fresh         \* no request has failed with the published credential

healthVars == <<clock, epoch, candidate, manager, observed, backoffs, entries,
                calls, applied, fresh>>

Reasons == {"authentication_failed", "rate_limited", "upstream_server_error",
            "model_unavailable"}

\* A deadline-less row, and no row at all.
StickyBackoff == MaxClock + DelayCap + 1
Scopes == HealthModels \union {NoModel}

NewAccount == [cooldown_until |-> 0, cooldowns |-> 0, failures |-> 0, auth |-> FALSE,
               disabled_models |-> [m \in HealthModels |-> 0],
               model_failures |-> [m \in HealthModels |-> 0]]
NoEntry == [state |-> "none", count |-> 0, expiry |-> 0]
Withdrawn == [state |-> "TerminalWithdrawn", count |-> 1, expiry |-> 0]
IdleCall == [at |-> "idle", gen |-> 0, model |-> NoModel, reason |-> "none",
             delay |-> 0, deadline |-> 0, rung |-> 0, entry |-> NoEntry, penalty |-> FALSE]
DoneCall == [IdleCall EXCEPT !.at = "done"]

-----------------------------------------------------------------------------
(* Backoff policy.                                                         *)

\* compute_backoff_seconds: the base delay doubles with every rung, up to the
\* cap.  Only rate_limited takes a hint, never below the base delay.
Doubled[n \in Nat] == IF n = 0 THEN BaseDelay ELSE Min({2 * Doubled[n - 1], DelayCap})

Delay(reason, rung, hint) ==
    CASE reason = "authentication_failed" -> 0
      [] reason = "rate_limited" /\ hint > 0 -> Max({BaseDelay, Min({hint, DelayCap})})
      [] OTHER -> Doubled[rung - 1]

\* policy_backoff: a model-scoped reason climbs the model's ladder, the others
\* the account's.
Rung(a, m, reason) ==
    IF reason = "model_unavailable" THEN a.model_failures[m] + 1
    ELSE Max({a.failures, a.cooldowns}) + 1

Bump(n) == Min({n + 1, DelayCap})

-----------------------------------------------------------------------------
(* Live state.                                                             *)

Later(a, b) == IF a >= b THEN a ELSE b

\* record_cooldown
Cooled(a, delay) ==
    [a EXCEPT !.cooldowns = Bump(@), !.cooldown_until = Later(@, clock + delay)]

\* record_failure, which only a rejected credential reaches
Rejected(a) == [a EXCEPT !.failures = Bump(@), !.auth = TRUE]

\* record_success: a running cooldown and a rejected credential stay.
Succeeded(a, m) ==
    [a EXCEPT !.failures = 0, !.cooldowns = 0,
              !.cooldown_until = IF a.auth \/ @ > clock THEN @ ELSE 0,
              !.disabled_models[m] = 0,
              !.model_failures[m] = 0]

Unexpired(e) == e.expiry = 0 \/ clock < e.expiry

\* is_model_quarantined
Quarantining(e) == e.state \in {"Suspected", "Quarantined", "TerminalWithdrawn"} /\ Unexpired(e)

\* record_observation_until with the live deadline as expiry
Observe(e, deadline) ==
    IF e.state = "TerminalWithdrawn" THEN e
    ELSE IF e.state \in {"none", "Healthy"} \/ ~Unexpired(e)
    THEN [state |-> "Suspected", count |-> 1, expiry |-> deadline]
    ELSE [state |-> IF e.count + 1 >= promotion_threshold THEN "Quarantined" ELSE e.state,
          count |-> Min({e.count + 1, promotion_threshold}),
          expiry |-> deadline]

\* clear_authoritative_reappearance_for
Reappeared(e) == IF e.state = "TerminalWithdrawn" THEN [e EXCEPT !.state = "Healthy"] ELSE e

\* account_effectively_healthy, is_model_disabled and the quarantine gate
Eligible(g, m) ==
    LET a == manager[g]
    IN  /\ ~a.auth /\ clock >= a.cooldown_until /\ clock >= a.disabled_models[m]
        /\ ~Quarantining(observed[g][m])

-----------------------------------------------------------------------------
(* Hydration.                                                              *)

Remaining(deadline) == IF deadline > clock THEN deadline ELSE 0

TimedReasons == Reasons \ {"authentication_failed"}

\* hydrate_backoffs: rows whose deadline is past are skipped, account-wide
\* rows become cooldowns, model rows disable their model and seed its ladder.
HydratedAccount ==
    LET rows(scope) == {Remaining(backoffs[r][scope].until) : r \in TimedReasons} \ {0}
        rungs(m) == {backoffs[r][m].rung : r \in {x \in TimedReasons :
                                                   Remaining(backoffs[x][m].until) > 0}}
    IN  [NewAccount EXCEPT
            !.auth = backoffs["authentication_failed"][NoModel].until = StickyBackoff,
            !.cooldowns = Cardinality({r \in TimedReasons :
                                         Remaining(backoffs[r][NoModel].until) > 0}),
            !.cooldown_until = Max(rows(NoModel) \union {0}),
            !.disabled_models = [m \in HealthModels |-> Max(rows(m) \union {0})],
            !.model_failures = [m \in HealthModels |-> Max(rungs(m) \union {0})]]

\* hydrate_entry into an empty quarantine
HydratedEntries ==
    [m \in HealthModels |-> IF entries[m].state = "TerminalWithdrawn" \/ Unexpired(entries[m])
                      THEN entries[m] ELSE NoEntry]

HydrateAs(g) ==
    /\ manager' = [manager EXCEPT ![g] = HydratedAccount]
    /\ observed' = [observed EXCEPT ![g] = HydratedEntries]

HealthInit ==
    /\ clock = 0 /\ epoch = 1 /\ candidate = "none"
    /\ backoffs = [r \in Reasons |-> [s \in Scopes |-> [until |-> 0, rung |-> 0]]]
    /\ entries \in [HealthModels -> {NoEntry, Withdrawn}]
    /\ manager = [g \in 1 .. MaxEpoch |-> NewAccount]
    /\ observed = [g \in 1 .. MaxEpoch |-> IF g = 1 THEN entries ELSE [m \in HealthModels |-> NoEntry]]
    /\ calls = [c \in Calls |-> IdleCall]
    /\ applied = [s \in Scopes |-> 0]
    /\ fresh = TRUE

-----------------------------------------------------------------------------
(* Requests.                                                               *)

\* Selection on the published generation.
Route(c, m) ==
    /\ calls[c].at = "idle"
    /\ Eligible(epoch, m)
    /\ calls' = [calls EXCEPT ![c] = [IdleCall EXCEPT !.at = "flight", !.gen = epoch, !.model = m]]
    /\ UNCHANGED <<clock, epoch, candidate, manager, observed, backoffs, entries, applied, fresh>>

\* RoutingRouter::record_success; the durable rows stay.
CallSucceeds(c) ==
    LET g == calls[c].gen  m == calls[c].model
    IN  /\ calls[c].at = "flight"
        /\ manager' = [manager EXCEPT ![g] = Succeeded(@, m)]
        /\ observed' = [observed EXCEPT ![g][m] = Reappeared(@)]
        /\ calls' = [calls EXCEPT ![c] = DoneCall]
        /\ UNCHANGED <<clock, epoch, candidate, backoffs, entries, applied, fresh>>

\* The account part of apply_failure_effects: cooldown or disable, then the
\* write of persist_account_backoff is awaited.
AccountPart(c, call, a, scopes) ==
    LET cooled == Cooled(a, call.delay)
    IN  IF ~call.penalty
        THEN /\ manager' = [manager EXCEPT ![call.gen] = a]
             /\ calls' = [calls EXCEPT ![c] = DoneCall]
             /\ applied' = scopes
             /\ UNCHANGED fresh
        ELSE /\ manager' = [manager EXCEPT ![call.gen] =
                                IF call.delay > 0 THEN cooled ELSE Rejected(a)]
             /\ calls' = [calls EXCEPT ![c] = [call EXCEPT !.at = "account",
                    !.deadline = IF call.delay > 0 THEN clock + call.delay ELSE StickyBackoff]]
             /\ applied' = IF call.delay > 0
                           THEN [scopes EXCEPT ![NoModel] = Later(@, clock + call.delay)]
                           ELSE scopes
             /\ fresh' = (fresh /\ ~(call.delay = 0 /\ call.gen = epoch))

\* A failure without a model effect: a rejected credential, a rate limit.
AccountFails(c, reason, hint) ==
    LET g == calls[c].gen  rung == Rung(manager[g], calls[c].model, reason)
        call == [calls[c] EXCEPT !.reason = reason, !.penalty = TRUE, !.rung = rung,
                                 !.delay = Delay(reason, rung, hint)]
    IN  /\ calls[c].at = "flight"
        /\ reason \in {"authentication_failed", "rate_limited"}
        /\ reason = "rate_limited" \/ hint = 0
        /\ AccountPart(c, call, manager[g], applied)
        /\ UNCHANGED <<clock, epoch, candidate, observed, backoffs, entries>>

\* A failure with one: the model is disabled and observed, and the write of
\* its quarantine entry is awaited.  A server error penalises the account too.
ModelFails(c, reason) ==
    LET g == calls[c].gen  m == calls[c].model
        rung == Rung(manager[g], m, reason)
        delay == Delay(reason, rung, 0)
        entry == Observe(observed[g][m], clock + delay)
        climbs == reason = "model_unavailable"
    IN  /\ calls[c].at = "flight"
        /\ reason \in {"upstream_server_error", "model_unavailable"}
        /\ manager' = [manager EXCEPT ![g].disabled_models[m] = clock + delay,
                ![g].model_failures[m] = IF climbs THEN Bump(@) ELSE @]
        /\ observed' = [observed EXCEPT ![g][m] = entry]
        /\ calls' = [calls EXCEPT ![c] = [@ EXCEPT !.at = "quarantine", !.reason = reason,
                !.delay = delay, !.deadline = clock + delay, !.entry = entry,
                !.rung = manager'[g].model_failures[m], !.penalty = ~climbs]]
        /\ applied' = [applied EXCEPT ![m] = Later(@, clock + delay)]
        /\ UNCHANGED <<clock, epoch, candidate, backoffs, entries, fresh>>

\* upsert_entry returns; a failed write is only reported.
EntryWritten(c, ok) ==
    /\ calls[c].at = "quarantine"
    /\ entries' = IF ok THEN [entries EXCEPT ![calls[c].model] = calls[c].entry] ELSE entries
    /\ calls' = [calls EXCEPT ![c].at = "model"]
    /\ UNCHANGED <<clock, epoch, candidate, manager, observed, backoffs, applied, fresh>>

\* Defect: the deadline counts from the moment the row is written.
MirrorLate(c) == [until |-> clock + calls[c].delay, rung |-> Max({calls[c].rung, 1})]

\* The row that mirrors the effect: the deadline the live path applied,
\* clamped by upsert to the policy's cap.
Mirror(c) ==
    [until |-> IF calls[c].deadline = StickyBackoff THEN StickyBackoff
               ELSE Min({calls[c].deadline, clock + DelayCap}),
     rung |-> Max({calls[c].rung, 1})]

\* The model's backoff row is written; the account part follows in the same poll.
ModelRowWritten(c, ok) ==
    LET call == calls[c]
    IN  /\ call.at = "model"
        /\ backoffs' = IF ok THEN [backoffs EXCEPT ![call.reason][call.model] = Mirror(c)]
                       ELSE backoffs
        /\ AccountPart(c, call, manager[call.gen], applied)
        /\ UNCHANGED <<clock, epoch, candidate, observed, entries>>

AccountRowWritten(c, ok) ==
    /\ calls[c].at = "account"
    /\ backoffs' = IF ok THEN [backoffs EXCEPT ![calls[c].reason][NoModel] = Mirror(c)]
                   ELSE backoffs
    /\ calls' = [calls EXCEPT ![c] = DoneCall]
    /\ UNCHANGED <<clock, epoch, candidate, manager, observed, entries, applied, fresh>>

-----------------------------------------------------------------------------
(* Maintenance, reload, restart.                                           *)

\* retention_cleanup deletes rows whose deadline is past.
RetainHealth ==
    /\ backoffs' = [r \in Reasons |-> [s \in Scopes |->
            IF backoffs[r][s].until <= clock THEN [until |-> 0, rung |-> 0] ELSE backoffs[r][s]]]
    /\ entries' = [m \in HealthModels |->
            IF entries[m].expiry > 0 /\ entries[m].expiry <= clock THEN NoEntry ELSE entries[m]]
    /\ <<backoffs', entries'>> # <<backoffs, entries>>
    /\ UNCHANGED <<clock, epoch, candidate, manager, observed, calls, applied, fresh>>

\* A reload builds its candidate, which hydrates from the rows as they are.
BuildCandidate(rotates) ==
    /\ candidate = "none" /\ epoch < MaxEpoch
    /\ HydrateAs(epoch + 1)
    /\ candidate' = IF rotates THEN "rotating" ELSE "same"
    /\ UNCHANGED <<clock, epoch, backoffs, entries, calls, applied, fresh>>

\* The reload's transaction clears the rejection of a changed credential, and
\* the candidate is published.  Older requests keep their generation.
PublishCandidate ==
    /\ candidate # "none"
    /\ backoffs' = IF candidate = "rotating"
                   THEN [backoffs EXCEPT !["authentication_failed"] =
                            [s \in Scopes |-> [until |-> 0, rung |-> 0]]]
                   ELSE backoffs
    /\ epoch' = epoch + 1
    /\ fresh' = (candidate = "rotating" \/ (fresh /\ ~manager[epoch + 1].auth))
    /\ candidate' = "none"
    /\ UNCHANGED <<clock, manager, observed, entries, calls, applied>>

AbortCandidate ==
    /\ candidate # "none"
    /\ candidate' = "none"
    /\ UNCHANGED <<clock, epoch, manager, observed, backoffs, entries, calls, applied, fresh>>

\* The process dies with its requests; a new one hydrates.
Restart ==
    /\ epoch < MaxEpoch
    /\ epoch' = epoch + 1
    /\ HydrateAs(epoch + 1)
    /\ candidate' = "none"
    /\ calls' = [c \in Calls |-> IF calls[c].at = "idle" THEN IdleCall ELSE DoneCall]
    /\ fresh' = (fresh /\ ~manager'[epoch + 1].auth)
    /\ UNCHANGED <<clock, backoffs, entries, applied>>

Second ==
    /\ clock < MaxClock
    /\ clock' = clock + 1
    /\ UNCHANGED <<epoch, candidate, manager, observed, backoffs, entries, calls, applied, fresh>>

HealthNext ==
    \/ \E c \in Calls :
          \/ \E m \in HealthModels : Route(c, m)
          \/ CallSucceeds(c)
          \/ \E reason \in Reasons, hint \in RetryHints : AccountFails(c, reason, hint)
          \/ \E reason \in Reasons : ModelFails(c, reason)
          \/ \E ok \in BOOLEAN : EntryWritten(c, ok) \/ ModelRowWritten(c, ok)
                                 \/ AccountRowWritten(c, ok)
    \/ RetainHealth \/ AbortCandidate \/ PublishCandidate \/ Restart \/ Second
    \/ \E rotates \in BOOLEAN : BuildCandidate(rotates)

HealthSpec == HealthInit /\ [][HealthNext]_healthVars

-----------------------------------------------------------------------------
(* Properties.                                                             *)

\* The durable mirror never widens the live window: no row, and no generation
\* hydrated from the rows, excludes the account or a model beyond a deadline
\* that a live failure applied, and every deadline is within the policy's cap.
MirrorNeverWidens ==
    /\ \A r \in TimedReasons, s \in Scopes : backoffs[r][s].until <= applied[s]
    /\ \A m \in HealthModels : entries[m].expiry <= applied[m]
    /\ \A g \in 1 .. MaxEpoch :
          /\ manager[g].cooldown_until <= applied[NoModel]
          /\ \A m \in HealthModels : manager[g].disabled_models[m] <= applied[m]
    /\ \A s \in Scopes : applied[s] <= clock + DelayCap

\* A credential rotation re-enables the account: a generation published with a
\* changed credential, which no request has seen rejected, does not start with
\* the account disabled for authentication.
RotationReleases == fresh => ~manager[epoch].auth
=============================================================================
