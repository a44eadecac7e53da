--------------------------- MODULE SelectionClaims ---------------------------
(***************************************************************************)
(* Local ownership of one account: the claim book (routing/claim.rs), the  *)
(* pending and reserved counters of the quota estimator, the account's     *)
(* health and circuit breaker, and the requests that select, publish,      *)
(* record and release (routing/router.rs, coordinator/).                   *)
(*                                                                         *)
(* Every critical section (the book's mutex, the breaker's, the            *)
(* estimator's) is one action; a selection holds selection_lock over       *)
(* several.  The clock does not move inside a selection: its sections are  *)
(* synchronous, and recovery_timeout is 300 s.  The three counters of a    *)
(* claim (requests, tokens, cost) move together and are one.               *)
(*                                                                         *)
(* Of a failure's effects (coordinator/failure.rs) only two reach the      *)
(* account: a reason with a timed policy starts a cooldown, and a rejected *)
(* credential, whose policy has no delay, is counted by the breaker and    *)
(* disables the account.  enable_account, the only way back, has no        *)
(* caller.                                                                 *)
(***************************************************************************)
EXTENDS Integers, FiniteSets, Sequences

CONSTANTS
    failure_threshold,       \* failures in a row that open the breaker
    recovery_timeout,        \* time an open breaker waits before it probes
    success_threshold,       \* successes that close a half-open breaker
    Requests,                \* attempts, one claim each
    NoRequest,
    CLAIM_RECORD_HARD_CAP,   \* records the book retains
    Delays,                  \* the delays the backoff policies give
    MaxTime                  \* bound on the clock

ASSUME BreakerAssumption ==
    /\ failure_threshold \in Nat \ {0} /\ success_threshold \in Nat \ {0}
    /\ recovery_timeout \in Nat \ {0}

ASSUME ClaimsAssumption ==
    /\ NoRequest \notin Requests
    /\ CLAIM_RECORD_HARD_CAP \in Nat \ {0} /\ MaxTime \in Nat
    /\ Delays \subseteq Nat

VARIABLES
    breaker,       \* CircuitInner
    disabled,      \* AccountHealth.disabled_reason is set, for good
    cooldownUntil, \* AccountHealth.cooldown_until
    now,           \* the health manager's clock
    claims,        \* ClaimBook.claims, by the request that owns the claim
    terminalOrder, \* ClaimBook.terminal_order
    active,        \* ClaimBook.active_requests of the account
    pending,       \* QuotaEstimator.pending_requests
    reserved,      \* QuotaEstimator.reserved_requests
    pc,            \* where a request is
    selector,      \* who holds selection_lock
    before,        \* the state acquire_probe saw before it tried
    lastFailed     \* history: time of the last failure a closed breaker counted

accountVars == <<breaker, disabled, cooldownUntil>>
bookVars == <<claims, terminalOrder, active>>
quotaVars == <<pending, reserved>>
selectVars == <<selector, before>>
claimsVars == <<accountVars, now, bookVars, quotaVars, pc, selectVars, lastFailed>>

Claim == [state: {"Pending", "Converted", "Released", "RolledBack"},
          quota_released: BOOLEAN, converted: BOOLEAN, owns_probe: BOOLEAN]

Owned(c) == c.state \in {"Pending", "Converted"}

-----------------------------------------------------------------------------
(* The circuit breaker (health/circuit_breaker.rs) as operators on its     *)
(* state: each method locks, computes and unlocks.  probe_in_flight and    *)
(* probe_acquired_at are always written together and are one field, probe. *)
(* last_state_change is diagnostics only.                                  *)

\* Option::None of a time.
None == -1

CircuitInner == [state: {"Closed", "Open", "HalfOpen"},
                 failure_count: 0 .. failure_threshold,
                 success_count: 0 .. success_threshold,
                 last_failure_at: Nat \union {None},
                 probe: Nat \union {None}]

NewBreaker == [state |-> "Closed", failure_count |-> 0, success_count |-> 0,
               last_failure_at |-> None, probe |-> None]

RecoveryElapsed(b, t) ==
    b.last_failure_at # None /\ t - b.last_failure_at >= recovery_timeout

CanRequest(b, t) ==
    \/ b.state = "Closed"
    \/ b.state = "Open" /\ RecoveryElapsed(b, t)
    \/ b.state = "HalfOpen" /\ b.probe = None

\* allow_request takes an over-age probe back before it decides.
OverAge(b, t) == b.probe # None /\ t - b.probe > (IF recovery_timeout > 1 THEN recovery_timeout ELSE 1)

ReclaimProbe(b, t) == IF OverAge(b, t) THEN [b EXCEPT !.probe = None] ELSE b

\* What allow_request answers, and the breaker it leaves.
Allows(b, t) == CanRequest(ReclaimProbe(b, t), t)

AllowRequest(b, t) ==
    LET c == ReclaimProbe(b, t)
    IN  IF c.state # "Closed" /\ CanRequest(c, t)
        THEN [c EXCEPT !.state = "HalfOpen", !.probe = t] ELSE c

ReleaseProbe(b) == [b EXCEPT !.probe = None]

RecordSuccess(b) ==
    CASE b.state = "HalfOpen" ->
           IF b.success_count + 1 >= success_threshold
           THEN NewBreaker
           ELSE [b EXCEPT !.success_count = @ + 1, !.probe = None]
      [] b.state = "Closed" -> [b EXCEPT !.failure_count = 0]
      [] b.state = "Open" -> b

Opened(b, t) == [b EXCEPT !.state = "Open", !.last_failure_at = t]

RecordFailure(b, t) ==
    CASE b.state = "HalfOpen" ->
           [Opened(b, t) EXCEPT !.failure_count = failure_threshold,
                                  !.success_count = 0, !.probe = None]
      [] b.state = "Closed" ->
           LET stale == b.last_failure_at # None
                          /\ t - b.last_failure_at > recovery_timeout
               c == [b EXCEPT !.failure_count = IF stale THEN 1 ELSE @ + 1]
           IN  IF c.failure_count >= failure_threshold THEN Opened(c, t) ELSE c
      [] b.state = "Open" -> b

-----------------------------------------------------------------------------
(* Claims.                                                                 *)

(* select_and_claim_with_preference.                                       *)

EffectivelyHealthy == ~disabled /\ now >= cooldownUntil

\* probe_available_read_only; without it the candidate is dropped.
SelectCheck(r) ==
    /\ pc[r] = "idle" /\ selector = NoRequest
    /\ EffectivelyHealthy /\ CanRequest(breaker, now)
    /\ selector' = r
    /\ pc' = [pc EXCEPT ![r] = "checked"]
    /\ UNCHANGED <<accountVars, now, bookVars, quotaVars, before, lastFailed>>

\* acquire_probe reads the state first, in a critical section of its own.
SelectSnapshot(r) ==
    /\ pc[r] = "checked"
    /\ before' = breaker.state
    /\ pc' = [pc EXCEPT ![r] = "snapshot"]
    /\ UNCHANGED <<accountVars, now, bookVars, quotaVars, selector, lastFailed>>

\* try_acquire_request, then add_pending_claim.
SelectAcquire(r) ==
    /\ pc[r] = "snapshot"
    /\ breaker' = IF EffectivelyHealthy THEN AllowRequest(breaker, now) ELSE breaker
    /\ IF EffectivelyHealthy /\ Allows(breaker, now)
       THEN /\ pending' = pending + 1
            /\ pc' = [pc EXCEPT ![r] = "acquired"]
            /\ UNCHANGED selector
       ELSE /\ pc' = [pc EXCEPT ![r] = "idle"]
            /\ selector' = NoRequest
            /\ UNCHANGED pending
    /\ UNCHANGED <<disabled, cooldownUntil, now, bookVars, reserved, before, lastFailed>>

Releasable(c) == ~Owned(c) /\ (c.quota_released \/ ~c.converted)

\* prune_terminal_claims: while the book is over the cap, the oldest record
\* goes if it is releasable and to the back of the order if it is not.  A
\* position is visited while fewer releasable records precede it than the
\* book has too many.
Visited(records, order) ==
    {k \in DOMAIN order :
       Cardinality({j \in 1 .. (k - 1) : Releasable(records[order[j]])})
         < Cardinality(DOMAIN records) - CLAIM_RECORD_HARD_CAP}

PrunedRecords(records, order) ==
    {id \in DOMAIN records : /\ Releasable(records[id])
                             /\ \E k \in Visited(records, order) : order[k] = id}

Prune(records, order) ==
    LET visited == Cardinality(Visited(records, order))
        Owed(id) == ~Releasable(records[id])
    IN  [claims |-> [id \in DOMAIN records \ PrunedRecords(records, order) |-> records[id]],
         order |-> SubSeq(order, visited + 1, Len(order))
                     \o SelectSeq(SubSeq(order, 1, visited), Owed)]

\* The book after its records are updated and pruned.
UpdateBook(records) ==
    LET book == Prune(records, terminalOrder)
    IN  claims' = book.claims /\ terminalOrder' = book.order

OwnsProbe == before # "Closed"

NewClaim == [state |-> "Pending", quota_released |-> FALSE, converted |-> FALSE,
             owns_probe |-> OwnsProbe]

\* publish; a refusal is compensated before the error is returned.
SelectPublish(r) ==
    /\ pc[r] = "acquired"
    /\ LET book == Prune(claims, terminalOrder)
       IN  IF Cardinality(DOMAIN book.claims) >= CLAIM_RECORD_HARD_CAP
           THEN /\ claims' = book.claims /\ terminalOrder' = book.order
                /\ pending' = pending - 1
                /\ breaker' = IF OwnsProbe THEN ReleaseProbe(breaker) ELSE breaker
                /\ pc' = [pc EXCEPT ![r] = "refused"]
                /\ UNCHANGED active
           ELSE /\ claims' = [q \in DOMAIN book.claims \union {r} |->
                               IF q = r THEN NewClaim ELSE book.claims[q]]
                /\ terminalOrder' = Append(book.order, r)
                /\ active' = active + 1
                /\ pc' = [pc EXCEPT ![r] = "claimed"]
                /\ UNCHANGED <<pending, breaker>>
    /\ selector' = NoRequest /\ before' = "Closed"
    /\ UNCHANGED <<disabled, cooldownUntil, now, reserved, lastFailed>>

-----------------------------------------------------------------------------
(* SelectionClaim.  Every transition of a claim is idempotent.             *)

DropProbe(r) == IF claims[r].owns_probe THEN ReleaseProbe(breaker) ELSE breaker

\* rollback_claim: the attempt is given up before its publication commits.
RollbackClaim(r) ==
    /\ pc[r] = "claimed"
    /\ claims[r].state = "Pending"
    /\ pending' = pending - 1
    /\ active' = active - 1
    /\ breaker' = DropProbe(r)
    /\ UpdateBook([claims EXCEPT ![r].state = "RolledBack"])
    /\ pc' = [pc EXCEPT ![r] = "rolledBack"]
    /\ UNCHANGED <<disabled, cooldownUntil, now, reserved, selectVars, lastFailed>>

\* Defect: the claim changes its state and not its conversion bit.
Converted_unmarked(c) == [c EXCEPT !.state = "Converted"]

Converted(c) == [c EXCEPT !.state = "Converted", !.converted = TRUE]

\* convert_claim_after_durable_publication.
ConvertClaim(r) ==
    /\ pc[r] = "claimed"
    /\ claims[r].state = "Pending"
    /\ pending' = pending - 1
    /\ reserved' = reserved + 1
    /\ claims' = [claims EXCEPT ![r] = Converted(@)]
    /\ pc' = [pc EXCEPT ![r] = "sent"]
    /\ UNCHANGED <<accountVars, now, terminalOrder, active, selectVars, lastFailed>>

\* record_success: it ends a cooldown that has run out, never one that has
\* not.
ClearedCooldown == IF ~disabled /\ cooldownUntil <= now THEN 0 ELSE cooldownUntil

SuccessEffects ==
    /\ breaker' = RecordSuccess(breaker)
    /\ cooldownUntil' = ClearedCooldown
    /\ UNCHANGED <<disabled, lastFailed>>

\* apply_failure_effects of a reason with a timed policy: record_cooldown.
CooldownEffects ==
    /\ \E d \in Delays : cooldownUntil' = IF now + d > cooldownUntil THEN now + d ELSE cooldownUntil
    /\ UNCHANGED <<breaker, disabled, lastFailed>>

\* Of a rejected credential: record_failure.
CredentialEffects ==
    /\ breaker' = RecordFailure(breaker, now)
    /\ lastFailed' = IF breaker.state = "Closed" THEN now ELSE lastFailed
    /\ disabled' = TRUE
    /\ UNCHANGED cooldownUntil

\* The outcome reaches the account's health before the claim is handed over
\* for finalization; a failure that is not the account's has no effect.
RecordOutcome(r) ==
    /\ pc[r] = "sent"
    /\ \/ SuccessEffects
       \/ CooldownEffects
       \/ CredentialEffects
       \/ UNCHANGED <<accountVars, lastFailed>>
    /\ pc' = [pc EXCEPT ![r] = "recorded"]
    /\ UNCHANGED <<now, bookVars, quotaVars, selectVars>>

\* The handler's future is dropped: a claim has no drop side effects.
Abandon(r) ==
    /\ pc[r] \in {"sent", "recorded"}
    /\ pc' = [pc EXCEPT ![r] = "gone"]
    /\ UNCHANGED <<accountVars, now, bookVars, quotaVars, selectVars, lastFailed>>

AlreadyReleased(r) == ~Owned(claims[r])

\* A release of a record the book no longer has fails with UnknownAccount.
Known(r) == r \in DOMAIN claims

\* release_active_claim; a retried finalization calls it again.
ReleaseActiveClaim(r) ==
    /\ pc[r] \in {"recorded", "released", "done"}
    /\ IF ~Known(r) \/ AlreadyReleased(r)
       THEN UNCHANGED <<claims, terminalOrder, active, pending, breaker>>
       ELSE /\ pending' = IF claims[r].state = "Pending" THEN pending - 1 ELSE pending
            /\ active' = active - 1
            /\ breaker' = DropProbe(r)
            /\ UpdateBook([claims EXCEPT ![r].state = "Released"])
    /\ pc' = [pc EXCEPT ![r] = IF @ = "recorded" THEN "released" ELSE @]
    /\ UNCHANGED <<disabled, cooldownUntil, now, reserved, selectVars, lastFailed>>

\* release_quota_reservation follows, with a bit of its own.
ReleaseQuotaReservation(r) ==
    /\ pc[r] \in {"released", "done"}
    /\ IF ~Known(r) \/ claims[r].quota_released \/ ~claims[r].converted
       THEN UNCHANGED <<claims, reserved>>
       ELSE /\ reserved' = reserved - 1
            /\ claims' = [claims EXCEPT ![r].quota_released = TRUE]
    /\ pc' = [pc EXCEPT ![r] = "done"]
    /\ UNCHANGED <<accountVars, now, terminalOrder, active, pending, selectVars, lastFailed>>

-----------------------------------------------------------------------------

Tick ==
    /\ now < MaxTime /\ selector = NoRequest
    /\ now' = now + 1
    /\ UNCHANGED <<accountVars, bookVars, quotaVars, pc, selectVars, lastFailed>>

ClaimsInit ==
    /\ breaker = NewBreaker /\ disabled = FALSE /\ cooldownUntil = 0
    /\ now = 0
    /\ claims = <<>> /\ terminalOrder = <<>> /\ active = 0
    /\ pending = 0 /\ reserved = 0
    /\ pc = [r \in Requests |-> "idle"]
    /\ selector = NoRequest /\ before = "Closed"
    /\ lastFailed = None

ClaimsNext ==
    \/ \E r \in Requests :
         \/ SelectCheck(r) \/ SelectSnapshot(r) \/ SelectAcquire(r) \/ SelectPublish(r)
         \/ RollbackClaim(r) \/ ConvertClaim(r) \/ RecordOutcome(r) \/ Abandon(r)
         \/ ReleaseActiveClaim(r) \/ ReleaseQuotaReservation(r)
    \/ Tick

ClaimsSpec == ClaimsInit /\ [][ClaimsNext]_claimsVars

-----------------------------------------------------------------------------
(* Properties.                                                             *)

\* The breaker, the book and the counters have their types; no counter goes
\* below zero, so no ownership underflow error is ever returned.
ClaimsTypeOK ==
    /\ breaker \in CircuitInner /\ disabled \in BOOLEAN /\ cooldownUntil \in Nat
    /\ now \in 0 .. MaxTime
    /\ DOMAIN claims \subseteq Requests /\ \A r \in DOMAIN claims : claims[r] \in Claim
    /\ {terminalOrder[k] : k \in DOMAIN terminalOrder} = DOMAIN claims
    /\ {active, pending, reserved} \subseteq Nat
    /\ pc \in [Requests -> {"idle", "checked", "snapshot", "acquired", "refused",
                           "claimed", "sent", "recorded", "released", "done", "rolledBack", "gone"}]
    /\ selector \in Requests \union {NoRequest}
    /\ before \in {"Closed", "Open", "HalfOpen"}
    /\ lastFailed \in Nat \union {None}

ClaimsIn(states) == {r \in DOMAIN claims : claims[r].state \in states}

\* The three counters routing and admission read are exactly what the claims
\* of the book own, although they live behind three locks, releases are
\* retried and a refused publication is compensated.
CountersMatchClaims ==
    /\ active = Cardinality(ClaimsIn({"Pending", "Converted"}))
    /\ pending = Cardinality(ClaimsIn({"Pending"}))
                   + Cardinality({r \in Requests : pc[r] = "acquired"})
    /\ reserved = Cardinality({r \in DOMAIN claims :
                     claims[r].converted /\ ~claims[r].quota_released})

\* What opens the breaker also disables the account, whichever outcomes of
\* older requests arrive later and in which order: behind the router no
\* breaker recovers, so no probe slot is ever taken.
OpenMeansDisabled ==
    breaker.state # "Closed" => breaker.state = "Open" /\ disabled

\* A success that was under way when a provider asked for a backoff does not
\* re-admit the account before the backoff ends.
CooldownIsServed == [][cooldownUntil' < cooldownUntil => cooldownUntil <= now]_claimsVars

\* The book keeps every record that something still has to be released from,
\* and never more records than its cap.
OwedRecordsAreKept ==
    /\ Cardinality(DOMAIN claims) <= CLAIM_RECORD_HARD_CAP
    /\ \A r \in Requests : pc[r] \in {"claimed", "sent", "recorded", "released", "gone"}
                              => Known(r)

\* "Decay stale failures: without this, failures hours ago still count toward
\* the threshold alongside a fresh one" (circuit_breaker.rs:278): a closed
\* breaker that tolerates one failure is not opened by a failure whose
\* predecessor is older than the recovery timeout.
StaleFailuresDecay ==
    [][breaker.state = "Closed" /\ breaker'.state = "Open" /\ failure_threshold > 1
         => now - lastFailed <= recovery_timeout]_claimsVars

\* "prune what is releasable, then refuse rather than grow" (claim.rs:469):
\* publish refuses only when no record of the book is releasable.
RefusedOnlyWhenOwed ==
    [][\A r \in Requests : pc[r] = "acquired" /\ pc'[r] = "refused" =>
         \A q \in DOMAIN claims : ~Releasable(claims[q])]_claimsVars
=============================================================================
