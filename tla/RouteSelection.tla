-------------------------- MODULE RouteSelection --------------------------
(***************************************************************************)
(* How the router picks an account for a request: the accounts the request *)
(* may use at all, their order by priority and load, and the rotor that    *)
(* turns an effectively tied band so that each of its members is served.   *)
(*                                                                         *)
(* A selection is one step: it holds selection_lock and awaits nothing     *)
(* else.  Account names are numbers in name order.  A score is an integer: *)
(* the tokens of the five-hour window, one per held claim.  The weekly and *)
(* monthly windows are left out, because nothing loads the snapshot they   *)
(* are read from.  Health, quarantine and catalog are modelled elsewhere   *)
(* and enter here as the reason, if any, why an account is not usable for  *)
(* a model at the moment.                                                  *)
(***************************************************************************)
EXTENDS Naturals, FiniteSets, Sequences, SequencesExt, TLC

CONSTANTS
    AccountCount,           \* the accounts are 1..AccountCount, in name order
    RouteModels,
    RouteProviders,
    RouteProtocols,
    Registry,               \* account -> its AccountIdentity
    Capability,             \* account -> what the catalog says of its thinking
    AnyProvider,            \* provider_id or protocol: None
    RouteRequests,          \* the routing facts requests come with
    HardCap,                \* local_quota_mode = "hard_cap"
    PreferNative,
    RouteCapacity,          \* request capacity under hard_cap
    NearTie,                \* near_tie_epsilon, in score units
    FAIRNESS_KEY_HARD_CAP,
    MAX_OBSERVATIONS,
    WindowLength,
    UsageSizes,             \* tokens a request may turn out to have used
    RecoveryInterval,
    MaxRouteTime,
    MaxHeld,                \* bounds the claims held at a time
    MaxBlocks,              \* bounds the reasons in force at a time
    MaxSelections

ASSUME RouteAssumption ==
    /\ AccountCount \in Nat \ {0}
    /\ FAIRNESS_KEY_HARD_CAP \in Nat \ {0}
    /\ MAX_OBSERVATIONS \in Nat \ {0}
    /\ NearTie \in Nat \ {0}
    /\ RouteRequests \subseteq
           [model: RouteModels, provider: RouteProviders \cup {AnyProvider},
            protocol: RouteProtocols \cup {AnyProvider},  \* requested_protocol
            transcode: SUBSET RouteProtocols, thinking: {"none", "plain", "effort"}]

VARIABLES
    unusable,       \* {<<account, model, reason>>}: health, quarantine, catalog
    held,           \* account -> claims held: active, pending or reserved
    window,         \* account -> five_hour_window
    rotor,          \* FairnessRotor: positions and their LRU order
    attempts,       \* recovery_attempt_at
    routeTime,
    rotation,       \* history: key -> the band and how often each was passed over
    selections      \* number of claims granted so far

routeVars == <<unusable, held, window, rotor, attempts, routeTime, rotation, selections>>

RouteAccounts == 1..AccountCount

\* "unhealthy": an open circuit, a cooldown, a quarantine or a stale catalog
\* entry; "no_model": the catalog has lost the model for the account.
RouteReasons == {"unhealthy", "no_model"}

NoWindow == [observations |-> <<>>, used |-> 0, last |-> 0]

RouteInit ==
    /\ unusable = {}
    /\ held = [a \in RouteAccounts |-> 0]
    /\ window = [a \in RouteAccounts |-> NoWindow]
    /\ rotor = [positions |-> <<>>, lru |-> <<>>]
    /\ attempts = <<>>
    /\ routeTime = 0
    /\ rotation = <<>>
    /\ selections = 0

--------------------------------------------------------------------------
\* The five-hour window of an account.

WindowTokens(observations) ==
    LET sum[n \in 0..Len(observations)] ==
            IF n = 0 THEN 0 ELSE sum[n - 1] + observations[n].tokens
    IN  sum[Len(observations)]

\* Drop the first n observations and take their tokens back out.
DropFront(w, n) ==
    [w EXCEPT !.observations = SubSeq(@, n + 1, Len(@)),
              !.used = @ - WindowTokens(SubSeq(w.observations, 1, n))]

\* Observations are in order of time, so the stale ones are a prefix.
PruneWindow(w, t) ==
    DropFront(w, Cardinality({i \in 1..Len(w.observations) :
                                w.observations[i].at + WindowLength < t}))

EnforceCap(w) ==
    LET n == Len(w.observations)
    IN  IF n > MAX_OBSERVATIONS THEN DropFront(w, n - MAX_OBSERVATIONS) ELSE w

\* An observation that arrives late is sorted in, and the sum is computed anew.
Rebuild(w, o) ==
    LET kept == SelectSeq(Append(w.observations, o), LAMBDA p : p.at + WindowLength >= w.last)
        sorted == SortSeq(kept, LAMBDA p, q : p.at < q.at)
    IN  [w EXCEPT !.observations = sorted, !.used = WindowTokens(sorted)]

AddObservation(w, o) ==
    IF o.at >= w.last
    THEN EnforceCap(PruneWindow([observations |-> Append(w.observations, o),
                           used |-> w.used + o.tokens, last |-> o.at], o.at))
    ELSE EnforceCap(Rebuild(w, o))

\* The tokens an account is charged with when it is scored.
WindowUsage(a) == PruneWindow(window[a], routeTime).used

--------------------------------------------------------------------------
\* Eligibility of an account for a request.

\* Unsupported, unknown and conflicting capabilities all reject by default;
\* an effort is only checked against a capability that says it takes one.
ThinkingExclusion(a, thinking) ==
    /\ thinking # "none"
    /\ \/ Capability[a].status # "supported"
       \/ thinking = "effort" /\ Capability[a].effort # "supported"

\* An account that cannot be asked in the requested protocol has to be
\* translated to, and only into a protocol the request allows.
RequiresTranscode(a, r) ==
    r.protocol # AnyProvider /\ Registry[a].protocol # r.protocol

ProtocolFits(a, r) ==
    RequiresTranscode(a, r) => Registry[a].protocol \in r.transcode

WithinLimits(a) == held[a] < RouteCapacity

Unavailable(a, m) == \E reason \in RouteReasons : <<a, m, reason>> \in unusable

candidate_for_account(a, r) ==
    /\ Registry[a].enabled
    /\ Registry[a].has_usable_credentials
    /\ r.provider \in {AnyProvider, Registry[a].provider}
    /\ ProtocolFits(a, r)
    /\ ~Unavailable(a, r.model)
    /\ ~ThinkingExclusion(a, r.thinking)
    /\ HardCap => WithinLimits(a)

FinalScores == [a \in RouteAccounts |-> WindowUsage(a) + held[a]]

\* Priority first, then load, then native accounts, then the name.
RanksBefore(a, b, r, score) ==
    LET p == Registry[a].priority
        q == Registry[b].priority
        native == PreferNative /\ RequiresTranscode(a, r) # RequiresTranscode(b, r)
    IN  IF p # q THEN p > q
        ELSE IF score[a] # score[b] THEN score[a] < score[b]
        ELSE IF native THEN ~RequiresTranscode(a, r)
        ELSE a < b

build_eligible_candidates(r, score) ==
    SortSeq(SelectSeq([i \in RouteAccounts |-> i], LAMBDA a : candidate_for_account(a, r)),
            LAMBDA a, b : RanksBefore(a, b, r, score))

--------------------------------------------------------------------------
\* The fairness rotor.

\* The rotor is keyed by what the best candidate was asked for and speaks.
FairnessKey(r, best) ==
    [provider |-> r.provider, model |-> r.model,
     protocol |-> Registry[best].protocol, priority |-> Registry[best].priority]

\* The candidates effectively tied with the best one.
Band(candidates, r, score) ==
    LET best == candidates[1]
    IN  SelectSeq(candidates, LAMBDA a :
            /\ Registry[a].priority = Registry[best].priority
            /\ PreferNative => (RequiresTranscode(a, r) = RequiresTranscode(best, r))
            /\ score[a] < score[best] + NearTie)

RotorPosition(key) == IF key \in DOMAIN rotor.positions THEN rotor.positions[key] ELSE 0

RotateLeft(s, n) ==
    LET k == n % Len(s) IN SubSeq(s, k + 1, Len(s)) \o SubSeq(s, 1, k)

\* Defect: the band is turned in the order of the scores, which changes with
\* every claim, and not in the order of the names.
order_by_score(key, band) == RotateLeft(band, RotorPosition(key))

order_named(key, band) ==
    RotateLeft(SortSeq(band, LAMBDA a, b : a < b), RotorPosition(key))

\* The key least recently committed makes room for a new one.
EvictedKeys(key) ==
    IF key \notin DOMAIN rotor.positions
       /\ Cardinality(DOMAIN rotor.positions) >= FAIRNESS_KEY_HARD_CAP
    THEN {Head(rotor.lru)} ELSE {}

commit_keyed(key) ==
    LET evicted == EvictedKeys(key)
        kept == (DOMAIN rotor.positions \ evicted) \cup {key}
    IN  [positions |-> [k \in kept |-> IF k = key THEN RotorPosition(key) + 1
                                                  ELSE rotor.positions[k]],
         lru |-> Append(SelectSeq(rotor.lru, LAMBDA k : k # key /\ k \notin evicted), key)]

--------------------------------------------------------------------------
\* Selection.

\* An enabled, healthy account the catalog lost for the model is looked up
\* again, at most once in an interval.
MissingSupport(r, excluded) ==
    {a \in RouteAccounts \ excluded :
        /\ Registry[a].enabled /\ Registry[a].has_usable_credentials
        /\ r.provider \in {AnyProvider, Registry[a].provider}
        /\ <<a, r.model, "unhealthy">> \notin unusable
        /\ <<a, r.model, "no_model">> \in unusable}

maybe_recover_missing_support(r, excluded) ==
    LET recent == {a \in DOMAIN attempts : routeTime - attempts[a] < RecoveryInterval}
        missing == MissingSupport(r, excluded)
    IN  IF missing = {} THEN attempts
        ELSE [a \in recent \cup missing |->
                IF a \in recent THEN attempts[a] ELSE routeTime]

\* What a selection does to the history: a member of an unchanged band that
\* was not selected has been passed over once more.
Turned(key, band, selected) ==
    LET same == key \in DOMAIN rotation /\ rotation[key].band = band
        before == [a \in band |-> IF same THEN rotation[key].passed[a] ELSE 0]
        kept == (DOMAIN rotation \ EvictedKeys(key)) \cup {key}
    IN  [k \in kept |->
            IF k = key
            THEN [band |-> band,
                  passed |-> [a \in band |-> IF a = selected THEN 0 ELSE before[a] + 1]]
            ELSE rotation[k]]

\* select_and_claim_with_preference: the claim may still be refused, by the
\* estimator or by the claim book, and the rotor is committed only after it
\* has been published.
Select(r, excluded, preferred) ==
    LET score == FinalScores
        candidates == SelectSeq(build_eligible_candidates(r, score), LAMBDA a :
                          a \notin excluded /\ a \in preferred)
    IN  /\ selections < MaxSelections
        /\ attempts' = maybe_recover_missing_support(r, excluded)
        /\ IF candidates = <<>>
           THEN UNCHANGED <<held, rotor, rotation, selections>>
           ELSE LET key == FairnessKey(r, candidates[1])
                    band == Band(candidates, r, score)
                    selected == IF Len(band) < 2 THEN candidates[1] ELSE order_named(key, band)[1]
                IN  /\ held[selected] < MaxHeld
                    /\ held' = [held EXCEPT ![selected] = @ + 1]
                    /\ selections' = selections + 1
                    /\ IF Len(band) < 2
                       THEN UNCHANGED <<rotor, rotation>>
                       ELSE /\ rotor' = commit_keyed(key)
                            /\ rotation' = Turned(key, Range(band), selected)
        /\ UNCHANGED <<unusable, window, routeTime>>

SelectAny ==
    \E r \in RouteRequests :
        \/ Select(r, {}, RouteAccounts)
        \/ \E a \in RouteAccounts : Select(r, {a}, RouteAccounts) \/ Select(r, {}, {a})

\* The request ends: record_usage, under a wall clock that may have been set
\* back, and the release of the claim.
Complete(a) ==
    /\ held[a] > 0
    /\ held' = [held EXCEPT ![a] = @ - 1]
    /\ \E tokens \in UsageSizes, back \in {0, 1} :
        /\ back <= routeTime
        /\ window' = [window EXCEPT ![a] =
                        AddObservation(@, [at |-> routeTime - back, tokens |-> tokens])]
    /\ UNCHANGED <<unusable, rotor, attempts, routeTime, rotation, selections>>

\* Health, quarantine or catalog change their mind about an account.
UsabilityChanges(a, m, reason) ==
    /\ unusable' = IF <<a, m, reason>> \in unusable THEN unusable \ {<<a, m, reason>>}
                                                    ELSE unusable \cup {<<a, m, reason>>}
    /\ Cardinality(unusable') <= MaxBlocks
    /\ UNCHANGED <<held, window, rotor, attempts, routeTime, rotation, selections>>

RouteClock ==
    /\ routeTime < MaxRouteTime
    /\ routeTime' = routeTime + 1
    /\ UNCHANGED <<unusable, held, window, rotor, attempts, rotation, selections>>

RouteNext ==
    \/ SelectAny
    \/ \E a \in RouteAccounts : Complete(a)
    \/ \E a \in RouteAccounts, m \in RouteModels, reason \in RouteReasons :
           UsabilityChanges(a, m, reason)
    \/ RouteClock

--------------------------------------------------------------------------
\* No member of a tied band starves: while the requests of one fairness key
\* find the same band, each member is selected at least once in as many
\* selections as the band has members, although claims and usage reorder the
\* scores in between and requests of other keys turn rotors of their own.
RotationServesAll ==
    \A key \in DOMAIN rotation : \A a \in rotation[key].band :
        rotation[key].passed[a] < Cardinality(rotation[key].band)
====
