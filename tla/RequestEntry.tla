----------------------------- MODULE RequestEntry -----------------------------
(***************************************************************************)
(* What happens to an inference request before it is routed: it is         *)
(* admitted, and its body is dispatched to a coordinator.                  *)
(*                                                                         *)
(* Admission of inference requests (rust/src/request/admission_fairness.rs,*)
(* rust/src/request/resource_budget.rs and admit_inference_body in         *)
(* rust/src/server/middleware.rs): token buckets per principal and for the *)
(* instance in a table of bounded size, then the process-wide budget of    *)
(* raw body bytes, reserved while the body arrives.                        *)
(*                                                                         *)
(* A bucket of `capacity` requests per WINDOW ticks holds tokens in units  *)
(* of 1/WINDOW request, which makes the code's f64 arithmetic exact.       *)
(* Instants are kept as ages: updated_at and last_seen are always equal,   *)
(* so one age per bucket stands for both.                                  *)
(*                                                                         *)
(* From a parsed request body to the coordinator that executes it          *)
(* (rust/src/coordinator/endpoints.rs, semantic.rs; compiled routers of    *)
(* crates/eggpool-model-routing): the model named in the body is checked   *)
(* against the user's policy, a provider qualifier is split off, and the   *)
(* alias of a model router is resolved to one of its routes by a selector  *)
(* model, with one repair, a timeout, a default route and session affinity.*)
(*                                                                         *)
(* A call leases one generation and keeps its router; a reload may publish *)
(* another router for the alias meanwhile.  The affinity cache and its     *)
(* flights belong to the process and are shared by the generations; their  *)
(* bounds and expiry are ModelRouterAffinity's.  A model reference is a    *)
(* record of model and provider qualifier.  Names are as the registry      *)
(* accepts them: no route and no selector is an alias.                     *)
(***************************************************************************)
EXTENDS Naturals, Sequences, FiniteSets, FiniteSetsExt, Functions

CONSTANTS
    Principals,
    capacity,                 \* requests_per_minute_per_principal
    global_capacity,          \* global_requests_per_minute
    max_tracked_principals,
    WINDOW,                   \* 60 s, in ticks
    STALE_AFTER,              \* 120 s, in ticks
    Bodies,                   \* requests that were admitted and send a body
    INITIAL_RESERVATION,      \* 32 KiB, in chunks
    BodyLimit,                \* max_request_body_bytes, in chunks
    Ceiling                   \* effective_ceiling, in chunks

\* A bucket that is forgotten has been idle for a whole window.
ASSUME AdmissionAssumption ==
    /\ {WINDOW, STALE_AFTER, max_tracked_principals, capacity, global_capacity} \subseteq Nat \ {0}
    /\ STALE_AFTER >= WINDOW

VARIABLES
    buckets,   \* LimiterState.principals: tokens and age of each tracked bucket
    global,    \* LimiterState.global
    ideal,     \* history: the tokens a bucket nobody ever forgets would hold
    inUse,     \* IN_USE_RAW_BODY_BYTES
    body       \* each body: chunks collected and reserved, or how it ended

admissionVars == <<buckets, global, ideal, inUse, body>>

-----------------------------------------------------------------------------
Bucket(tokens, age) == [tokens |-> tokens, age |-> age]

NoBody == [collected |-> 0, amount |-> 0, live |-> FALSE]

AdmissionInit ==
    /\ buckets = [p \in {} |-> Bucket(0, 0)]
    /\ global = Bucket(global_capacity * WINDOW, 0)
    /\ ideal = [p \in Principals |-> capacity * WINDOW]
    /\ inUse = 0
    /\ body = [b \in Bodies |-> NoBody]

AtMost(n, limit) == Min({n, limit})

\* Bucket::refill, over the age of the bucket.
Refilled(bucket, cap) == AtMost(bucket.tokens + bucket.age * cap, cap * WINDOW)

\* Defect: an idle bucket is stale after one tick.
IsStaleEarly(bucket) == bucket.age >= 1

\* A bucket not used for STALE_AFTER may be forgotten.
IsStale(bucket) == bucket.age >= STALE_AFTER

StaleBuckets == {p \in DOMAIN buckets : IsStale(buckets[p])}

\* min_by_key: the longest unused stale bucket.
OldestStale ==
    CHOOSE p \in StaleBuckets : \A q \in StaleBuckets : buckets[p].age >= buckets[q].age

\* The table once there is room for p, or {} when no bucket may be forgotten.
TableFull(p) ==
    p \notin DOMAIN buckets /\ Cardinality(DOMAIN buckets) >= max_tracked_principals

Room(p) ==
    IF TableFull(p) THEN Restrict(buckets, DOMAIN buckets \ {OldestStale})
    ELSE buckets

\* The refilled copy of p's bucket; a principal without one starts full.
TokensOf(p) ==
    IF p \in DOMAIN buckets THEN Refilled(buckets[p], capacity) ELSE capacity * WINDOW

\* admit_at: refused without touching any bucket, except that a stale one may
\* have been dropped from the full table already.
Limited(p) ==
    /\ IF TableFull(p) /\ StaleBuckets = {} THEN UNCHANGED buckets
       ELSE /\ TokensOf(p) < WINDOW \/ Refilled(global, global_capacity) < WINDOW
            /\ buckets' = Room(p)
    /\ UNCHANGED <<global, ideal, inUse, body>>

\* admit_at: one request is taken from both buckets.
Admit(p) ==
    /\ TableFull(p) => StaleBuckets # {}
    /\ TokensOf(p) >= WINDOW /\ Refilled(global, global_capacity) >= WINDOW
    /\ buckets' = [q \in DOMAIN Room(p) \union {p} |->
                      IF q = p THEN Bucket(TokensOf(p) - WINDOW, 0) ELSE buckets[q]]
    /\ global' = Bucket(Refilled(global, global_capacity) - WINDOW, 0)
    /\ ideal' = [ideal EXCEPT ![p] = IF @ >= WINDOW THEN @ - WINDOW ELSE 0]
    /\ UNCHANGED <<inUse, body>>

\* Time passes; ages above STALE_AFTER no longer differ.
AdmissionTick ==
    /\ buckets' = [p \in DOMAIN buckets |->
                      [buckets[p] EXCEPT !.age = AtMost(@ + 1, STALE_AFTER)]]
    /\ global' = [global EXCEPT !.age = AtMost(@ + 1, STALE_AFTER)]
    /\ ideal' = [p \in Principals |-> AtMost(ideal[p] + capacity, capacity * WINDOW)]
    /\ UNCHANGED <<inUse, body>>

-----------------------------------------------------------------------------
(* The raw body budget.                                                    *)

\* try_acquire, with the declared length or without one.
BeginBody(b, declared) ==
    LET amount == AtMost(declared, INITIAL_RESERVATION)
    IN  /\ ~body[b].live
        /\ declared <= BodyLimit
        /\ inUse + amount <= Ceiling
        /\ inUse' = inUse + amount
        /\ body' = [body EXCEPT ![b] = [collected |-> 0, amount |-> amount, live |-> TRUE]]
        /\ UNCHANGED <<buckets, global, ideal>>

\* try_grow and the accounted total: the reservation covers the collected body.
Grown(entry, total) ==
    [entry EXCEPT !.collected = total, !.amount = Max({@, total})]

\* A frame arrives and fits the limit and the budget.
Collect(b) ==
    LET total == body[b].collected + 1
        need == IF total > body[b].amount THEN total - body[b].amount ELSE 0
    IN  /\ body[b].live
        /\ total <= BodyLimit
        /\ inUse + need <= Ceiling
        /\ inUse' = inUse + need
        /\ body' = [body EXCEPT ![b] = Grown(@, total)]
        /\ UNCHANGED <<buckets, global, ideal>>

\* Drop of the reservation: the handler answered, the body was too large, the
\* budget was exhausted or the client left.
EndBody(b) ==
    /\ body[b].live
    /\ inUse' = inUse - body[b].amount
    /\ body' = [body EXCEPT ![b] = NoBody]
    /\ UNCHANGED <<buckets, global, ideal>>

AdmissionNext ==
    \/ \E p \in Principals : Limited(p) \/ Admit(p)
    \/ AdmissionTick
    \/ \E b \in Bodies :
          \/ \E declared \in 0 .. BodyLimit : BeginBody(b, declared)
          \/ Collect(b) \/ EndBody(b)

AdmissionSpec == AdmissionInit /\ [][AdmissionNext]_admissionVars

-----------------------------------------------------------------------------
(* Properties.                                                             *)

\* Forgetting stale buckets never gives a principal requests it is not due:
\* every tracked bucket holds exactly what an unbounded table would, and one
\* that is not tracked would be full.  The table never outgrows its bound.
ForgettingIsFree ==
    /\ Cardinality(DOMAIN buckets) <= max_tracked_principals
    /\ \A p \in Principals : TokensOf(p) = ideal[p]

\* The process-wide counter is the sum of the live reservations, each of which
\* covers the bytes collected so far; so bodies in memory never exceed the
\* ceiling, and nothing is left reserved when none is.
BodyBudgetIsExact ==
    /\ inUse = MapThenSumSet(LAMBDA b : body[b].amount, Bodies)
    /\ inUse <= Ceiling
    /\ \A b \in Bodies : body[b].collected <= body[b].amount

-----------------------------------------------------------------------------
(* Dispatch.                                                               *)

CONSTANTS
    DispatchCalls,
    RouteSessions,   \* session identities, from the header or the conversation
    NoIdentity,
    Alias,           \* the virtual model id
    Routers,         \* CompiledModelRouter: selector, default, routes, sticky, repair
    NoRouter,        \* the alias is not configured
    Asked,           \* what a client may put in "model", besides the alias
    Qualified,       \* model policies: sets of references a user may use
    NoQualifier,
    NoFlying,
    MaxSwaps

\* The routes of a compiled router are in order, and its default is one of
\* them (policy.rs refuses any other).
ASSUME DispatchAssumption ==
    /\ NoFlying \notin DispatchCalls
    /\ \A r \in Routers :
          /\ Len(r.routes) \in Nat /\ DOMAIN r.routes = 1..Len(r.routes)
          /\ \E i \in DOMAIN r.routes : r.routes[i] = r.default

VARIABLES
    registry,    \* the router the current generation has for the alias
    swaps,       \* reloads so far
    decisions,   \* affinity entries: key, route id and model
    flying,      \* key -> the leader of its flight
    published,   \* the watch channel of the flight a call leads
    dispatch     \* what each call awaits and what it has resolved

dispatchVars == <<registry, swaps, decisions, flying, published, dispatch>>

-----------------------------------------------------------------------------
Unqualified(ref) == [ref EXCEPT !.provider = NoQualifier]

AliasRef == [model |-> Alias, provider |-> NoQualifier]

Undecided == [id |-> 0, model |-> AliasRef]

Arriving ==
    [at |-> "arrives", kind |-> "generate", asked |-> AliasRef, router |-> NoRouter,
     session |-> NoIdentity, policy |-> {}, joined |-> NoFlying, tries |-> 0,
     target |-> AliasRef, outcome |-> "none"]

DispatchInit ==
    /\ registry \in Routers \cup {NoRouter}
    /\ swaps = 0
    /\ decisions = {}
    /\ flying = [k \in Routers \X RouteSessions |-> NoFlying]
    /\ published = [c \in DispatchCalls |-> [news |-> "pending", decision |-> Undecided]]
    /\ dispatch = [c \in DispatchCalls |-> Arriving]

\* A reload publishes a generation with another registry, or with none.
PublishGeneration ==
    /\ swaps < MaxSwaps
    /\ registry' \in (Routers \cup {NoRouter}) \ {registry}
    /\ swaps' = swaps + 1
    /\ UNCHANGED <<decisions, flying, published, dispatch>>

\* Kinds of call, by the functions that execute them; "generate" is a finite or
\* a streaming execution.
Kinds == {"generate", "compact", "embedding"}

\* What can be wrong with a body before its model is resolved.
EarlyErrors(kind) ==
    {"InvalidJson", "BodyTooLarge", "MissingModel"}
        \cup CASE kind = "compact" -> {"StatelessViolation", "InvalidStream", "Admission"}
               [] kind = "embedding" -> {"InvalidEmbeddingRequest", "Admission"}
               [] OTHER -> {"InvalidStream"}

Leased(c, kind) ==
    [dispatch[c] EXCEPT !.kind = kind, !.router = registry]

\* EndpointError::status, by what the client can do about it.
Status(error) ==
    CASE error = "executed" -> "executed"
      [] error = "RouteMismatch" -> "RouteMismatch"
      [] error \in {"PrincipalChanged", "ModelForbidden"} -> "denied"
      [] error \in {"BudgetExceeded", "BudgetNotEnforceable"} -> "limited"
      [] error \in {"NoEligibleRoute", "Attempt"} -> "unavailable"
      [] error \in {"RemoteCompactionUnsupported", "EmbeddingsUnsupported"} -> "unsupported"
      [] error \in {"Claim", "Finalization", "MissingProvider", "MissingWireProfile",
                    "Internal"} -> "internal"
      [] error = "PublicationConflict" -> "conflict"
      [] OTHER -> "bad request"

\* A call that is over keeps only what its client sees.
Ends(call, error) ==
    [Arriving EXCEPT !.at = "ended", !.outcome = IF error = "dropped" THEN error ELSE Status(error)]

ParseFails(c) ==
    /\ dispatch[c].at = "arrives"
    /\ \E kind \in Kinds : \E error \in EarlyErrors(kind) :
        dispatch' = [dispatch EXCEPT ![c] = Ends(Leased(c, kind), error)]
    /\ UNCHANGED <<registry, swaps, decisions, flying, published>>

\* execute_endpoint_attributed, execute_compact_finite_attributed: the parsed
\* body goes to resolve_concrete, which reads the user's policy first.
ReceiveGenerate(c, kind) ==
    /\ kind # "embedding"
    /\ dispatch[c].at = "arrives"
    /\ \E ref \in Asked \cup {AliasRef}, s \in RouteSessions \cup {NoIdentity} :
        dispatch' = [dispatch EXCEPT ![c] =
            [Leased(c, kind) EXCEPT !.at = "policy", !.asked = ref, !.session = s]]
    /\ UNCHANGED <<registry, swaps, decisions, flying, published>>

\* execute_embeddings_attributed refuses an alias and carries no session.
ReceiveEmbedding(c) ==
    /\ dispatch[c].at = "arrives"
    /\ \E ref \in Asked \cup {AliasRef} :
        dispatch' = [dispatch EXCEPT ![c] =
            IF ref = AliasRef /\ registry # NoRouter
            THEN Ends(Leased(c, "embedding"), "EmbeddingAliasUnsupported")
            ELSE [Leased(c, "embedding") EXCEPT !.at = "policy", !.asked = ref]]
    /\ UNCHANGED <<registry, swaps, decisions, flying, published>>

-----------------------------------------------------------------------------
Submits(call, ref) == [call EXCEPT !.at = "admits", !.target = ref]

ModelAllowed(call, ref) == ref \in call.policy

\* valid_cached_target: the decision names a route of the call's own router.
ValidTarget(call, d) ==
    d.id \in DOMAIN call.router.routes /\ call.router.routes[d.id] = d.model

\* finish_virtual_resolution, then the policy on the model that is dispatched:
\* the route's name without its provider.
FinishVirtual(call, decision) ==
    IF ~ValidTarget(call, decision)
    THEN Ends(call, "RouteMismatch")
    ELSE IF ~ModelAllowed(call, Unqualified(decision.model))
         THEN Ends(call, "ModelForbidden")
         ELSE Submits(call, decision.model)

Becomes(c, call) == dispatch' = [dispatch EXCEPT ![c] = call]

\* Defect: the key leaves the router's fingerprint out.
KeyOfSession(call) == <<CHOOSE r \in Routers : TRUE, call.session>>

\* ModelRouterAffinity::key.  The fingerprint hashes every field of the router.
AffinityKey(call) == <<call.router, call.session>>

\* select and select_inner, up to the selector's first answer.
Selecting(call) == [call EXCEPT !.at = "selector", !.tries = 1, !.joined = NoFlying]

Cached(call) == {d \in decisions : d.key = AffinityKey(call)}

\* ModelRouterAffinity::resolve for a sticky router: a hit is finished at once
\* (an entry that names no route of this router is dropped),
\* a flight is joined, or the call leads one.
ResolveSticky(c, call) ==
    LET key == AffinityKey(call)
        hits == {d \in Cached(call) : ValidTarget(call, d)}
    IN  IF hits # {}
        THEN /\ \E d \in hits : Becomes(c, FinishVirtual(call, [id |-> d.id, model |-> d.model]))
             /\ UNCHANGED <<decisions, flying>>
        ELSE /\ decisions' = decisions \ Cached(call)
             /\ IF flying[key] # NoFlying
                THEN /\ Becomes(c, [call EXCEPT !.at = "waits", !.joined = flying[key]])
                     /\ UNCHANGED flying
                ELSE /\ flying' = [flying EXCEPT ![key] = c]
                     /\ Becomes(c, Selecting(call))

Sticky(call) == call.router.sticky /\ call.session # NoIdentity

\* resolve_concrete and resolve_virtual, from the policy snapshot on.
Resolve(c, call) ==
    IF ~ModelAllowed(call, call.asked)
    THEN Becomes(c, Ends(call, "ModelForbidden")) /\ UNCHANGED <<decisions, flying>>
    ELSE IF call.asked # AliasRef \/ call.router = NoRouter
    THEN Becomes(c, Submits(call, call.asked)) /\ UNCHANGED <<decisions, flying>>
    ELSE IF ~ModelAllowed(call, call.router.selector)
    THEN Becomes(c, Ends(call, "ModelForbidden")) /\ UNCHANGED <<decisions, flying>>
    ELSE IF Sticky(call)
    THEN ResolveSticky(c, call)
    ELSE Becomes(c, Selecting(call)) /\ UNCHANGED <<decisions, flying>>

PolicyRead(c) ==
    /\ dispatch[c].at = "policy"
    /\ \E p \in Qualified : Resolve(c, [dispatch[c] EXCEPT !.policy = p])
    /\ UNCHANGED <<registry, swaps, published>>

\* The user is gone, or the snapshot cannot be read.
PolicyFails(c) ==
    /\ dispatch[c].at = "policy"
    /\ \E error \in {"PrincipalChanged", "Internal"} : Becomes(c, Ends(dispatch[c], error))
    /\ UNCHANGED <<registry, swaps, decisions, flying, published>>

-----------------------------------------------------------------------------
Leads(c) ==
    Sticky(dispatch[c]) /\ flying[AffinityKey(dispatch[c])] = c

Cache(key, decision) ==
    decisions' = {d \in decisions : d.key # key}
                     \cup {[key |-> key, id |-> decision.id, model |-> decision.model]}

\* The selector has decided: a leader stores, unregisters and publishes.
Decided(c, decision) ==
    LET call == dispatch[c]
        key == AffinityKey(call)
    IN  /\ Becomes(c, FinishVirtual(call, decision))
        /\ IF Leads(c)
           THEN /\ Cache(key, decision)
                /\ flying' = [flying EXCEPT ![key] = NoFlying]
                /\ published' = [published EXCEPT ![c] = [news |-> "Succeeded", decision |-> decision]]
           ELSE UNCHANGED <<decisions, flying, published>>
        /\ UNCHANGED <<registry, swaps>>

RouteOf(call, id) == [id |-> id, model |-> call.router.routes[id]]

\* default_route: the first route with the default model.
DefaultRoute(call) ==
    RouteOf(call, CHOOSE i \in DOMAIN call.router.routes :
        /\ call.router.routes[i] = call.router.default
        /\ \A j \in 1..(i - 1) : call.router.routes[j] # call.router.default)

\* parse_route_id: of all answers exactly the ids of compiled routes are accepted.
RouteIds(call) == DOMAIN call.router.routes

SelectorChooses(c) ==
    /\ dispatch[c].at = "selector"
    /\ \E id \in RouteIds(dispatch[c]) : Decided(c, RouteOf(dispatch[c], id))

\* execute_selector fails (no budget for its body, not admitted, not dispatched),
\* or the selector's status is outside 2xx.
SelectorUnavailable(c) ==
    /\ dispatch[c].at = "selector"
    /\ Decided(c, DefaultRoute(dispatch[c]))

\* The timeout covers both calls; the call in progress is dropped.
SelectorTimesOut(c) ==
    /\ dispatch[c].at = "selector"
    /\ Decided(c, DefaultRoute(dispatch[c]))

\* A 2xx answer that is no route id is repaired once.
SelectorInvalid(c) ==
    /\ dispatch[c].at = "selector"
    /\ IF dispatch[c].router.repair > 0 /\ dispatch[c].tries = 1
       THEN /\ Becomes(c, [dispatch[c] EXCEPT !.tries = 2])
            /\ UNCHANGED <<registry, swaps, decisions, flying, published>>
       ELSE Decided(c, DefaultRoute(dispatch[c]))

\* A follower returns its flight's decision, or looks again after an abort.
FollowerHears(c) ==
    /\ dispatch[c].at = "waits"
    /\ published[dispatch[c].joined].news # "pending"
    /\ IF published[dispatch[c].joined].news = "Aborted"
       THEN ResolveSticky(c, dispatch[c])
       ELSE /\ Becomes(c, FinishVirtual(dispatch[c], published[dispatch[c].joined].decision))
            /\ UNCHANGED <<decisions, flying>>
    /\ UNCHANGED <<registry, swaps, published>>

\* The client left: the future is dropped, and FlightGuard aborts its flight.
DropCall(c) ==
    /\ dispatch[c].at \in {"policy", "selector", "waits", "executes"}
    /\ Becomes(c, Ends(dispatch[c], "dropped"))
    /\ IF dispatch[c].at = "selector" /\ Leads(c)
       THEN /\ flying' = [flying EXCEPT ![AffinityKey(dispatch[c])] = NoFlying]
            /\ published' = [published EXCEPT ![c].news = "Aborted"]
       ELSE UNCHANGED <<flying, published>>
    /\ UNCHANGED <<registry, swaps, decisions>>

-----------------------------------------------------------------------------
\* admit_resolved / admit_compact_parsed_request, then the coordinator.
AdmitRefuses(c) ==
    /\ dispatch[c].at = "admits"
    /\ \E error \in {"Admission", "BodyTooLarge", "StatelessViolation"} :
        Becomes(c, Ends(dispatch[c], error))
    /\ UNCHANGED <<registry, swaps, decisions, flying, published>>

Execute(c) ==
    /\ dispatch[c].at = "admits"
    /\ Becomes(c, [dispatch[c] EXCEPT !.at = "executes"])
    /\ UNCHANGED <<registry, swaps, decisions, flying, published>>

\* map_finite_error and map_stream_error; what only finite calls report.
CoordinatorErrors(kind) ==
    {"Admission", "NoEligibleRoute", "MissingProvider", "MissingWireProfile", "Claim",
     "Attempt", "Finalization", "Internal", "PublicationConflict", "PrincipalChanged",
     "BudgetExceeded", "BudgetNotEnforceable"}
        \cup CASE kind = "compact" -> {"RemoteCompactionUnsupported"}
               [] kind = "embedding" -> {"EmbeddingsUnsupported"}
               [] OTHER -> {}

\* The coordinator returns an execution, or an error with a client status.
ExecutionReturns(c) ==
    /\ dispatch[c].at = "executes"
    /\ \E outcome \in CoordinatorErrors(dispatch[c].kind) \cup {"executed"} :
        Becomes(c, Ends(dispatch[c], outcome))
    /\ UNCHANGED <<registry, swaps, decisions, flying, published>>

DispatchNext ==
    \/ PublishGeneration
    \/ \E c \in DispatchCalls :
        \/ ParseFails(c) \/ ReceiveEmbedding(c)
        \/ \E kind \in Kinds : ReceiveGenerate(c, kind)
        \/ PolicyRead(c) \/ PolicyFails(c)
        \/ SelectorChooses(c) \/ SelectorInvalid(c)
        \/ SelectorUnavailable(c) \/ SelectorTimesOut(c)
        \/ FollowerHears(c) \/ DropCall(c)
        \/ AdmitRefuses(c) \/ Execute(c) \/ ExecutionReturns(c)

DispatchSpec == DispatchInit /\ [][DispatchNext]_dispatchVars

-----------------------------------------------------------------------------
\* An alias always becomes a route of the router its own call leased, whatever
\* the selector answers, however long it takes, and whichever generation put
\* the decision into the shared affinity cache or published it to a flight:
\* finish_virtual_resolution never meets a route it does not know.
AliasKeepsItsRouter ==
    \A c \in DispatchCalls :
        LET call == dispatch[c]
        IN  /\ call.outcome # "RouteMismatch"
            /\ call.at \in {"admits", "executes"} /\ call.asked = AliasRef
                   /\ call.router # NoRouter
                   => \E i \in DOMAIN call.router.routes : call.router.routes[i] = call.target
=============================================================================
