------------------------- MODULE ModelRouterAffinity -------------------------
(***************************************************************************)
(* Session affinity of a virtual model (rust/src/model_router.rs): a       *)
(* bounded cache of decisions in least-recently-used order, and single     *)
(* flight per key, whose leader runs the selector while the others wait on *)
(* a watch channel.  A caller's future can be dropped wherever it awaits;  *)
(* FlightGuard then aborts the flight.                                     *)
(*                                                                         *)
(* The linked list over slots is the sequence of keys it encodes; which     *)
(* decision an entry holds is left out.  Expiry                            *)
(* is a step of its own: an entry is fresh until its time to live is over. *)
(* Each caller resolves once, so a flight is named by its leader.          *)
(***************************************************************************)
EXTENDS Naturals, Sequences, SequencesExt, FiniteSets

CONSTANTS
    Resolvers,     \* callers of resolve
    Keys,          \* (virtual model, fingerprint, session)
    max_entries,
    NoFlight

ASSUME AffinityAssumption == max_entries > 0

VARIABLES
    lru,        \* the cached keys, least recently used first
    expiredKeys,
    flights,    \* AffinityState.flights: the leader of each registered flight
    result,     \* the watch channel of the flight a caller leads
    resolver    \* what each caller awaits: place, key, the flight it joined

affinityVars == <<lru, expiredKeys, flights, result, resolver>>

-----------------------------------------------------------------------------
AffinityInit ==
    /\ lru = <<>>
    /\ expiredKeys = {}
    /\ flights = [k \in Keys |-> NoFlight]
    /\ result = [r \in Resolvers |-> "pending"]
    /\ resolver = [r \in Resolvers |-> [at |-> "idle", key |-> NoFlight, joined |-> NoFlight]]

Place(r, at, flight) ==
    resolver' = [resolver EXCEPT ![r] = [@ EXCEPT !.at = at, !.joined = flight]]

\* resolve is called.
CallResolve(r, k) ==
    /\ resolver[r].at = "idle"
    /\ resolver' = [resolver EXCEPT ![r] = [@ EXCEPT !.at = "start", !.key = k]]
    /\ UNCHANGED <<lru, expiredKeys, flights, result>>

InFlight == {k \in Keys : flights[k] # NoFlight}

\* lookup: a fresh entry moves to the end of the list.
Hit(r) ==
    LET k == resolver[r].key
    IN  /\ resolver[r].at = "start"
        /\ Contains(lru, k) /\ k \notin expiredKeys
        /\ lru' = Append(Remove(lru, k), k)
        /\ Place(r, "returned", NoFlight)
        /\ UNCHANGED <<expiredKeys, flights, result>>

\* lookup drops an expired entry.  The flight map is looked up in the same
\* poll: the caller joins a flight, selects on its own when too many keys are
\* in flight, or leads.
Miss(r) ==
    LET k == resolver[r].key
    IN  /\ resolver[r].at = "start"
        /\ Contains(lru, k) => k \in expiredKeys
        /\ lru' = Remove(lru, k)
        /\ expiredKeys' = expiredKeys \ {k}
        /\ CASE flights[k] # NoFlight ->
                    Place(r, "waits", flights[k]) /\ UNCHANGED flights
             [] flights[k] = NoFlight /\ Cardinality(InFlight) >= max_entries ->
                    Place(r, "alone", NoFlight) /\ UNCHANGED flights
             [] OTHER ->
                    /\ Place(r, "leads", NoFlight)
                    /\ flights' = [flights EXCEPT ![k] = r]
        /\ UNCHANGED result

\* cleanup_expired looks at the 16 oldest entries, more than a model holds;
\* then the key's own entry goes, and the oldest ones until there is room.
AfterCleanup(k) == SelectSeq(lru, LAMBDA x : x \notin expiredKeys /\ x # k)

Evicted(s) ==
    IF Len(s) >= max_entries THEN SubSeq(s, Len(s) - max_entries + 2, Len(s)) ELSE s

Store(k) ==
    /\ lru' = Append(Evicted(AfterCleanup(k)), k)
    /\ expiredKeys' = {}

FlightDone(k) == flights' = [flights EXCEPT ![k] = NoFlight]

\* The leader's selector answers: stored, unregistered, published, returned.
LeaderSelects(r) ==
    LET k == resolver[r].key
    IN  /\ resolver[r].at = "leads"
        /\ Store(k)
        /\ FlightDone(k)
        /\ result' = [result EXCEPT ![r] = "Succeeded"]
        /\ Place(r, "returned", NoFlight)

\* The selector failed, or named a route the router does not have.
LeaderFails(r) ==
    /\ resolver[r].at = "leads"
    /\ FlightDone(resolver[r].key)
    /\ result' = [result EXCEPT ![r] = "Failed"]
    /\ Place(r, "returned", NoFlight)
    /\ UNCHANGED <<lru, expiredKeys>>

\* A caller that found too many flights selects without one.
AloneSelects(r) ==
    /\ resolver[r].at = "alone"
    /\ Store(resolver[r].key)
    /\ Place(r, "returned", NoFlight)
    /\ UNCHANGED <<flights, result>>

AloneFails(r) ==
    /\ resolver[r].at = "alone"
    /\ Place(r, "returned", NoFlight)
    /\ UNCHANGED <<lru, expiredKeys, flights, result>>

\* Defect: a dropped leader leaves its followers waiting.
AbortSilently(r) == UNCHANGED <<flights, result>>

\* FlightGuard::drop: only the flight that is still registered is aborted.
AbortFlight(r) ==
    IF resolver[r].at = "leads" /\ flights[resolver[r].key] = r
    THEN /\ FlightDone(resolver[r].key)
         /\ result' = [result EXCEPT ![r] = "Aborted"]
    ELSE UNCHANGED <<flights, result>>

\* The caller's future is dropped.
CancelResolve(r) ==
    /\ resolver[r].at \in {"leads", "alone", "waits"}
    /\ AbortFlight(r)
    /\ Place(r, "cancelled", NoFlight)
    /\ UNCHANGED <<lru, expiredKeys>>

\* A follower wakes: with the leader's answer, or back at the start.
FollowerWakes(r) ==
    /\ resolver[r].at = "waits"
    /\ result[resolver[r].joined] # "pending"
    /\ IF result[resolver[r].joined] = "Aborted" THEN Place(r, "start", NoFlight)
       ELSE Place(r, "returned", NoFlight)
    /\ UNCHANGED <<lru, expiredKeys, flights, result>>

Expire(k) ==
    /\ Contains(lru, k) /\ k \notin expiredKeys
    /\ expiredKeys' = expiredKeys \union {k}
    /\ UNCHANGED <<lru, flights, result, resolver>>

ResolveStep(r) ==
    \/ Hit(r) \/ Miss(r)
    \/ LeaderSelects(r) \/ AloneSelects(r)
    \/ LeaderFails(r) \/ AloneFails(r) \/ FollowerWakes(r)

AffinityNext ==
    \/ \E r \in Resolvers :
          ResolveStep(r) \/ CancelResolve(r) \/ \E k \in Keys : CallResolve(r, k)
    \/ \E k \in Keys : Expire(k)

\* A selector is a routed request with timeouts: it answers.
AffinityFairness == \A r \in Resolvers : WF_affinityVars(ResolveStep(r))

-----------------------------------------------------------------------------
(* Properties.                                                             *)

\* Every registered flight has a live leader on its key, and a follower waits
\* only for a flight that is registered or has its answer: nobody can wait for
\* a wake-up that will not come.  The cache stays within its bound.
FlightsHaveLeaders ==
    /\ Len(lru) <= max_entries /\ IsInjective(lru)
    /\ \A k \in InFlight : resolver[flights[k]].at = "leads"
                           /\ resolver[flights[k]].key = k
    /\ \A r \in Resolvers : resolver[r].at = "waits" =>
          LET leader == resolver[r].joined
          IN  flights[resolver[r].key] = leader \/ result[leader] # "pending"

\* Every caller returns unless it is cancelled, whatever happens to the leader
\* it waits for.
ResolveReturns ==
    \A r \in Resolvers :
        resolver[r].at = "start" ~> resolver[r].at \in {"returned", "cancelled"}
=============================================================================
