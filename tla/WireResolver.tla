----------------------------- MODULE WireResolver -----------------------------
(* The process-wide wire resolver: what it has learned and rejected per
   candidate fingerprint, its bounded LRU, the single-flight negotiation of a
   provider's model with its permit gate, and the staged policy of a reload.

   One provider and one model; a fingerprint stands for the candidates and the
   preferences a request resolved under.  A time-to-live runs out when its Expire
   action fires; the negotiation interval may or may not throttle a caller. *)
EXTENDS Naturals, Sequences, SequencesExt, FiniteSets

CONSTANTS
    CandidateSurfaces,     \* candidate surfaces
    Fingerprints,     \* cache keys of the provider's model
    Negotiators,      \* requests that resolve and may negotiate
    Policies,         \* resolver policies a configuration may set
    NoNegotiator,
    NoSurface

ASSUME ResolverAssumption == Policies \subseteq [enabled: BOOLEAN, capacity: Nat \ {0}]

VARIABLES
    policy,         \* WireResolverConfig: enabled, capacity
    staged,         \* WireResolverPolicyStage: phase, and the policy to put in place next
    learnt,         \* CacheEntry.learned by fingerprint
    refused,        \* CacheEntry.rejected_at by fingerprint
    entryKeys,      \* keys of ResolverState.entries
    lruOrder,       \* ResolverState.lru_order, oldest first
    flight,         \* the flight registered for the model
    gateHeld,       \* permits of the provider's gate
    lease           \* each request: where it is, its key, its flight, its candidates

resolverVars == <<policy, staged, learnt, refused, entryKeys, lruOrder, flight,
                  gateHeld, lease>>

cacheVars == <<learnt, refused, entryKeys, lruOrder>>
flightVars == <<flight, gateHeld>>

NoStage == [phase |-> "none", other |-> {}]
IdleLease == [at |-> "idle", key |-> NoSurface, joined |-> NoNegotiator, offered |-> {}]

ResolverInit ==
    /\ policy \in Policies
    /\ staged = NoStage
    /\ learnt = [k \in Fingerprints |-> NoSurface]
    /\ refused = [k \in Fingerprints |-> {}]
    /\ entryKeys = {} /\ lruOrder = <<>>
    /\ flight = NoNegotiator
    /\ gateHeld = 0
    /\ lease = [n \in Negotiators |-> IdleLease]

\* The LRU loop: records are popped until the entries fit.
Popped(keys, order, capacity) ==
    LET fits == {n \in 0..Len(order) :
                     Cardinality(keys \ {order[i] : i \in 1..n}) <= capacity}
        n == IF fits = {} THEN Len(order) ELSE CHOOSE m \in fits : \A o \in fits : m <= o
    IN  [keys |-> keys \ {order[i] : i \in 1..n}, order |-> SubSeq(order, n + 1, Len(order))]

\* touch_lru after the entries became keys; evicted entries forget everything.
Touched(key, keys, newLearnt, newRefused) ==
    LET left == Popped(keys, Append(Remove(lruOrder, key), key), policy.capacity) IN
    /\ entryKeys' = left.keys
    /\ lruOrder' = left.order
    /\ learnt' = [k \in Fingerprints |-> IF k \in left.keys THEN newLearnt[k] ELSE NoSurface]
    /\ refused' = [k \in Fingerprints |-> IF k \in left.keys THEN newRefused[k] ELSE {}]

\* resolve: the entry is created, refused surfaces are left out while the
\* policy is enabled, and the key is touched.
ResolveWires(n, k) ==
    /\ lease[n].at = "idle"
    /\ Touched(k, entryKeys \cup {k}, learnt, refused)
    /\ lease' = [lease EXCEPT ![n] = [IdleLease EXCEPT !.at = "resolved", !.key = k,
           !.offered = IF policy.enabled THEN CandidateSurfaces \ refused[k] ELSE CandidateSurfaces]]
    /\ UNCHANGED <<policy, staged, flightVars>>

\* accept: record_learning.
Accept(n, s) ==
    /\ lease[n].at = "resolved" /\ s \in lease[n].offered
    /\ IF policy.enabled
       THEN Touched(lease[n].key, entryKeys \cup {lease[n].key},
                    [learnt EXCEPT ![lease[n].key] = s], refused)
       ELSE UNCHANGED cacheVars
    /\ lease' = [lease EXCEPT ![n] = IdleLease]
    /\ UNCHANGED <<policy, staged, flightVars>>

\* Defect: the key is not touched.
RejectUntouched(n, s) ==
    LET k == lease[n].key IN
    /\ lease[n].at = "resolved" /\ s \in lease[n].offered
    /\ IF policy.enabled
       THEN /\ entryKeys' = entryKeys \cup {k}
            /\ refused' = [refused EXCEPT ![k] = @ \cup {s}]
            /\ UNCHANGED <<learnt, lruOrder>>
       ELSE UNCHANGED cacheVars
    /\ lease' = [lease EXCEPT ![n].offered = @ \ {s}]
    /\ UNCHANGED <<policy, staged, flightVars>>

\* reject: the surface is left out of this key until its time has passed.
Reject(n, s) ==
    LET k == lease[n].key IN
    /\ lease[n].at = "resolved" /\ s \in lease[n].offered
    /\ IF policy.enabled
       THEN Touched(k, entryKeys \cup {k}, learnt, [refused EXCEPT ![k] = @ \cup {s}])
       ELSE UNCHANGED cacheVars
    /\ lease' = [lease EXCEPT ![n].offered = @ \ {s}]
    /\ UNCHANGED <<policy, staged, flightVars>>

\* The request ends without a word to the resolver.
LeaveResolver(n) ==
    /\ lease[n].at = "resolved"
    /\ lease' = [lease EXCEPT ![n] = IdleLease]
    /\ UNCHANGED <<policy, staged, cacheVars, flightVars>>

LearntExpires(k) ==
    /\ learnt[k] # NoSurface
    /\ learnt' = [learnt EXCEPT ![k] = NoSurface]
    /\ UNCHANGED <<policy, staged, refused, entryKeys, lruOrder, flightVars, lease>>

RefusalExpires(k, s) ==
    /\ s \in refused[k]
    /\ refused' = [refused EXCEPT ![k] = @ \ {s}]
    /\ UNCHANGED <<policy, staged, learnt, entryKeys, lruOrder, flightVars, lease>>

-----------------------------------------------------------------------------
LeaseAt(n, at, leader) ==
    lease' = [lease EXCEPT ![n] = [@ EXCEPT !.at = at, !.joined = leader]]

\* begin_negotiation: disabled, too soon, or no permit: throttled, which is no
\* lease; a registered flight is followed; otherwise this request leads.
Throttle(n) ==
    /\ lease[n].at = "resolved"
    /\ flight = NoNegotiator \/ ~policy.enabled
    /\ LeaseAt(n, "resolved", NoNegotiator)
    /\ UNCHANGED <<policy, staged, cacheVars, flightVars>>

Follow(n) ==
    /\ lease[n].at = "resolved" /\ policy.enabled /\ flight # NoNegotiator
    /\ LeaseAt(n, "follows", flight)
    /\ UNCHANGED <<policy, staged, cacheVars, flightVars>>

Lead(n) ==
    /\ lease[n].at = "resolved" /\ policy.enabled /\ flight = NoNegotiator
    /\ gateHeld = 0
    /\ flight' = n
    /\ gateHeld' = gateHeld + 1
    /\ LeaseAt(n, "leads", n)
    /\ UNCHANGED <<policy, staged, cacheVars>>

\* The leader publishes its verdict to the flight's followers before it
\* unregisters the flight, and is done.
EndsFlight(n) ==
    /\ flight' = NoNegotiator
    /\ gateHeld' = gateHeld - 1
    /\ lease' = [m \in Negotiators |->
           CASE m = n -> IdleLease
             [] m # n /\ lease[m].at = "follows" /\ lease[m].joined = n -> [lease[m] EXCEPT !.at = "answered"]
             [] OTHER -> lease[m]]

\* finish: an accepted surface is learned, and the key is touched in either case.
FinishLead(n, s) ==
    LET k == lease[n].key IN
    /\ lease[n].at = "leads"
    /\ EndsFlight(n)
    /\ IF policy.enabled /\ s # NoSurface
       THEN Touched(k, entryKeys \cup {k}, [learnt EXCEPT ![k] = s], refused)
       ELSE Touched(k, entryKeys, learnt, refused)
    /\ UNCHANGED <<policy, staged>>

\* NegotiationLease::drop of a request that is cancelled.
DropLease(n) ==
    /\ lease[n].at \in {"leads", "follows", "answered"}
    /\ IF lease[n].at = "leads"
       THEN EndsFlight(n)
       ELSE lease' = [lease EXCEPT ![n] = IdleLease] /\ UNCHANGED flightVars
    /\ UNCHANGED <<policy, staged, cacheVars>>

\* wait: a follower returns with the verdict of the flight it holds.
FollowerReturns(n) ==
    /\ lease[n].at = "answered"
    /\ lease' = [lease EXCEPT ![n] = IdleLease]
    /\ UNCHANGED <<policy, staged, cacheVars, flightVars>>

-----------------------------------------------------------------------------
\* stage_config, and commit within a reload's acceptance window.
StagePolicy(next) ==
    /\ staged.phase = "none"
    /\ staged' = [phase |-> "staged", other |-> next]
    /\ UNCHANGED <<policy, cacheVars, flightVars, lease>>

CommitPolicy ==
    /\ staged.phase = "staged"
    /\ policy' = staged.other
    /\ staged' = [phase |-> "committed", other |-> policy]
    /\ UNCHANGED <<cacheVars, flightVars, lease>>

\* trim_cache: records without an entry go as well.
Trimmed(capacity) ==
    LET left == Popped(entryKeys, lruOrder, capacity) IN
    /\ entryKeys' = left.keys
    /\ lruOrder' = SelectSeq(left.order, LAMBDA k : k \in left.keys)
    /\ learnt' = [k \in Fingerprints |-> IF k \in left.keys THEN learnt[k] ELSE NoSurface]
    /\ refused' = [k \in Fingerprints |-> IF k \in left.keys THEN refused[k] ELSE {}]

FinalizePolicy ==
    /\ staged.phase = "committed"
    /\ Trimmed(policy.capacity)
    /\ staged' = NoStage
    /\ UNCHANGED <<policy, flightVars, lease>>

\* The stage is rolled back, or dropped.
RollbackPolicy ==
    /\ staged.phase \in {"staged", "committed"}
    /\ IF staged.phase = "committed"
       THEN policy' = staged.other /\ Trimmed(staged.other.capacity)
       ELSE UNCHANGED <<policy, cacheVars>>
    /\ staged' = NoStage
    /\ UNCHANGED <<flightVars, lease>>

ResolverStep(n) ==
    \/ \E k \in Fingerprints : ResolveWires(n, k)
    \/ \E s \in CandidateSurfaces : Accept(n, s) \/ Reject(n, s)
    \/ LeaveResolver(n) \/ Throttle(n) \/ Follow(n) \/ Lead(n)
    \/ \E s \in CandidateSurfaces \cup {NoSurface} : FinishLead(n, s)
    \/ DropLease(n) \/ FollowerReturns(n)

ResolverNext ==
    \/ \E n \in Negotiators : ResolverStep(n)
    \/ \E k \in Fingerprints : LearntExpires(k) \/ \E s \in CandidateSurfaces : RefusalExpires(k, s)
    \/ \E next \in Policies : StagePolicy(next)
    \/ CommitPolicy \/ FinalizePolicy \/ RollbackPolicy

\* The cache stays bounded by its capacity whatever requests and reloads do to
\* it, which takes every entry to have a record the LRU loop can pop.
EntriesAreEvictable ==
    /\ entryKeys \subseteq ToSet(lruOrder)
    /\ Cardinality(entryKeys) <= policy.capacity \/ staged.phase = "committed"
=============================================================================
