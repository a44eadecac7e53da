----------------------------- MODULE ClaimProofs -----------------------------
(***************************************************************************)
(* What holds of the claims of an account, for any number of requests, any *)
(* cap of the book and any configuration of breaker and backoff: the       *)
(* counters of the claims, the breaker and the cooldown.  And what holds   *)
(* of the loop that spends them: no account is asked twice over one wire,  *)
(* and the command a request leaves says how the request ended.            *)
(***************************************************************************)
EXTENDS SelectionClaims, RequestCoordinators, FiniteSetTheorems, TLAPS

-----------------------------------------------------------------------------
(* Selection claims (SelectionClaims).                                     *)

\* What the records of a book own: a request in flight, a pending request, a
\* reservation of quota.
OwningRecords(f) == {q \in DOMAIN f : f[q].state \in {"Pending", "Converted"}}
PendingRecords(f) == {q \in DOMAIN f : f[q].state \in {"Pending"}}
ReservedRecords(f) == {q \in DOMAIN f : f[q].converted /\ ~f[q].quota_released}

\* Selections that were counted and have no record yet.
AcquiredOnly == {r \in Requests : pc[r] = "acquired"}

IsBook(f) ==
    /\ IsFiniteSet(DOMAIN f) /\ DOMAIN f \subseteq Requests
    /\ \A q \in DOMAIN f : /\ DOMAIN f[q] = {"state", "quota_released", "converted", "owns_probe"}
                           /\ f[q].state = "Pending" => ~f[q].converted /\ ~f[q].quota_released

\* A request has a record from its publication on, and selects alone.
Places ==
    /\ DOMAIN pc = Requests
    /\ \A q \in DOMAIN claims : pc[q] \notin {"idle", "checked", "snapshot", "acquired", "refused"}
    /\ \A r \in Requests : pc[r] \in {"checked", "snapshot", "acquired"} => selector = r
    /\ \A r \in Requests : pc[r] = "claimed" => r \in DOMAIN claims /\ claims[r].state = "Pending"

ClaimsInv == IsBook(claims) /\ Places /\ CountersMatchClaims

\* g has the records of f but some that own nothing.
Retains(f, g) ==
    /\ DOMAIN g \subseteq DOMAIN f
    /\ \A q \in DOMAIN g : g[q] = f[q]
    /\ \A q \in DOMAIN f \ DOMAIN g : Releasable(f[q])

\* Pruning retains what owns something, whatever the order says.
LEMMA PruneRetains ==
  ASSUME NEW f, NEW order
  PROVE  Retains(f, Prune(f, order).claims)
<1>1. Prune(f, order).claims = [id \in DOMAIN f \ PrunedRecords(f, order) |-> f[id]]
  BY DEF Prune
<1>2. \A id \in PrunedRecords(f, order) : Releasable(f[id])
  BY Zenon DEF PrunedRecords
<1>3. QED
  BY <1>1, <1>2, Zenon DEF Retains

LEMMA RetainsOwned ==
  ASSUME NEW f, NEW g, IsBook(f), Retains(f, g)
  PROVE  /\ IsBook(g)
         /\ OwningRecords(g) = OwningRecords(f)
         /\ PendingRecords(g) = PendingRecords(f)
         /\ ReservedRecords(g) = ReservedRecords(f)
<1>1. IsFiniteSet(DOMAIN g)
  BY FS_Subset, Zenon DEF IsBook, Retains
<1>2. IsBook(g)
  BY <1>1, Zenon DEF IsBook, Retains
<1>3. OwningRecords(g) = OwningRecords(f)
  BY Zenon DEF OwningRecords, Retains, Releasable, Owned
<1>4. PendingRecords(g) = PendingRecords(f)
  BY Zenon DEF PendingRecords, Retains, Releasable, Owned
<1>5. ReservedRecords(g) = ReservedRecords(f)
  BY Zenon DEF ReservedRecords, Retains, Releasable, Owned
<1>6. QED
  BY <1>2, <1>3, <1>4, <1>5

\* The sets behind the counters are finite.
LEMMA RecordsAreFinite ==
  ASSUME NEW f, IsBook(f)
  PROVE  /\ IsFiniteSet(OwningRecords(f)) /\ IsFiniteSet(PendingRecords(f))
         /\ IsFiniteSet(ReservedRecords(f))
<1>1. /\ OwningRecords(f) \subseteq DOMAIN f /\ PendingRecords(f) \subseteq DOMAIN f
      /\ ReservedRecords(f) \subseteq DOMAIN f
  BY Zenon DEF OwningRecords, PendingRecords, ReservedRecords
<1>2. QED
  BY <1>1, FS_Subset, Zenon DEF IsBook

\* A record that gives up what it owned in flight.
WithState(f, r, s) == [f EXCEPT ![r].state = s]

GaveUp(f, g, r) ==
    /\ IsBook(g) /\ DOMAIN g = DOMAIN f
    /\ \A q \in DOMAIN f : q # r => g[q] = f[q]
    /\ OwningRecords(g) = OwningRecords(f) \ {r}
    /\ PendingRecords(g) = PendingRecords(f) \ {r}
    /\ ReservedRecords(g) = ReservedRecords(f)

LEMMA RecordEnds ==
  ASSUME NEW f, IsBook(f), NEW r \in DOMAIN f, NEW s, s \notin {"Pending", "Converted"}
  PROVE  GaveUp(f, WithState(f, r, s), r)
<1> DEFINE g == WithState(f, r, s)
<1>1. /\ DOMAIN g = DOMAIN f
      /\ \A q \in DOMAIN f : q # r => g[q] = f[q]
      /\ g[r] = [f[r] EXCEPT !.state = s]
  BY Zenon DEF WithState
<1>2. /\ DOMAIN g[r] = DOMAIN f[r] /\ g[r].state = s
      /\ g[r].converted = f[r].converted /\ g[r].quota_released = f[r].quota_released
  BY <1>1 DEF IsBook
<1> HIDE DEF g
<1>3. IsBook(g)
  BY <1>1, <1>2, Zenon DEF IsBook
<1>4. OwningRecords(g) = OwningRecords(f) \ {r}
  BY <1>1, <1>2, Zenon DEF OwningRecords
<1>5. PendingRecords(g) = PendingRecords(f) \ {r}
  BY <1>1, <1>2, Zenon DEF PendingRecords
<1>6. ReservedRecords(g) = ReservedRecords(f)
  BY <1>1, <1>2, Zenon DEF ReservedRecords
<1>7. GaveUp(f, g, r)
  BY <1>1, <1>3, <1>4, <1>5, <1>6, Zenon DEF GaveUp
<1>8. QED
  BY <1>7, Zenon DEF g

\* The invariant in terms of these sets.
CountersFit ==
    /\ active = Cardinality(OwningRecords(claims))
    /\ pending = Cardinality(PendingRecords(claims)) + Cardinality(AcquiredOnly)
    /\ reserved = Cardinality(ReservedRecords(claims))

LEMMA InvIs == ClaimsInv <=> IsBook(claims) /\ Places /\ CountersFit
BY Zenon DEF ClaimsInv, CountersMatchClaims, CountersFit, ClaimsIn, OwningRecords, PendingRecords,
   ReservedRecords, AcquiredOnly

LEMMA InvIsNext == IsBook(claims') /\ Places' /\ CountersFit' => ClaimsInv'
BY Zenon DEF ClaimsInv, CountersMatchClaims, CountersFit, ClaimsIn, OwningRecords, PendingRecords,
   ReservedRecords, AcquiredOnly, IsBook

\* One request moves.
LEMMA OneMovesOn ==
  ASSUME Places, NEW r \in Requests, NEW s, pc' = [pc EXCEPT ![r] = s]
  PROVE  /\ DOMAIN pc' = Requests /\ pc'[r] = s
         /\ \A q \in Requests : q # r => pc'[q] = pc[q]
         /\ s # "acquired" => AcquiredOnly' = AcquiredOnly \ {r}
         /\ s = "acquired" => AcquiredOnly' = AcquiredOnly \cup {r}
<1>1. /\ DOMAIN pc' = Requests /\ pc'[r] = s
      /\ \A q \in Requests : q # r => pc'[q] = pc[q]
  BY Zenon DEF Places
<1>2. s # "acquired" => AcquiredOnly' = AcquiredOnly \ {r}
  BY <1>1, Zenon DEF AcquiredOnly
<1>3. s = "acquired" => AcquiredOnly' = AcquiredOnly \cup {r}
  BY <1>1, Zenon DEF AcquiredOnly
<1>4. QED
  BY <1>1, <1>2, <1>3, Zenon

LEMMA AcquiredIsFinite ==
  ASSUME Places
  PROVE  IsFiniteSet(AcquiredOnly)
<1>1. AcquiredOnly \subseteq {selector}
  BY DEF AcquiredOnly, Places
<1>2. IsFiniteSet({selector})
  BY FS_Singleton, Zenon
<1>3. QED
  BY <1>1, <1>2, FS_Subset, Zenon

\* A request that moves to s holds the selection lock if s says so, and
\* takes it from nobody else.
LockFits(r, s) ==
    \/ s \in {"checked", "snapshot"} /\ selector' = r /\ selector \in {r, NoRequest}
    \/ s \notin {"checked", "snapshot"} /\ UNCHANGED selector
    \/ s \notin {"checked", "snapshot"} /\ selector = r

\* A step that neither counts nor writes a record.
LEMMA QuietMove ==
  ASSUME ClaimsInv, NEW r \in Requests, NEW s, pc' = [pc EXCEPT ![r] = s],
         UNCHANGED <<claims, active, pending, reserved>>,
         pc[r] # "acquired", s \notin {"acquired", "claimed"},
         r \in DOMAIN claims => s \notin {"idle", "checked", "snapshot", "refused"},
         LockFits(r, s)
  PROVE  ClaimsInv'
<1>1. IsBook(claims) /\ Places /\ CountersFit
  BY InvIs, Zenon
<1>2. /\ DOMAIN pc' = Requests /\ pc'[r] = s
      /\ \A q \in Requests : q # r => pc'[q] = pc[q]
      /\ AcquiredOnly' = AcquiredOnly \ {r}
  BY <1>1, OneMovesOn, Zenon
<1>3. AcquiredOnly' = AcquiredOnly
  BY <1>2, Zenon DEF AcquiredOnly
<1>4. CountersFit'
  BY <1>1, <1>3, Zenon DEF CountersFit
<1>5. Places'
  <2>1. \A q \in DOMAIN claims : pc'[q] \notin {"idle", "checked", "snapshot", "acquired", "refused"}
    BY <1>1, <1>2, Zenon DEF Places, IsBook
  <2>2. \A q \in Requests : pc'[q] \in {"checked", "snapshot", "acquired"} => selector' = q
    BY <1>1, <1>2, ClaimsAssumption DEF Places, LockFits
  <2>3. \A q \in Requests : pc'[q] = "claimed" => q \in DOMAIN claims /\ claims[q].state = "Pending"
    BY <1>1, <1>2, Zenon DEF Places
  <2>4. QED
    BY <1>2, <2>1, <2>2, <2>3, Zenon DEF Places
<1>6. IsBook(claims')
  BY <1>1, Zenon
<1>7. QED
  BY <1>4, <1>5, <1>6, InvIsNext, Zenon

\* A set that loses an element, one that gains an element.
LEMMA Losing ==
  ASSUME NEW S, IsFiniteSet(S), NEW x
  PROVE  /\ Cardinality(S) \in Nat
         /\ x \in S => Cardinality(S \ {x}) = Cardinality(S) - 1
         /\ x \notin S => Cardinality(S \ {x}) = Cardinality(S)
<1>1. /\ Cardinality(S) \in Nat
      /\ Cardinality(S \ {x}) = IF x \in S THEN Cardinality(S) - 1 ELSE Cardinality(S)
  BY FS_RemoveElement, FS_CardinalityType, Zenon
<1>2. QED
  BY <1>1

LEMMA Gaining ==
  ASSUME NEW S, IsFiniteSet(S), NEW x, x \notin S
  PROVE  Cardinality(S) \in Nat /\ Cardinality(S \cup {x}) = Cardinality(S) + 1
<1>1. /\ Cardinality(S) \in Nat
      /\ Cardinality(S \cup {x}) = IF x \in S THEN Cardinality(S) ELSE Cardinality(S) + 1
  BY FS_AddElement, FS_CardinalityType, Zenon
<1>2. QED
  BY <1>1

\* add_pending_claim counts a request that has no record.
LEMMA AcquireKeeps ==
  ASSUME ClaimsInv, NEW r \in Requests, SelectAcquire(r)
  PROVE  ClaimsInv'
<1>0. IsBook(claims) /\ Places /\ CountersFit /\ selector = r
  BY InvIs, Zenon DEF SelectAcquire, Places
<1>1. CASE EffectivelyHealthy /\ Allows(breaker, now)
  <2>1. /\ pc' = [pc EXCEPT ![r] = "acquired"] /\ pending' = pending + 1
        /\ UNCHANGED <<claims, active, reserved, selector>> /\ pc[r] = "snapshot"
    BY <1>1, Zenon DEF SelectAcquire, bookVars
  <2>2. /\ DOMAIN pc' = Requests /\ pc'[r] = "acquired"
        /\ \A q \in Requests : q # r => pc'[q] = pc[q]
        /\ AcquiredOnly' = AcquiredOnly \cup {r}
    BY <1>0, <2>1, OneMovesOn, Zenon
  <2>3. r \notin AcquiredOnly
    BY <2>1, Zenon DEF AcquiredOnly
  <2>4. /\ Cardinality(AcquiredOnly) \in Nat
        /\ Cardinality(AcquiredOnly') = Cardinality(AcquiredOnly) + 1
    BY <1>0, <2>2, <2>3, AcquiredIsFinite, Gaining, Zenon
  <2>5. Cardinality(PendingRecords(claims)) \in Nat
    BY <1>0, RecordsAreFinite, FS_CardinalityType, Zenon
  <2>6. CountersFit'
    BY <1>0, <2>1, <2>4, <2>5 DEF CountersFit
  <2>7. Places'
    BY <1>0, <2>1, <2>2, Zenon DEF Places, IsBook
  <2>8. QED
    BY <1>0, <2>1, <2>6, <2>7, InvIsNext, Zenon
<1>2. CASE ~(EffectivelyHealthy /\ Allows(breaker, now))
  <2>1. /\ pc' = [pc EXCEPT ![r] = "idle"] /\ UNCHANGED <<claims, active, pending, reserved>>
        /\ pc[r] = "snapshot"
    BY <1>2, Zenon DEF SelectAcquire, bookVars
  <2>2. r \notin DOMAIN claims
    BY <1>0, <2>1, Zenon DEF Places
  <2>3. LockFits(r, "idle")
    BY <1>0, Zenon DEF LockFits
  <2>4. QED
    BY <1>0, <2>1, <2>2, <2>3, QuietMove, Zenon
<1>3. QED
  BY <1>1, <1>2

\* A book from which records that own nothing are pruned, where one request
\* moves and was or was not counted as selecting.
LEMMA PlacesAfter ==
  ASSUME IsBook(claims), Places, NEW r \in Requests, NEW s, pc' = [pc EXCEPT ![r] = s],
         NEW g, DOMAIN g = DOMAIN claims,
         \A q \in DOMAIN claims : q # r => g[q] = claims[q],
         Retains(g, claims'),
         s \notin {"idle", "checked", "snapshot", "acquired", "claimed"},
         r \in DOMAIN claims => s # "refused",
         UNCHANGED selector \/ selector = r
  PROVE  Places'
<1>1. /\ DOMAIN pc' = Requests /\ pc'[r] = s
      /\ \A q \in Requests : q # r => pc'[q] = pc[q]
  BY OneMovesOn, Zenon
<1>2. \A q \in DOMAIN claims' : pc'[q] \notin {"idle", "checked", "snapshot", "acquired", "refused"}
  <2> TAKE q \in DOMAIN claims'
  <2>1. q \in DOMAIN claims /\ q \in Requests
    BY Zenon DEF Retains, IsBook
  <2>2. CASE q = r
    BY <1>1, <2>1, <2>2, Zenon
  <2>3. CASE q # r
    BY <1>1, <2>1, <2>3, Zenon DEF Places
  <2>4. QED
    BY <2>2, <2>3
<1>3. \A q \in Requests : pc'[q] \in {"checked", "snapshot", "acquired"} => selector' = q
  BY <1>1 DEF Places
<1>4. \A q \in Requests : pc'[q] = "claimed" => q \in DOMAIN claims' /\ claims'[q].state = "Pending"
  <2> TAKE q \in Requests
  <2> HAVE pc'[q] = "claimed"
  <2>1. q # r /\ q \in DOMAIN claims /\ claims[q].state = "Pending"
    BY <1>1, Zenon DEF Places
  <2>2. q \in DOMAIN g /\ g[q].state = "Pending"
    BY <2>1, Zenon
  <2>3. QED
    BY <2>2, Zenon DEF Retains, Releasable, Owned
<1>5. QED
  BY <1>1, <1>2, <1>3, <1>4, Zenon DEF Places

\* A record that ends gives back what it was counted for, and no other record
\* that owns something goes with it.
LEMMA EndKeeps ==
  ASSUME ClaimsInv, NEW r \in DOMAIN claims, Owned(claims[r]),
         NEW st, st \notin {"Pending", "Converted"},
         UpdateBook(WithState(claims, r, st)),
         active' = active - 1,
         pending' = (IF claims[r].state = "Pending" THEN pending - 1 ELSE pending),
         UNCHANGED <<reserved, selector>>,
         NEW s, pc' = [pc EXCEPT ![r] = s],
         s \notin {"idle", "checked", "snapshot", "acquired", "claimed", "refused"}
  PROVE  ClaimsInv'
<1>1. IsBook(claims) /\ Places /\ CountersFit /\ r \in Requests
  BY InvIs, Zenon DEF IsBook
<1> DEFINE g == WithState(claims, r, st)
<1>2. GaveUp(claims, g, r)
  BY <1>1, RecordEnds, Zenon
<1>3. claims' = Prune(g, terminalOrder).claims
  BY Zenon DEF UpdateBook
<1> HIDE DEF g
<1>4. Retains(g, claims')
  BY <1>3, PruneRetains, Zenon
<1>5. /\ IsBook(claims')
      /\ OwningRecords(claims') = OwningRecords(claims) \ {r}
      /\ PendingRecords(claims') = PendingRecords(claims) \ {r}
      /\ ReservedRecords(claims') = ReservedRecords(claims)
  BY <1>2, <1>4, RetainsOwned, Zenon DEF GaveUp
<1>6. /\ r \in OwningRecords(claims)
      /\ claims[r].state = "Pending" <=> r \in PendingRecords(claims)
  BY Zenon DEF OwningRecords, PendingRecords, Owned
<1>7. /\ Cardinality(OwningRecords(claims')) = Cardinality(OwningRecords(claims)) - 1
      /\ Cardinality(PendingRecords(claims)) \in Nat
      /\ claims[r].state = "Pending"
           => Cardinality(PendingRecords(claims')) = Cardinality(PendingRecords(claims)) - 1
      /\ claims[r].state # "Pending"
           => Cardinality(PendingRecords(claims')) = Cardinality(PendingRecords(claims))
  BY <1>1, <1>5, <1>6, RecordsAreFinite, Losing, Zenon
<1>8. AcquiredOnly' = AcquiredOnly /\ Cardinality(AcquiredOnly) \in Nat
  <2>1. AcquiredOnly' = AcquiredOnly \ {r} /\ pc[r] # "acquired"
    BY <1>1, OneMovesOn, Zenon DEF Places
  <2>2. AcquiredOnly' = AcquiredOnly
    BY <2>1, Zenon DEF AcquiredOnly
  <2>3. QED
    BY <1>1, <2>2, AcquiredIsFinite, FS_CardinalityType, Zenon
<1>9. Places'
  BY <1>1, <1>2, <1>4, PlacesAfter, Zenon DEF GaveUp
<1>10. CountersFit'
  <2>1. active' = Cardinality(OwningRecords(claims')) /\ reserved' = Cardinality(ReservedRecords(claims'))
    BY <1>1, <1>5, <1>7, Zenon DEF CountersFit
  <2>2. pending' = Cardinality(PendingRecords(claims')) + Cardinality(AcquiredOnly')
    <3>1. pending = Cardinality(PendingRecords(claims)) + Cardinality(AcquiredOnly)
      BY <1>1, Zenon DEF CountersFit
    <3>2. QED
      BY <1>7, <1>8, <3>1
  <2>3. QED
    BY <2>1, <2>2, Zenon DEF CountersFit, OwningRecords, PendingRecords, ReservedRecords
<1>11. QED
  BY <1>5, <1>9, <1>10, InvIsNext, Zenon

LEMMA RollbackKeeps ==
  ASSUME ClaimsInv, NEW r \in Requests, RollbackClaim(r)
  PROVE  ClaimsInv'
<1>1. /\ r \in DOMAIN claims /\ claims[r].state = "Pending"
      /\ UpdateBook([claims EXCEPT ![r].state = "RolledBack"])
      /\ active' = active - 1 /\ pending' = pending - 1
      /\ UNCHANGED <<reserved, selector>>
      /\ pc' = [pc EXCEPT ![r] = "rolledBack"]
  BY InvIs, Zenon DEF RollbackClaim, Places, selectVars
<1>2. /\ Owned(claims[r])
      /\ pending' = IF claims[r].state = "Pending" THEN pending - 1 ELSE pending
  BY <1>1, Zenon DEF Owned
<1>3. UpdateBook(WithState(claims, r, "RolledBack"))
  BY <1>1, Zenon DEF WithState
<1>4. QED
  BY <1>1, <1>2, <1>3, EndKeeps, Zenon

\* release_active_claim, called again, finds the record ended or gone.
LEMMA ReleaseKeeps ==
  ASSUME ClaimsInv, NEW r \in Requests, ReleaseActiveClaim(r)
  PROVE  ClaimsInv'
<1> DEFINE s == IF pc[r] = "recorded" THEN "released" ELSE pc[r]
<1>1. /\ s \in {"released", "done"} /\ pc[r] \in {"recorded", "released", "done"}
      /\ pc' = [pc EXCEPT ![r] = s] /\ UNCHANGED <<reserved, selector>>
  BY Zenon DEF ReleaseActiveClaim, selectVars
<1> HIDE DEF s
<1>2. CASE ~Known(r) \/ AlreadyReleased(r)
  <2>1. UNCHANGED <<claims, active, pending, reserved>> /\ LockFits(r, s)
    BY <1>1, <1>2, Zenon DEF ReleaseActiveClaim, LockFits
  <2>2. QED
    BY <1>1, <2>1, QuietMove, Zenon
<1>3. CASE ~(~Known(r) \/ AlreadyReleased(r))
  <2>1. /\ r \in DOMAIN claims /\ Owned(claims[r])
        /\ UpdateBook([claims EXCEPT ![r].state = "Released"])
        /\ active' = active - 1
        /\ pending' = IF claims[r].state = "Pending" THEN pending - 1 ELSE pending
    BY <1>3, Zenon DEF ReleaseActiveClaim, Known, AlreadyReleased
  <2>2. UpdateBook(WithState(claims, r, "Released"))
    BY <2>1, Zenon DEF WithState
  <2>3. QED
    BY <1>1, <2>1, <2>2, EndKeeps, Zenon
<1>4. QED
  BY <1>2, <1>3

\* A new record owns a request in flight, still pending and not reserved.
LEMMA RecordBegins ==
  ASSUME NEW f, IsBook(f), NEW r \in Requests, r \notin DOMAIN f,
         NEW g, g = [q \in DOMAIN f \union {r} |-> IF q = r THEN NewClaim ELSE f[q]]
  PROVE  /\ IsBook(g) /\ DOMAIN g = DOMAIN f \cup {r}
         /\ g[r].state = "Pending" /\ \A q \in DOMAIN f : g[q] = f[q]
         /\ OwningRecords(g) = OwningRecords(f) \cup {r}
         /\ PendingRecords(g) = PendingRecords(f) \cup {r}
         /\ ReservedRecords(g) = ReservedRecords(f)
<1>1. /\ DOMAIN g = DOMAIN f \cup {r} /\ g[r] = NewClaim
      /\ \A q \in DOMAIN f : g[q] = f[q]
  BY Zenon
<1>2. /\ DOMAIN g[r] = {"state", "quota_released", "converted", "owns_probe"}
      /\ g[r].state = "Pending" /\ ~g[r].converted /\ ~g[r].quota_released
  BY <1>1 DEF NewClaim
<1>3. IsBook(g)
  <2>1. IsFiniteSet(DOMAIN g)
    BY <1>1, FS_AddElement, Zenon DEF IsBook
  <2>2. QED
    BY <1>1, <1>2, <2>1, Zenon DEF IsBook
<1>4. OwningRecords(g) = OwningRecords(f) \cup {r}
  BY <1>1, <1>2, Zenon DEF OwningRecords
<1>5. PendingRecords(g) = PendingRecords(f) \cup {r}
  BY <1>1, <1>2, Zenon DEF PendingRecords
<1>6. ReservedRecords(g) = ReservedRecords(f)
  BY <1>1, <1>2, Zenon DEF ReservedRecords
<1>7. QED
  BY <1>1, <1>2, <1>3, <1>4, <1>5, <1>6, Zenon

\* publish moves the count of a selection to its record, or gives it back.
LEMMA PublishKeeps ==
  ASSUME ClaimsInv, NEW r \in Requests, SelectPublish(r)
  PROVE  ClaimsInv'
<1>0. IsBook(claims) /\ Places /\ CountersFit
  BY InvIs, Zenon
<1>1. pc[r] = "acquired" /\ selector = r /\ r \notin DOMAIN claims /\ r \in AcquiredOnly
  BY <1>0, Zenon DEF SelectPublish, Places, AcquiredOnly
<1> DEFINE book == Prune(claims, terminalOrder).claims
           full == Cardinality(DOMAIN book) >= CLAIM_RECORD_HARD_CAP
<1>2. Retains(claims, book)
  BY PruneRetains, Zenon
<1>3. full => /\ claims' = book /\ pending' = pending - 1
              /\ pc' = [pc EXCEPT ![r] = "refused"] /\ UNCHANGED <<active, reserved>>
  BY Zenon DEF SelectPublish
<1>4. ~full => /\ claims' = [q \in DOMAIN book \union {r} |-> IF q = r THEN NewClaim ELSE book[q]]
               /\ active' = active + 1 /\ UNCHANGED <<pending, reserved>>
               /\ pc' = [pc EXCEPT ![r] = "claimed"]
  BY Zenon DEF SelectPublish
<1> HIDE DEF book, full
<1>5. /\ IsBook(book)
      /\ OwningRecords(book) = OwningRecords(claims)
      /\ PendingRecords(book) = PendingRecords(claims)
      /\ ReservedRecords(book) = ReservedRecords(claims)
  BY <1>0, <1>2, RetainsOwned, Zenon
<1>6. /\ Cardinality(AcquiredOnly) \in Nat
      /\ Cardinality(AcquiredOnly \ {r}) = Cardinality(AcquiredOnly) - 1
      /\ Cardinality(PendingRecords(claims)) \in Nat
  BY <1>0, <1>1, AcquiredIsFinite, RecordsAreFinite, Losing, FS_CardinalityType, Zenon
<1>7. CASE full
  <2>1. /\ claims' = book /\ pending' = pending - 1
        /\ pc' = [pc EXCEPT ![r] = "refused"] /\ UNCHANGED <<active, reserved>>
    BY <1>3, <1>7, Zenon
  <2>2. AcquiredOnly' = AcquiredOnly \ {r}
    BY <1>0, <2>1, OneMovesOn, Zenon
  <2>3. Places'
    <3>1. /\ Retains(claims, claims')
          /\ \A q \in DOMAIN claims : q # r => claims[q] = claims[q]
      BY <1>2, <2>1, Zenon
    <3>2. pc' = [pc EXCEPT ![r] = "refused"] /\ selector = r /\ r \notin DOMAIN claims
      BY <1>1, <2>1, Zenon
    <3>3. QED
      BY ONLY <1>0, <3>1, <3>2, PlacesAfter, Zenon
  <2>4. pending' = Cardinality(PendingRecords(claims)) + Cardinality(AcquiredOnly \ {r})
    <3>1. pending = Cardinality(PendingRecords(claims)) + Cardinality(AcquiredOnly)
      BY <1>0, Zenon DEF CountersFit
    <3>2. QED
      BY <1>6, <2>1, <3>1
  <2>5. CountersFit'
    BY <1>0, <1>5, <2>1, <2>2, <2>4, Zenon
       DEF CountersFit, OwningRecords, PendingRecords, ReservedRecords
  <2>6. QED
    BY <1>5, <2>1, <2>3, <2>5, InvIsNext, Zenon
<1>8. CASE ~full
  <2>1. /\ claims' = [q \in DOMAIN book \union {r} |-> IF q = r THEN NewClaim ELSE book[q]]
        /\ active' = active + 1 /\ UNCHANGED <<pending, reserved>>
        /\ pc' = [pc EXCEPT ![r] = "claimed"]
    BY <1>4, <1>8, Zenon
  <2>2. r \notin DOMAIN book /\ r \notin OwningRecords(claims) /\ r \notin PendingRecords(claims)
    BY <1>1, <1>2, Zenon DEF Retains, OwningRecords, PendingRecords
  <2>3. /\ IsBook(claims') /\ DOMAIN claims' = DOMAIN book \cup {r}
        /\ claims'[r].state = "Pending" /\ \A q \in DOMAIN book : claims'[q] = book[q]
        /\ OwningRecords(claims') = OwningRecords(claims) \cup {r}
        /\ PendingRecords(claims') = PendingRecords(claims) \cup {r}
        /\ ReservedRecords(claims') = ReservedRecords(claims)
    BY <1>5, <2>1, <2>2, RecordBegins
  <2>4. /\ DOMAIN pc' = Requests /\ pc'[r] = "claimed"
        /\ \A q \in Requests : q # r => pc'[q] = pc[q]
        /\ AcquiredOnly' = AcquiredOnly \ {r}
    BY <1>0, <2>1, OneMovesOn, Zenon
  <2>5. /\ Cardinality(OwningRecords(claims')) = Cardinality(OwningRecords(claims)) + 1
        /\ Cardinality(PendingRecords(claims')) = Cardinality(PendingRecords(claims)) + 1
    BY <1>0, <2>2, <2>3, RecordsAreFinite, Gaining, Zenon
  <2>6. pending' = Cardinality(PendingRecords(claims')) + Cardinality(AcquiredOnly')
    <3>1. pending = Cardinality(PendingRecords(claims)) + Cardinality(AcquiredOnly)
      BY <1>0, Zenon DEF CountersFit
    <3>2. QED
      BY <1>6, <2>1, <2>4, <2>5, <3>1
  <2>7. CountersFit'
    BY <1>0, <2>1, <2>3, <2>5, <2>6, Zenon
       DEF CountersFit, OwningRecords, PendingRecords, ReservedRecords
  <2>8. Places'
    <3>1. \A q \in DOMAIN claims' :
            pc'[q] \notin {"idle", "checked", "snapshot", "acquired", "refused"}
      BY <1>0, <1>2, <2>3, <2>4, Zenon DEF Places, Retains, IsBook
    <3>2. \A q \in Requests : pc'[q] \notin {"checked", "snapshot", "acquired"}
      BY <1>0, <1>1, <2>4, Zenon DEF Places
    <3>3. \A q \in Requests :
            pc'[q] = "claimed" => q \in DOMAIN claims' /\ claims'[q].state = "Pending"
      BY <1>0, <1>2, <2>3, <2>4, Zenon DEF Places, Retains, Releasable, Owned
    <3>4. QED
      BY <2>4, <3>1, <3>2, <3>3, Zenon DEF Places
  <2>9. QED
    BY <2>3, <2>7, <2>8, InvIsNext, Zenon
<1>9. QED
  BY <1>7, <1>8

\* convert_claim_after_durable_publication turns the pending count of a record
\* into its reservation.
LEMMA ConvertKeeps ==
  ASSUME ClaimsInv, NEW r \in Requests, ConvertClaim(r)
  PROVE  ClaimsInv'
<1>0. IsBook(claims) /\ Places /\ CountersFit
  BY InvIs, Zenon
<1>1. /\ pc[r] = "claimed" /\ r \in DOMAIN claims /\ claims[r].state = "Pending"
      /\ claims' = [claims EXCEPT ![r] = Converted(claims[r])]
      /\ pending' = pending - 1 /\ reserved' = reserved + 1
      /\ pc' = [pc EXCEPT ![r] = "sent"] /\ UNCHANGED <<active, selector>>
  BY <1>0, Zenon DEF ConvertClaim, Places, selectVars
<1>2. /\ DOMAIN claims' = DOMAIN claims /\ claims'[r] = Converted(claims[r])
      /\ \A q \in DOMAIN claims : q # r => claims'[q] = claims[q]
  BY <1>1, Zenon
<1>3. /\ DOMAIN claims[r] = {"state", "quota_released", "converted", "owns_probe"}
      /\ ~claims[r].converted /\ ~claims[r].quota_released
  BY <1>0, <1>1, Zenon DEF IsBook
<1>4. /\ DOMAIN claims'[r] = DOMAIN claims[r]
      /\ claims'[r].state = "Converted" /\ claims'[r].converted
      /\ claims'[r].quota_released = claims[r].quota_released
  BY <1>2, <1>3 DEF Converted
<1>5. IsBook(claims')
  BY <1>0, <1>2, <1>3, <1>4, Zenon DEF IsBook
<1>6. OwningRecords(claims') = OwningRecords(claims)
  BY <1>1, <1>2, <1>4, Zenon DEF OwningRecords
<1>7. PendingRecords(claims') = PendingRecords(claims) \ {r} /\ r \in PendingRecords(claims)
  BY <1>1, <1>2, <1>4, Zenon DEF PendingRecords
<1>8. ReservedRecords(claims') = ReservedRecords(claims) \cup {r} /\ r \notin ReservedRecords(claims)
  BY <1>1, <1>2, <1>3, <1>4, Zenon DEF ReservedRecords
<1>9. /\ Cardinality(PendingRecords(claims)) \in Nat
      /\ Cardinality(PendingRecords(claims')) = Cardinality(PendingRecords(claims)) - 1
      /\ Cardinality(ReservedRecords(claims')) = Cardinality(ReservedRecords(claims)) + 1
  <2>1. IsFiniteSet(PendingRecords(claims)) /\ IsFiniteSet(ReservedRecords(claims))
    BY <1>0, RecordsAreFinite, Zenon
  <2>2. /\ Cardinality(PendingRecords(claims)) \in Nat
        /\ Cardinality(PendingRecords(claims')) = Cardinality(PendingRecords(claims)) - 1
    BY <1>7, <2>1, Losing, Zenon
  <2>3. Cardinality(ReservedRecords(claims')) = Cardinality(ReservedRecords(claims)) + 1
    BY <1>8, <2>1, Gaining, Zenon
  <2>4. QED
    BY <2>2, <2>3, Zenon
<1>10. /\ DOMAIN pc' = Requests /\ pc'[r] = "sent"
       /\ \A q \in Requests : q # r => pc'[q] = pc[q]
       /\ AcquiredOnly' = AcquiredOnly
  <2>1. /\ DOMAIN pc' = Requests /\ pc'[r] = "sent"
        /\ \A q \in Requests : q # r => pc'[q] = pc[q]
        /\ AcquiredOnly' = AcquiredOnly \ {r}
    BY <1>0, <1>1, OneMovesOn, Zenon
  <2>2. r \notin AcquiredOnly
    BY <1>1, Zenon DEF AcquiredOnly
  <2>3. QED
    BY <2>1, <2>2, Zenon
<1>11. pending' = Cardinality(PendingRecords(claims')) + Cardinality(AcquiredOnly')
  <2>1. pending = Cardinality(PendingRecords(claims)) + Cardinality(AcquiredOnly)
    BY <1>0, Zenon DEF CountersFit
  <2>2. Cardinality(AcquiredOnly) \in Nat
    BY <1>0, AcquiredIsFinite, FS_CardinalityType, Zenon
  <2>3. QED
    BY <1>1, <1>9, <1>10, <2>1, <2>2
<1>12. CountersFit'
  BY <1>0, <1>1, <1>6, <1>9, <1>11, Zenon
     DEF CountersFit, OwningRecords, PendingRecords, ReservedRecords
<1>13. Places'
  BY <1>0, <1>1, <1>2, <1>10, Zenon DEF Places, IsBook
<1>14. QED
  BY <1>5, <1>12, <1>13, InvIsNext, Zenon

\* release_quota_reservation gives a reservation back once.
LEMMA ReleaseQuotaKeeps ==
  ASSUME ClaimsInv, NEW r \in Requests, ReleaseQuotaReservation(r)
  PROVE  ClaimsInv'
<1>0. IsBook(claims) /\ Places /\ CountersFit
  BY InvIs, Zenon
<1>1. /\ pc[r] \in {"released", "done"} /\ pc' = [pc EXCEPT ![r] = "done"]
      /\ UNCHANGED <<active, pending, selector>>
  BY Zenon DEF ReleaseQuotaReservation, selectVars
<1>2. CASE ~Known(r) \/ claims[r].quota_released \/ ~claims[r].converted
  <2>1. UNCHANGED <<claims, active, pending, reserved>> /\ LockFits(r, "done")
    BY <1>1, <1>2, Zenon DEF ReleaseQuotaReservation, LockFits
  <2>2. QED
    BY <1>1, <2>1, QuietMove, Zenon
<1>3. CASE ~(~Known(r) \/ claims[r].quota_released \/ ~claims[r].converted)
  <2>1. /\ r \in DOMAIN claims /\ ~claims[r].quota_released /\ claims[r].converted
        /\ claims' = [claims EXCEPT ![r].quota_released = TRUE] /\ reserved' = reserved - 1
    BY <1>3, Zenon DEF ReleaseQuotaReservation, Known
  <2>2. /\ DOMAIN claims' = DOMAIN claims
        /\ claims'[r] = [claims[r] EXCEPT !.quota_released = TRUE]
        /\ \A q \in DOMAIN claims : q # r => claims'[q] = claims[q]
    BY <2>1, Zenon
  <2>3. DOMAIN claims[r] = {"state", "quota_released", "converted", "owns_probe"}
    BY <1>0, <2>1, Zenon DEF IsBook
  <2>4. /\ DOMAIN claims'[r] = DOMAIN claims[r]
        /\ claims'[r].quota_released /\ claims'[r].state = claims[r].state
    BY <2>2, <2>3
  <2>5. IsBook(claims')
    BY <1>0, <2>1, <2>2, <2>4, Zenon DEF IsBook
  <2>6. OwningRecords(claims') = OwningRecords(claims)
    BY <2>1, <2>2, <2>4, Zenon DEF OwningRecords
  <2>7. PendingRecords(claims') = PendingRecords(claims)
    BY <2>1, <2>2, <2>4, Zenon DEF PendingRecords
  <2>8. ReservedRecords(claims') = ReservedRecords(claims) \ {r} /\ r \in ReservedRecords(claims)
    BY <2>1, <2>2, <2>4, Zenon DEF ReservedRecords
  <2>9. Cardinality(ReservedRecords(claims')) = Cardinality(ReservedRecords(claims)) - 1
    BY <1>0, <2>8, RecordsAreFinite, Losing, Zenon
  <2>10. /\ DOMAIN pc' = Requests /\ pc'[r] = "done"
         /\ \A q \in Requests : q # r => pc'[q] = pc[q]
         /\ AcquiredOnly' = AcquiredOnly \ {r}
    BY <1>0, <1>1, OneMovesOn, Zenon
  <2>11. AcquiredOnly' = AcquiredOnly
    BY <1>1, <2>10, Zenon DEF AcquiredOnly
  <2>12. CountersFit'
    BY <1>0, <1>1, <2>1, <2>6, <2>7, <2>9, <2>11, Zenon
       DEF CountersFit, OwningRecords, PendingRecords, ReservedRecords
  <2>13. Places'
    <3>1. \A q \in DOMAIN claims : claims'[q].state = claims[q].state
      BY <2>2, <2>4, Zenon
    <3>2. QED
      BY <1>0, <1>1, <2>2, <2>10, <3>1, Zenon DEF Places, IsBook
  <2>14. QED
    BY <2>5, <2>12, <2>13, InvIsNext, Zenon
<1>4. QED
  BY <1>2, <1>3

LEMMA ClaimsInitHolds == ClaimsInit => ClaimsInv
<1> SUFFICES ASSUME ClaimsInit PROVE ClaimsInv
  OBVIOUS
<1>1. DOMAIN claims = {} /\ AcquiredOnly = {}
  BY DEF ClaimsInit, AcquiredOnly
<1>2. /\ OwningRecords(claims) = {} /\ PendingRecords(claims) = {} /\ ReservedRecords(claims) = {}
  BY <1>1, Zenon DEF OwningRecords, PendingRecords, ReservedRecords
<1>3. IsFiniteSet({}) /\ Cardinality({}) = 0
  BY FS_EmptySet, Zenon
<1>4. IsBook(claims)
  BY <1>1, <1>3, Zenon DEF IsBook
<1>5. CountersFit
  <2>1. active = 0 /\ pending = 0 /\ reserved = 0
    BY Zenon DEF ClaimsInit
  <2>2. QED
    BY <1>1, <1>2, <1>3, <2>1 DEF CountersFit
<1>6. Places
  BY <1>1, Zenon DEF Places, ClaimsInit
<1>7. QED
  BY <1>4, <1>5, <1>6, InvIs, Zenon

LEMMA ClaimsStep == ClaimsInv /\ [ClaimsNext]_claimsVars => ClaimsInv'
<1> SUFFICES ASSUME ClaimsInv, [ClaimsNext]_claimsVars PROVE ClaimsInv'
  OBVIOUS
<1>0. Places
  BY InvIs, Zenon
<1>1. ASSUME NEW r \in Requests, SelectCheck(r) PROVE ClaimsInv'
  <2>1. /\ pc[r] = "idle" /\ pc' = [pc EXCEPT ![r] = "checked"]
        /\ UNCHANGED <<claims, active, pending, reserved>> /\ LockFits(r, "checked")
    BY <1>1, Zenon DEF SelectCheck, bookVars, quotaVars, LockFits
  <2>2. r \notin DOMAIN claims
    BY <1>0, <2>1, Zenon DEF Places
  <2>3. QED
    BY <2>1, <2>2, QuietMove, Zenon
<1>2. ASSUME NEW r \in Requests, SelectSnapshot(r) PROVE ClaimsInv'
  <2>1. /\ pc[r] = "checked" /\ pc' = [pc EXCEPT ![r] = "snapshot"]
        /\ UNCHANGED <<claims, active, pending, reserved, selector>>
    BY <1>2, Zenon DEF SelectSnapshot, bookVars, quotaVars
  <2>2. r \notin DOMAIN claims /\ LockFits(r, "snapshot")
    BY <1>0, <2>1, Zenon DEF Places, LockFits
  <2>3. QED
    BY <2>1, <2>2, QuietMove, Zenon
<1>3. ASSUME NEW r \in Requests, RecordOutcome(r) PROVE ClaimsInv'
  <2>1. /\ pc[r] = "sent" /\ pc' = [pc EXCEPT ![r] = "recorded"]
        /\ UNCHANGED <<claims, active, pending, reserved>> /\ LockFits(r, "recorded")
    BY <1>3, Zenon DEF RecordOutcome, bookVars, quotaVars, selectVars, LockFits
  <2>2. QED
    BY <2>1, QuietMove, Zenon
<1>4. ASSUME NEW r \in Requests, Abandon(r) PROVE ClaimsInv'
  <2>1. /\ pc[r] # "acquired" /\ pc' = [pc EXCEPT ![r] = "gone"]
        /\ UNCHANGED <<claims, active, pending, reserved>> /\ LockFits(r, "gone")
    BY <1>4, Zenon DEF Abandon, bookVars, quotaVars, selectVars, LockFits
  <2>2. QED
    BY <2>1, QuietMove, Zenon
<1>5. ASSUME UNCHANGED <<claims, active, pending, reserved, pc, selector>> PROVE ClaimsInv'
  BY <1>5, Zenon DEF ClaimsInv, Places, CountersMatchClaims, ClaimsIn, IsBook
<1>6. Tick \/ UNCHANGED claimsVars => UNCHANGED <<claims, active, pending, reserved, pc, selector>>
  BY Zenon DEF Tick, claimsVars, bookVars, quotaVars, selectVars
<1>7. QED
  BY <1>1, <1>2, <1>3, <1>4, <1>5, <1>6, AcquireKeeps, PublishKeeps, RollbackKeeps, ConvertKeeps,
     ReleaseKeeps, ReleaseQuotaKeeps, Zenon DEF ClaimsNext

\* The counters routing and admission read are what the records of the book
\* own (routing/claim.rs, quota estimator), for any number of requests and any
\* cap: no release is counted twice, no refused publication stays counted and
\* pruning takes nothing that is still owed.
THEOREM CountersMatchClaimsHolds == ClaimsSpec => []CountersMatchClaims
<1>1. ClaimsInv => CountersMatchClaims
  BY Zenon DEF ClaimsInv
<1>2. QED
  BY ClaimsInitHolds, ClaimsStep, <1>1, PTL DEF ClaimsSpec

-----------------------------------------------------------------------------
(* The account behind the claims: its breaker and its cooldown.            *)

IsBreaker(b) ==
    DOMAIN b = {"state", "failure_count", "success_count", "last_failure_at", "probe"}

AccountInv == IsBreaker(breaker) /\ OpenMeansDisabled

\* What the breaker's methods do to its state.
LEMMA BreakerMethods ==
  ASSUME NEW b, IsBreaker(b), NEW t
  PROVE  /\ IsBreaker(ReleaseProbe(b)) /\ ReleaseProbe(b).state = b.state
         /\ b.state = "Closed" => IsBreaker(AllowRequest(b, t)) /\ AllowRequest(b, t).state = "Closed"
         /\ b.state \in {"Closed", "Open"} =>
              IsBreaker(RecordSuccess(b)) /\ RecordSuccess(b).state = b.state
         /\ b.state \in {"Closed", "Open"} =>
              IsBreaker(RecordFailure(b, t)) /\ RecordFailure(b, t).state \in {"Closed", "Open"}
<1>1. IsBreaker(ReleaseProbe(b)) /\ ReleaseProbe(b).state = b.state
  BY DEF IsBreaker, ReleaseProbe
<1>2. ASSUME b.state = "Closed"
      PROVE  IsBreaker(AllowRequest(b, t)) /\ AllowRequest(b, t).state = "Closed"
  <2>1. IsBreaker(ReclaimProbe(b, t)) /\ ReclaimProbe(b, t).state = "Closed"
    BY <1>2 DEF IsBreaker, ReclaimProbe
  <2>2. QED
    BY <2>1, Zenon DEF AllowRequest
<1>3. ASSUME b.state \in {"Closed", "Open"}
      PROVE  IsBreaker(RecordSuccess(b)) /\ RecordSuccess(b).state = b.state
  <2>1. CASE b.state = "Closed"
    <3>1. RecordSuccess(b) = [b EXCEPT !.failure_count = 0]
      BY <2>1 DEF RecordSuccess
    <3>2. QED
      BY <3>1 DEF IsBreaker
  <2>2. CASE b.state = "Open"
    <3>1. RecordSuccess(b) = b
      BY <2>2 DEF RecordSuccess
    <3>2. QED
      BY <3>1, Zenon
  <2>3. QED
    BY <1>3, <2>1, <2>2, Zenon
<1>4. ASSUME b.state \in {"Closed", "Open"}
      PROVE  IsBreaker(RecordFailure(b, t)) /\ RecordFailure(b, t).state \in {"Closed", "Open"}
  <2>1. CASE b.state = "Closed"
    <3>1. PICK n : LET c == [b EXCEPT !.failure_count = n]
                   IN  RecordFailure(b, t) \in {c, Opened(c, t)}
      BY <2>1, Zenon DEF RecordFailure
    <3> DEFINE c == [b EXCEPT !.failure_count = n]
    <3>2. IsBreaker(c) /\ c.state = "Closed"
      BY <2>1 DEF IsBreaker
    <3> HIDE DEF c
    <3>3. IsBreaker(Opened(c, t)) /\ Opened(c, t).state = "Open"
      BY <3>2 DEF IsBreaker, Opened
    <3>4. RecordFailure(b, t) \in {c, Opened(c, t)}
      BY <3>1, Zenon DEF c
    <3>5. QED
      BY <3>2, <3>3, <3>4, Zenon
  <2>2. CASE b.state = "Open"
    <3>1. RecordFailure(b, t) = b
      BY <2>2 DEF RecordFailure
    <3>2. QED
      BY <2>2, <3>1, Zenon
  <2>3. QED
    BY <1>4, <2>1, <2>2, Zenon
<1>5. QED
  BY <1>1, <1>2, <1>3, <1>4, Zenon

\* The breaker's state changes only by a recorded outcome: the selection
\* acquires from a healthy, hence closed, account.
LEMMA AccountStep == AccountInv /\ [ClaimsNext]_claimsVars => AccountInv'
<1> SUFFICES ASSUME AccountInv, [ClaimsNext]_claimsVars PROVE AccountInv'
  OBVIOUS
<1>0. /\ IsBreaker(breaker) /\ breaker.state \in {"Closed", "Open"}
      /\ breaker.state = "Open" => disabled
  BY Zenon DEF AccountInv, OpenMeansDisabled
<1>1. ASSUME IsBreaker(breaker'), breaker'.state = breaker.state, UNCHANGED disabled
      PROVE  AccountInv'
  BY <1>0, <1>1, Zenon DEF AccountInv, OpenMeansDisabled, IsBreaker
<1>2. ASSUME NEW r \in Requests, SelectAcquire(r) PROVE AccountInv'
  <2>1. UNCHANGED disabled /\ breaker' = IF EffectivelyHealthy THEN AllowRequest(breaker, now) ELSE breaker
    BY <1>2, Zenon DEF SelectAcquire
  <2>2. EffectivelyHealthy => breaker.state = "Closed"
    BY <1>0, Zenon DEF EffectivelyHealthy
  <2>3. QED
    BY <1>0, <1>1, <2>1, <2>2, BreakerMethods, Zenon
<1>3. ASSUME UNCHANGED disabled, breaker' \in {breaker, ReleaseProbe(breaker)} PROVE AccountInv'
  BY <1>0, <1>1, <1>3, BreakerMethods, Zenon
<1>4. ASSUME NEW r \in Requests, SelectPublish(r) \/ RollbackClaim(r) \/ ReleaseActiveClaim(r)
      PROVE  AccountInv'
  <2>1. UNCHANGED disabled /\ breaker' \in {breaker, ReleaseProbe(breaker)}
    BY <1>4, Zenon DEF SelectPublish, RollbackClaim, ReleaseActiveClaim, DropProbe
  <2>2. QED
    BY <1>3, <2>1, Zenon
<1>5. ASSUME NEW r \in Requests, RecordOutcome(r) PROVE AccountInv'
  <2>1. CASE SuccessEffects
    BY <1>0, <1>1, <2>1, BreakerMethods, Zenon DEF SuccessEffects
  <2>2. CASE CooldownEffects
    BY <1>3, <2>2, Zenon DEF CooldownEffects
  <2>3. CASE CredentialEffects
    <3>1. breaker' = RecordFailure(breaker, now) /\ disabled' = TRUE
      BY <2>3, Zenon DEF CredentialEffects
    <3>2. IsBreaker(breaker') /\ breaker'.state \in {"Closed", "Open"}
      BY <1>0, <3>1, BreakerMethods, Zenon
    <3>3. QED
      BY <3>1, <3>2, Zenon DEF AccountInv, OpenMeansDisabled, IsBreaker
  <2>4. CASE UNCHANGED <<accountVars, lastFailed>>
    BY <1>3, <2>4, Zenon DEF accountVars
  <2>5. QED
    BY <1>5, <2>1, <2>2, <2>3, <2>4, Zenon DEF RecordOutcome
<1>6. ASSUME UNCHANGED accountVars PROVE AccountInv'
  BY <1>3, <1>6, Zenon DEF accountVars
<1>7. ASSUME NEW r \in Requests,
             \/ SelectCheck(r) \/ SelectSnapshot(r) \/ ConvertClaim(r) \/ Abandon(r)
             \/ ReleaseQuotaReservation(r)
      PROVE  AccountInv'
  BY <1>6, <1>7, Zenon DEF SelectCheck, SelectSnapshot, ConvertClaim, Abandon, ReleaseQuotaReservation
<1>8. Tick \/ UNCHANGED claimsVars => UNCHANGED accountVars
  BY Zenon DEF Tick, claimsVars
<1>9. QED
  BY <1>2, <1>4, <1>5, <1>6, <1>7, <1>8, Zenon DEF ClaimsNext

\* An open breaker belongs to a disabled account (health/circuit_breaker.rs
\* behind the router), whatever thresholds and timeout are configured and in
\* whatever order outcomes arrive: no breaker ever becomes half-open.
THEOREM OpenMeansDisabledHolds == ClaimsSpec => []OpenMeansDisabled
<1>1. ClaimsInit => AccountInv
  BY DEF ClaimsInit, NewBreaker, AccountInv, IsBreaker, OpenMeansDisabled
<1>2. AccountInv => OpenMeansDisabled
  BY Zenon DEF AccountInv
<1>3. QED
  BY <1>1, <1>2, AccountStep, PTL DEF ClaimsSpec

\* The clock and the end of the cooldown are times.
TimesInv == now \in Nat /\ cooldownUntil \in Nat

LEMMA TimesStep ==
  TimesInv /\ [ClaimsNext]_claimsVars
    => TimesInv' /\ (cooldownUntil' < cooldownUntil => cooldownUntil <= now)
<1> SUFFICES ASSUME TimesInv, [ClaimsNext]_claimsVars
             PROVE  TimesInv' /\ (cooldownUntil' < cooldownUntil => cooldownUntil <= now)
  OBVIOUS
<1>1. ASSUME UNCHANGED <<now, cooldownUntil>>
      PROVE  TimesInv' /\ (cooldownUntil' < cooldownUntil => cooldownUntil <= now)
  BY <1>1 DEF TimesInv
<1>2. ASSUME NEW r \in Requests, RecordOutcome(r)
      PROVE  TimesInv' /\ (cooldownUntil' < cooldownUntil => cooldownUntil <= now)
  <2>1. UNCHANGED now
    BY <1>2, Zenon DEF RecordOutcome
  <2>2. CASE SuccessEffects
    BY <2>1, <2>2 DEF SuccessEffects, ClearedCooldown, TimesInv
  <2>3. CASE CooldownEffects
    BY <2>1, <2>3, ClaimsAssumption DEF CooldownEffects, TimesInv
  <2>4. CASE CredentialEffects \/ UNCHANGED <<accountVars, lastFailed>>
    BY <1>1, <2>1, <2>4, Zenon DEF CredentialEffects, accountVars
  <2>5. QED
    BY <1>2, <2>2, <2>3, <2>4, Zenon DEF RecordOutcome
<1>3. ASSUME NEW r \in Requests,
             \/ SelectCheck(r) \/ SelectSnapshot(r) \/ SelectAcquire(r) \/ SelectPublish(r)
             \/ RollbackClaim(r) \/ ConvertClaim(r) \/ Abandon(r) \/ ReleaseActiveClaim(r)
             \/ ReleaseQuotaReservation(r)
      PROVE  UNCHANGED <<now, cooldownUntil>>
  BY <1>3, Zenon DEF SelectCheck, SelectSnapshot, SelectAcquire, SelectPublish, RollbackClaim,
     ConvertClaim, Abandon, ReleaseActiveClaim, ReleaseQuotaReservation, accountVars
<1>4. CASE Tick
  <2>1. now' = now + 1 /\ UNCHANGED cooldownUntil
    BY <1>4, Zenon DEF Tick, accountVars
  <2>2. QED
    BY <2>1 DEF TimesInv
<1>5. CASE UNCHANGED claimsVars
  BY <1>1, <1>5, Zenon DEF claimsVars, accountVars
<1>6. QED
  BY <1>1, <1>2, <1>3, <1>4, <1>5, Zenon DEF ClaimsNext

\* A success that was under way when a provider asked for a backoff never
\* shortens it (health_manager.rs, record_success and record_cooldown), for
\* any delays.
THEOREM CooldownIsServedHolds == ClaimsSpec => CooldownIsServed
<1>1. ClaimsInit => TimesInv
  BY DEF ClaimsInit, TimesInv
<1>2. QED
  BY <1>1, TimesStep, PTL DEF ClaimsSpec, CooldownIsServed

-----------------------------------------------------------------------------
(* The coordinators (RequestCoordinators).                                 *)

\* Where a request waits for an answer of its current attempt.
Asking == {"headers", "error_body", "prefetch", "body"}

\* Where an execution exists that nobody has registered a command for.
Executing == {"respond", "handoff", "relay", "pull", "storing", "sending",
              "delivered", "failed"}

Outcomes == {"none", "Completed", "UpstreamError", "ClientError", "MidstreamError"}

Executions ==
    [native: BOOLEAN, passthrough: BOOLEAN, started: BOOLEAN, malformed: BOOLEAN,
     forwarded: {"none", "Completed", "Incomplete"}, stored: BOOLEAN,
     exhausted: BOOLEAN, bytes: BOOLEAN, outcome: Outcomes]

LoopTypes ==
    /\ sent \in Seq(Accounts \X WireSurfaces)
    /\ attempt \in Nat
    /\ tried \in [Accounts -> SUBSET WireSurfaces]
    /\ exec \in Executions

\* The number of the attempt counts the submissions, and a retry is decided
\* only while another attempt is allowed.
AttemptsInv ==
    /\ 0 < attempt /\ Len(sent) <= attempt /\ attempt <= max_attempts
    /\ point = "select" => Len(sent) + 1 = attempt
    /\ point \in Asking \cup {"effects", "cleanup"} => Len(sent) = attempt
    /\ point \in {"handoff", "relay", "pull", "storing", "sending"} => Len(sent) = attempt
    /\ point \in {"effects", "cleanup"} /\ effects.scope # "none" => attempt < max_attempts
    /\ point = "cleanup" => effects.scope # "none"

\* A submitted pair is an attempted wire, so it is no candidate any more.
PairsInv ==
    /\ \A i \in 1 .. Len(sent) : sent[i][2] \in tried[sent[i][1]]
    /\ \A i, j \in 1 .. Len(sent) : sent[i] = sent[j] => i = j

\* The last attempt was credited and not penalised, and lost no chunk.
EndedWell ==
    /\ Len(sent) \in credited
    /\ Len(sent) \notin penalised
    /\ ~exec.malformed

\* Penalties name attempts that were submitted, the current one only once it
\* has failed; an execution is Completed only when it ended well, and a stored
\* terminal exhausts the stream.
OutcomeInv ==
    /\ penalised \subseteq 1 .. Len(sent)
    /\ point \in Asking \cup {"handoff", "pull"} => Len(sent) \notin penalised
    /\ point \in {"relay", "sending"} /\ ~exec.exhausted => Len(sent) \notin penalised
    /\ exec.outcome = "Completed" =>
          /\ point \in Executing \cup {"finished"}
          /\ EndedWell
    /\ exec.passthrough => ~exec.malformed
    /\ exec.stored <=> exec.exhausted
    /\ point \in {"handoff", "pull", "storing"} => ~exec.exhausted
    /\ point \in {"handoff", "relay", "pull", "storing", "sending"} /\ ~exec.exhausted
          => exec.outcome = "none"
    /\ point \in Asking \cup {"select", "effects", "cleanup"} => ~exec.stored
    /\ operation # "Stream" => ~exec.stored

\* A command is registered by the step that finishes the request.
CommandInv ==
    /\ point # "finished" => commands = <<>>
    /\ point = "finished" =>
          /\ Len(commands) = 1
          /\ commands[1] = "Completed" => EndedWell
          /\ exec.stored => commands[1] = exec.outcome

LoopInv == LoopTypes /\ AttemptsInv /\ PairsInv /\ OutcomeInv /\ CommandInv

\* classify asks for another try only of an attempt that may be repeated.
LEMMA OnlyRetryable == ASSUME NEW o PROVE Classify(o).scope # "none" => Retryable(o)
<1>1. CASE Retryable(o)
  BY <1>1
<1>2. CASE ~Retryable(o)
  <2>1. Classify(o) = [Consequence(Verdict(o)) EXCEPT !.scope = "none"]
    BY <1>2, Zenon DEF Classify
  <2>2. "scope" \in DOMAIN Consequence(Verdict(o))
    BY Zenon DEF Consequence
  <2>3. QED
    BY <2>1, <2>2, Zenon
<1>3. QED
  BY <1>1, <1>2

\* A decision that is overruled asks for nothing.
LEMMA NeverRepeated == ASSUME NEW o PROVE [Classify(o) EXCEPT !.scope = "none"].scope = "none"
<1>1. "scope" \in DOMAIN Consequence(Verdict(o))
  BY Zenon DEF Consequence
<1>2. "scope" \in DOMAIN Classify(o)
  BY <1>1, Zenon DEF Classify
<1>3. QED
  BY <1>2, Zenon

\* What every failure of an attempt does before anything is awaited.
FailedAttempt ==
    /\ point \in Asking /\ point' = "effects"
    /\ effects'.scope # "none" => attempt < max_attempts
    /\ \E o \in {"UpstreamError", "ClientError"} : exec' = [exec EXCEPT !.outcome = o]
    /\ penalised' \in {penalised, penalised \cup {Len(sent)}}
    /\ UNCHANGED <<loopVars, credited, commands>>

\* decide and apply_effects of an attempt that failed.
LEMMA DecidedFails ==
    ASSUME NEW o, NEW decided, NEW outcome \in {"UpstreamError", "ClientError"},
           o.attempt = attempt,
           \/ decided = Classify(o)
           \/ decided = [Classify(o) EXCEPT !.scope = "none"],
           DecideAndApply(decided, outcome), point \in Asking, Goto("effects"),
           UNCHANGED <<loopVars, clientGone, commands>>
    PROVE  FailedAttempt
<1>1. decided.scope # "none" => attempt < max_attempts
  BY OnlyRetryable, NeverRepeated, Zenon DEF Retryable
<1>2. QED
  BY <1>1, Zenon DEF DecideAndApply, Goto, FailedAttempt

LEMMA FailureStep == ASSUME LoopInv, FailedAttempt PROVE LoopInv'
<1>1. PICK o \in {"UpstreamError", "ClientError"} : exec' = [exec EXCEPT !.outcome = o]
  BY Zenon DEF FailedAttempt
<1>2. /\ exec' \in Executions /\ exec'.outcome = o /\ exec'.stored = exec.stored
      /\ exec'.exhausted = exec.exhausted /\ exec'.passthrough = exec.passthrough
      /\ exec'.malformed = exec.malformed
  BY <1>1, Zenon DEF LoopInv, LoopTypes, Executions, Outcomes
<1>3. /\ point \in Asking /\ point' = "effects" /\ attempt' = attempt /\ sent' = sent
      /\ tried' = tried /\ commands' = commands /\ operation' = operation
      /\ credited' = credited /\ penalised' \in {penalised, penalised \cup {Len(sent)}}
      /\ effects'.scope # "none" => attempt < max_attempts
  BY Zenon DEF FailedAttempt, loopVars
<1>4. LoopTypes'
  BY <1>2, <1>3, Zenon DEF LoopInv, LoopTypes
<1>5. AttemptsInv'
  BY <1>3, Zenon DEF LoopInv, AttemptsInv
<1>6. PairsInv'
  BY <1>3, Zenon DEF LoopInv, PairsInv
<1>7. Len(sent) \in 1 .. Len(sent)
  BY <1>3 DEF LoopInv, LoopTypes, AttemptsInv
<1>8. OutcomeInv'
  <2>1. penalised' \subseteq 1 .. Len(sent)
    BY <1>3, <1>7, Zenon DEF LoopInv, OutcomeInv
  <2>2. QED
    BY <1>2, <1>3, <2>1, Zenon DEF LoopInv, OutcomeInv, Asking
<1>9. CommandInv'
  BY <1>3, Zenon DEF LoopInv, CommandInv, Asking
<1>10. QED
  BY <1>4, <1>5, <1>6, <1>8, <1>9, Zenon DEF LoopInv

\* What every answer without a stream, and every fault of the proxy's own,
\* leaves: an execution that is decided.
Decided ==
    /\ point \in Asking \cup {"select"} /\ point' = "respond"
    /\ \E o \in Outcomes : /\ exec' = [NoExec EXCEPT !.outcome = o]
                           /\ o = "Completed" => point \in Asking /\ Len(sent) \in credited'
    /\ UNCHANGED <<loopVars, penalised, commands>>

LEMMA DecidedStep == ASSUME LoopInv, Decided PROVE LoopInv'
<1>1. PICK o \in Outcomes : /\ exec' = [NoExec EXCEPT !.outcome = o]
                            /\ o = "Completed" => point \in Asking /\ Len(sent) \in credited'
  BY Zenon DEF Decided
<1>2. /\ exec' \in Executions /\ exec'.outcome = o /\ exec'.stored = FALSE
      /\ exec'.exhausted = FALSE /\ exec'.passthrough = FALSE /\ exec'.malformed = FALSE
  <2>1. NoExec \in Executions
    BY Zenon DEF NoExec, Executions, Outcomes
  <2>2. NoExec.stored = FALSE /\ NoExec.exhausted = FALSE /\ NoExec.passthrough = FALSE
        /\ NoExec.malformed = FALSE
    BY Zenon DEF NoExec
  <2>3. QED
    BY <1>1, <2>1, <2>2, Zenon DEF Executions
<1>3. /\ point \in Asking \cup {"select"} /\ point' = "respond" /\ attempt' = attempt
      /\ sent' = sent /\ tried' = tried /\ commands' = commands /\ operation' = operation
      /\ penalised' = penalised
  BY Zenon DEF Decided, loopVars
<1>4. LoopTypes'
  BY <1>2, <1>3, Zenon DEF LoopInv, LoopTypes
<1>5. AttemptsInv'
  BY <1>3, Zenon DEF LoopInv, AttemptsInv, Asking
<1>6. PairsInv'
  BY <1>3, Zenon DEF LoopInv, PairsInv
<1>7. OutcomeInv'
  BY <1>1, <1>2, <1>3, Zenon DEF LoopInv, OutcomeInv, EndedWell, Asking, Executing
<1>8. CommandInv'
  BY <1>3, Zenon DEF LoopInv, CommandInv, Asking
<1>9. QED
  BY <1>4, <1>5, <1>6, <1>7, <1>8, Zenon DEF LoopInv

\* A command is registered for an execution, with its outcome or with one
\* that says it was not delivered.
Registered ==
    /\ point \in Executing
    /\ \E o : /\ RegisterFinal(o)
              /\ o = "Completed" => exec.outcome = "Completed"
              /\ exec.stored => o = exec.outcome

LEMMA RegisteredStep == ASSUME LoopInv, Registered PROVE LoopInv'
<1>1. PICK o : /\ RegisterFinal(o)
               /\ o = "Completed" => exec.outcome = "Completed"
               /\ exec.stored => o = exec.outcome
  BY Zenon DEF Registered
<1>2. /\ point \in Executing /\ point' = "finished" /\ attempt' = attempt
      /\ sent' = sent /\ tried' = tried /\ operation' = operation /\ exec' = exec
      /\ penalised' = penalised /\ credited' = credited /\ commands' = Append(commands, o)
  BY <1>1, Zenon DEF Registered, RegisterFinal, Goto, loopVars, healthVars
<1>3. commands = <<>>
  BY <1>2, Zenon DEF LoopInv, CommandInv, Executing
<1>4. Len(commands') = 1 /\ commands'[1] = o
  BY <1>2, <1>3
<1>5. LoopTypes'
  BY <1>2, Zenon DEF LoopInv, LoopTypes
<1>6. AttemptsInv'
  BY <1>2, Zenon DEF LoopInv, AttemptsInv, Asking
<1>7. PairsInv'
  BY <1>2, Zenon DEF LoopInv, PairsInv
<1>8. OutcomeInv'
  BY <1>2, Zenon DEF LoopInv, OutcomeInv, EndedWell, Asking
<1>9. CommandInv'
  BY <1>1, <1>2, <1>4, Zenon DEF LoopInv, CommandInv, OutcomeInv, EndedWell
<1>10. QED
  BY <1>5, <1>6, <1>7, <1>8, <1>9, Zenon DEF LoopInv

\* A step of the relay that stores no terminal.
Relayed ==
    /\ point \in {"handoff", "relay", "pull", "sending"}
    /\ point' \in {"relay", "pull", "sending", "delivered"}
    /\ exec.exhausted => exec' = exec /\ point' \in {"relay", "delivered"}
    /\ ~exec.exhausted => point' # "delivered"
    /\ exec' \in Executions
    /\ exec'.outcome = exec.outcome /\ exec'.stored = exec.stored
    /\ exec'.exhausted = exec.exhausted /\ exec'.passthrough = exec.passthrough
    /\ exec'.malformed # exec.malformed => ~exec.passthrough
    /\ UNCHANGED <<loopVars, credited, penalised, commands>>

LEMMA RelayedStep == ASSUME LoopInv, Relayed PROVE LoopInv'
<1>1. /\ attempt' = attempt /\ sent' = sent /\ tried' = tried /\ operation' = operation
      /\ commands' = commands /\ penalised' = penalised /\ credited' = credited
  BY Zenon DEF Relayed, loopVars
<1>2. LoopTypes'
  BY <1>1, Zenon DEF LoopInv, LoopTypes, Relayed
<1>3. AttemptsInv'
  BY <1>1, Zenon DEF LoopInv, AttemptsInv, Relayed, Asking
<1>4. PairsInv'
  BY <1>1, Zenon DEF LoopInv, PairsInv
<1>5. CASE exec.exhausted
  <2>1. exec' = exec /\ point' \in {"relay", "delivered"} /\ point \in Executing
    BY <1>5, Zenon DEF Relayed, Executing
  <2>2. QED
    BY <1>1, <1>2, <1>3, <1>4, <1>5, <2>1, Zenon
       DEF LoopInv, OutcomeInv, CommandInv, EndedWell, Asking, Executing
<1>6. CASE ~exec.exhausted
  <2>1. /\ exec.outcome = "none" /\ exec'.outcome = "none" /\ Len(sent) \notin penalised
        /\ ~exec.stored /\ ~exec'.stored /\ ~exec'.exhausted
    BY <1>6, Zenon DEF LoopInv, OutcomeInv, Relayed
  <2>2. exec'.passthrough => ~exec'.malformed
    <3>1. exec.malformed \in BOOLEAN /\ exec'.malformed \in BOOLEAN
      BY Zenon DEF LoopInv, LoopTypes, Executions, Relayed
    <3>2. QED
      BY <3>1, Zenon DEF LoopInv, OutcomeInv, Relayed
  <2>3. OutcomeInv'
    BY <1>1, <1>6, <2>1, <2>2, Zenon DEF LoopInv, OutcomeInv, Relayed
  <2>4. CommandInv'
    BY <1>1, Zenon DEF LoopInv, CommandInv, Relayed
  <2>5. QED
    BY <1>2, <1>3, <1>4, <2>3, <2>4, Zenon DEF LoopInv
<1>7. QED
  BY <1>5, <1>6

\* A step of the relay that stores the terminal.
Closes ==
    /\ point \in {"relay", "pull", "storing"} /\ point' \in {"sending", "delivered", "failed"}
    /\ ~exec.exhausted /\ operation = "Stream"
    /\ \E o \in Outcomes :
          /\ exec' = Stored(exec, o)
          /\ o = "Completed" => /\ Len(sent) \in credited' /\ ~exec.malformed
                                /\ point # "storing"
    /\ UNCHANGED <<loopVars, penalised, commands>>

LEMMA ClosesStep == ASSUME LoopInv, Closes PROVE LoopInv'
<1>1. PICK o \in Outcomes :
          /\ exec' = Stored(exec, o)
          /\ o = "Completed" => /\ Len(sent) \in credited' /\ ~exec.malformed
                                /\ point # "storing"
  BY Zenon DEF Closes
<1>2. /\ exec' \in Executions /\ exec'.outcome = o /\ exec'.stored = TRUE
      /\ exec'.exhausted = TRUE /\ exec'.passthrough = exec.passthrough
      /\ exec'.malformed = exec.malformed
  BY <1>1, Zenon DEF Stored, LoopInv, LoopTypes, Executions
<1>3. /\ attempt' = attempt /\ sent' = sent /\ tried' = tried /\ operation' = operation
      /\ commands' = commands /\ penalised' = penalised
      /\ point' \in {"sending", "delivered", "failed"} /\ operation = "Stream"
  BY Zenon DEF Closes, loopVars
<1>4. LoopTypes'
  BY <1>2, <1>3, Zenon DEF LoopInv, LoopTypes
<1>5. AttemptsInv'
  BY <1>3, Zenon DEF LoopInv, AttemptsInv, Asking, Closes
<1>6. PairsInv'
  BY <1>3, Zenon DEF LoopInv, PairsInv
<1>7. o = "Completed" => Len(sent) \notin penalised
  BY <1>1, Zenon DEF LoopInv, OutcomeInv, Closes
<1>8. OutcomeInv'
  BY <1>1, <1>2, <1>3, <1>7, Zenon
     DEF LoopInv, OutcomeInv, EndedWell, Asking, Executing
<1>9. CommandInv'
  BY <1>3, Zenon DEF LoopInv, CommandInv, Closes
<1>10. QED
  BY <1>4, <1>5, <1>6, <1>8, <1>9, Zenon DEF LoopInv

\* A step that only moves on.
Moves(from, to) == point \in from /\ point' = to
MovesOn ==
    /\ \/ Moves({"select"}, "select")
       \/ Moves({"headers"}, "prefetch") \/ Moves({"headers"}, "error_body")
       \/ Moves({"headers"}, "body")
       \/ effects.scope # "none" /\ effects' = effects /\ Moves({"effects"}, "cleanup")
       \/ Moves({"effects"}, "respond")
       \/ Moves(Asking \cup {"select", "effects", "cleanup"}, "refused")
       \/ Moves(Asking \cup {"select", "effects", "cleanup"}, "dropped")
       \/ point' = point /\ effects' = effects
    /\ UNCHANGED <<operation, attempt, tried, sent, exec, credited, penalised, commands>>

LEMMA MovesOnStep == ASSUME LoopInv, MovesOn PROVE LoopInv'
<1>1. /\ attempt' = attempt /\ sent' = sent /\ tried' = tried /\ operation' = operation
      /\ commands' = commands /\ penalised' = penalised /\ credited' = credited /\ exec' = exec
  BY Zenon DEF MovesOn
<1>2. LoopTypes' /\ PairsInv'
  BY <1>1, Zenon DEF LoopInv, LoopTypes, PairsInv
<1>3. AttemptsInv'
  BY <1>1, Zenon DEF LoopInv, AttemptsInv, MovesOn, Moves, Asking
<1>4. OutcomeInv'
  BY <1>1, Zenon DEF LoopInv, OutcomeInv, EndedWell, MovesOn, Moves, Asking, Executing
<1>5. CommandInv'
  BY <1>1, Zenon DEF LoopInv, CommandInv, EndedWell, MovesOn, Moves, Asking
<1>6. QED
  BY <1>2, <1>3, <1>4, <1>5, Zenon DEF LoopInv

LEMMA PublishStep ==
    ASSUME LoopInv, NEW a \in Accounts, NEW w \in WireSurfaces, SelectAndPublish(a, w)
    PROVE  LoopInv'
<1>1. /\ point = "select" /\ point' = "headers" /\ w \notin tried[a]
      /\ tried' = [tried EXCEPT ![a] = @ \cup {w}] /\ sent' = Append(sent, <<a, w>>)
      /\ attempt' = attempt /\ operation' = operation /\ exec' = exec
      /\ credited' = credited /\ penalised' = penalised /\ commands' = commands
  BY Zenon DEF SelectAndPublish, Goto, healthVars
<1>2. /\ sent \in Seq(Accounts \X WireSurfaces) /\ attempt \in Nat
      /\ tried \in [Accounts -> SUBSET WireSurfaces] /\ exec \in Executions
  BY Zenon DEF LoopInv, LoopTypes
<1>3. /\ sent' \in Seq(Accounts \X WireSurfaces) /\ Len(sent') = Len(sent) + 1
      /\ Len(sent) \in Nat
      /\ sent'[Len(sent) + 1] = <<a, w>> /\ \A i \in 1 .. Len(sent) : sent'[i] = sent[i]
  BY <1>1, <1>2
<1>4. \A i \in 1 .. Len(sent) : sent[i] \in Accounts \X WireSurfaces
  BY <1>2
<1>5. LoopTypes'
  BY <1>1, <1>2, <1>3, Zenon DEF LoopTypes
<1>6. AttemptsInv'
  <2>1. 0 < attempt /\ attempt <= max_attempts
    BY <1>1, Zenon DEF LoopInv, AttemptsInv
  <2>2. Len(sent) + 1 = attempt
    BY <1>1, Zenon DEF LoopInv, AttemptsInv
  <2>3. Len(sent') <= attempt /\ Len(sent') = attempt
    BY <1>2, <1>3, <2>2
  <2>4. QED
    BY <1>1, <1>3, <2>1, <2>2, <2>3, Zenon DEF LoopInv, AttemptsInv, Asking
<1>7. PairsInv'
  <2>1. \A i \in 1 .. Len(sent) : sent[i][2] \in tried[sent[i][1]]
    BY Zenon DEF LoopInv, PairsInv
  <2>2. \A i \in 1 .. Len(sent) : sent[i] # <<a, w>>
    <3>1. <<a, w>>[1] = a /\ <<a, w>>[2] = w
      BY Zenon
    <3>2. QED
      BY <1>1, <2>1, <3>1, Zenon
  <2>3. \A b \in Accounts : tried[b] \subseteq tried'[b]
    BY <1>1, <1>2, Zenon
  <2>4. w \in tried'[a]
    BY <1>1, <1>2, Zenon
  <2>5. \A i \in 1 .. Len(sent) : sent[i][1] \in Accounts
    BY <1>4, Zenon
  <2>6. ASSUME NEW i \in 1 .. Len(sent') PROVE sent'[i][2] \in tried'[sent'[i][1]]
    <3>1. CASE i = Len(sent) + 1
      <4>1. sent'[i] = <<a, w>> /\ <<a, w>>[1] = a /\ <<a, w>>[2] = w
        BY <1>3, <3>1, Zenon
      <4>2. sent'[i][1] = a /\ sent'[i][2] = w
        BY <4>1
      <4>3. QED
        BY <2>4, <4>2, Zenon
    <3>2. CASE i # Len(sent) + 1
      <4>1. i \in 1 .. Len(sent)
        BY <1>3, <3>2
      <4>2. QED
        BY <1>3, <2>1, <2>3, <2>5, <4>1, Zenon
    <3>3. QED
      BY <3>1, <3>2
  <2>7. ASSUME NEW i \in 1 .. Len(sent'), NEW j \in 1 .. Len(sent'), sent'[i] = sent'[j]
        PROVE  i = j
    <3>1. \A k \in 1 .. Len(sent') : k \in 1 .. Len(sent) \/ k = Len(sent) + 1
      BY <1>3
    <3>2. QED
      BY <1>3, <2>2, <2>7, <3>1, Zenon DEF LoopInv, PairsInv
  <2>8. QED
    BY <2>6, <2>7, Zenon DEF PairsInv
<1>8. OutcomeInv'
  <2>1. penalised \subseteq 1 .. Len(sent)
    BY Zenon DEF LoopInv, OutcomeInv
  <2>2. penalised' \subseteq 1 .. Len(sent') /\ Len(sent') \notin penalised'
    BY <1>1, <1>3, <2>1
  <2>3. exec.outcome # "Completed" /\ ~exec.stored
    BY <1>1, Zenon DEF LoopInv, OutcomeInv, Executing
  <2>4. QED
    BY <1>1, <2>2, <2>3, Zenon DEF LoopInv, OutcomeInv, Asking
<1>9. CommandInv'
  BY <1>1, Zenon DEF LoopInv, CommandInv
<1>10. QED
  BY <1>5, <1>6, <1>7, <1>8, <1>9, Zenon DEF LoopInv

LEMMA CleanupStep == ASSUME LoopInv, CleanupFinished PROVE LoopInv'
<1>1. /\ point = "cleanup" /\ point' = "select" /\ attempt' = attempt + 1 /\ sent' = sent
      /\ tried' = tried /\ operation' = operation /\ exec' = exec /\ effects' = effects
      /\ credited' = credited /\ penalised' = penalised /\ commands' = commands
  BY Zenon DEF CleanupFinished, PrepareNext, Goto, healthVars
<1>2. /\ attempt \in Nat /\ Len(sent) = attempt /\ attempt < max_attempts /\ max_attempts \in Nat
  BY <1>1, CoordinatorAssumption, Zenon DEF LoopInv, LoopTypes, AttemptsInv
<1>3. /\ attempt' \in Nat /\ 0 < attempt' /\ Len(sent) <= attempt' /\ attempt' <= max_attempts
      /\ Len(sent) < attempt' /\ Len(sent) + 1 = attempt'
  BY <1>1, <1>2
<1>4. LoopTypes' /\ PairsInv'
  BY <1>1, <1>3, Zenon DEF LoopInv, LoopTypes, PairsInv
<1>5. AttemptsInv'
  BY <1>1, <1>3, Zenon DEF AttemptsInv, Asking
<1>6. OutcomeInv'
  BY <1>1, Zenon DEF LoopInv, OutcomeInv, EndedWell, Asking, Executing
<1>7. CommandInv'
  BY <1>1, Zenon DEF LoopInv, CommandInv
<1>8. QED
  BY <1>4, <1>5, <1>6, <1>7, Zenon DEF LoopInv

LEMMA HandoffStep ==
    ASSUME LoopInv, NEW p \in BOOLEAN, NEW b \in BOOLEAN, Prefetched(p, b)
    PROVE  LoopInv'
<1>1. /\ exec' = [NoExec EXCEPT !.native = TRUE, !.passthrough = p, !.bytes = b]
      /\ point = "prefetch" /\ point' = "handoff" /\ attempt' = attempt /\ sent' = sent
      /\ tried' = tried /\ operation' = operation
      /\ credited' = credited /\ penalised' = penalised /\ commands' = commands
  BY Zenon DEF Prefetched, Goto, loopVars, healthVars
<1>2. NoExec \in Executions /\ NoExec.malformed = FALSE /\ NoExec.stored = FALSE
      /\ NoExec.exhausted = FALSE /\ NoExec.outcome = "none"
  BY Zenon DEF NoExec, Executions, Outcomes
<1>3. exec' \in Executions
  BY <1>1, <1>2, Zenon DEF Executions
<1>4. exec'.malformed = FALSE /\ exec'.stored = FALSE /\ exec'.exhausted = FALSE
      /\ exec'.outcome = "none"
  BY <1>1, <1>2, Zenon DEF Executions
<1>5. LoopTypes' /\ PairsInv'
  BY <1>1, <1>3, Zenon DEF LoopInv, LoopTypes, PairsInv
<1>6. AttemptsInv'
  BY <1>1, Zenon DEF LoopInv, AttemptsInv, Asking
<1>7. OutcomeInv'
  BY <1>1, <1>4, Zenon DEF LoopInv, OutcomeInv, Asking
<1>8. CommandInv'
  BY <1>1, Zenon DEF LoopInv, CommandInv
<1>9. QED
  BY <1>5, <1>6, <1>7, <1>8, Zenon DEF LoopInv

LEMMA FaultStep == ASSUME LoopInv, NEW source, MidstreamFault(source) PROVE LoopInv'
<1>1. /\ exec' = [exec EXCEPT !.outcome = exec.outcome] /\ point = "pull" /\ point' = "storing"
      /\ attempt' = attempt /\ sent' = sent /\ tried' = tried /\ operation' = operation
      /\ credited' = credited /\ commands' = commands
      /\ penalised' \in {penalised, penalised \cup {Len(sent)}}
  BY Zenon DEF MidstreamFault, DecideAndApply, Goto, loopVars
<1>2. exec' = exec
  BY <1>1 DEF LoopInv, LoopTypes, Executions
<1>3. LoopTypes' /\ PairsInv'
  BY <1>1, <1>2, Zenon DEF LoopInv, LoopTypes, PairsInv
<1>4. AttemptsInv'
  BY <1>1, Zenon DEF LoopInv, AttemptsInv, Asking
<1>5. Len(sent) \in 1 .. Len(sent)
  BY <1>1 DEF LoopInv, LoopTypes, AttemptsInv
<1>6. ~exec.exhausted /\ exec.outcome = "none"
  BY <1>1, Zenon DEF LoopInv, OutcomeInv
<1>7. OutcomeInv'
  BY <1>1, <1>2, <1>5, <1>6, Zenon DEF LoopInv, OutcomeInv, Asking
<1>8. CommandInv'
  BY <1>1, Zenon DEF LoopInv, CommandInv
<1>9. QED
  BY <1>3, <1>4, <1>7, <1>8, Zenon DEF LoopInv

\* Both branches that start a response.
LEMMA StartedStep == ASSUME LoopInv, MarkStarted \/ FiniteStarted PROVE LoopInv'
<1>1. /\ exec' = [exec EXCEPT !.started = TRUE] /\ attempt' = attempt /\ sent' = sent
      /\ tried' = tried /\ operation' = operation
      /\ credited' = credited /\ penalised' = penalised /\ commands' = commands
      /\ \/ point = "respond" /\ point' = "delivered"
         \/ point = "handoff" /\ point' = "relay"
  BY Zenon DEF MarkStarted, FiniteStarted, Goto, loopVars, healthVars
<1>2. /\ exec' \in Executions /\ exec'.outcome = exec.outcome /\ exec'.stored = exec.stored
      /\ exec'.exhausted = exec.exhausted /\ exec'.passthrough = exec.passthrough
      /\ exec'.malformed = exec.malformed
  BY <1>1, Zenon DEF LoopInv, LoopTypes, Executions
<1>3. LoopTypes' /\ PairsInv'
  BY <1>1, <1>2, Zenon DEF LoopInv, LoopTypes, PairsInv
<1>4. AttemptsInv'
  BY <1>1, Zenon DEF LoopInv, AttemptsInv, Asking
<1>5. OutcomeInv'
  BY <1>1, <1>2, Zenon DEF LoopInv, OutcomeInv, EndedWell, Asking, Executing
<1>6. CommandInv'
  BY <1>1, Zenon DEF LoopInv, CommandInv
<1>7. QED
  BY <1>3, <1>4, <1>5, <1>6, Zenon DEF LoopInv

LEMMA ErrorOutcomes ==
    ASSUME NEW status, NEW signal
    PROVE  ErrorOutcome(status, signal) \in {"UpstreamError", "ClientError"}
BY SMT DEF ErrorOutcome

LEMMA ObservedAttempt ==
    ASSUME NEW source, NEW status, NEW signal, NEW phase
    PROVE  Observation(source, status, signal, phase).attempt = attempt
BY Zenon DEF Observation

\* The failures of a streaming request's attempt ...
LEMMA StreamFailures ==
    ASSUME \/ \E source, phase : UpstreamFails(source, phase)
           \/ \E status, signal : ProviderError(status, signal)
           \/ \E status : MalformedError(status)
    PROVE  FailedAttempt
<1>1. ASSUME NEW source, NEW phase, UpstreamFails(source, phase) PROVE FailedAttempt
  BY <1>1, DecidedFails, ObservedAttempt, Zenon DEF UpstreamFails, Asking
<1>2. ASSUME NEW status, NEW signal, ProviderError(status, signal) PROVE FailedAttempt
  <2> DEFINE o == Observation("ProviderResponse", status, signal, "response_status")
  <2>1. ErrorOutcome(status, signal) \in {"UpstreamError", "ClientError"}
    BY ErrorOutcomes
  <2>2. /\ DecideAndApply(Classify(o), ErrorOutcome(status, signal)) /\ Goto("effects")
        /\ UNCHANGED <<loopVars, clientGone, commands>> /\ point \in Asking
    BY <1>2, Zenon DEF ProviderError, Asking
  <2>3. o.attempt = attempt
    BY ObservedAttempt, Zenon
  <2> HIDE DEF o
  <2>4. QED
    BY <2>1, <2>2, <2>3, DecidedFails, Zenon
<1>3. ASSUME NEW status, MalformedError(status) PROVE FailedAttempt
  BY <1>3, DecidedFails, ObservedAttempt, Zenon DEF MalformedError, Asking
<1>4. QED
  BY <1>1, <1>2, <1>3, Zenon

\* ... and those of a finite one.
LEMMA FiniteFailures ==
    ASSUME \/ \E source : SubmitFails(source) \/ BodyFails(source)
           \/ AdaptationFails
           \/ \E status, signal : AnswerIsError(status, signal) \/ CompactIsError(status, signal)
           \/ \E status : \/ EmbeddingIsError(status) \/ AnswerMalformed(status)
                          \/ CompactMalformed(status)
           \/ EmbeddingMalformed
    PROVE  FailedAttempt
<1>1. ASSUME NEW o, NEW outcome \in {"UpstreamError", "ClientError"},
             o.attempt = attempt, point \in Asking, Fails(o, outcome) \/ FailsForGood(o, outcome)
      PROVE  FailedAttempt
  <2>1. CASE Fails(o, outcome)
    BY <1>1, <2>1, DecidedFails, Zenon DEF Fails
  <2>2. CASE FailsForGood(o, outcome)
    BY <1>1, <2>2, DecidedFails, Zenon DEF FailsForGood
  <2>3. QED
    BY <1>1, <2>1, <2>2
<1>2. "headers" \in Asking /\ "body" \in Asking
  BY Zenon DEF Asking
<1>3. ASSUME NEW source, SubmitFails(source) \/ BodyFails(source) PROVE FailedAttempt
  BY <1>1, <1>2, <1>3, ObservedAttempt, Zenon DEF SubmitFails, BodyFails
<1>4. CASE AdaptationFails
  <2> DEFINE o == Observation("LocalPreparation", 0, "none", "response_adaptation")
             p == Observation("ProviderResponse", 502, "none", "response_adaptation")
  <2>1. /\ point \in Asking
        /\ FailsForGood(o, "UpstreamError") \/ Fails(p, "UpstreamError")
    BY <1>2, <1>4 DEF AdaptationFails
  <2>2. o.attempt = attempt /\ p.attempt = attempt
    BY ObservedAttempt, SMT
  <2> HIDE DEF o, p
  <2>3. QED
    BY <1>1, <2>1, <2>2, Zenon
<1>5. ASSUME NEW status, NEW signal, AnswerIsError(status, signal) \/ CompactIsError(status, signal)
      PROVE  FailedAttempt
  <2> DEFINE o == Observation("ProviderResponse", status, signal, "response_status")
  <2>1. ErrorOutcome(status, signal) \in {"UpstreamError", "ClientError"}
    BY ErrorOutcomes
  <2>2. point \in Asking /\ Fails(o, ErrorOutcome(status, signal))
    BY <1>2, <1>5, Zenon DEF AnswerIsError, CompactIsError
  <2>3. o.attempt = attempt
    BY ObservedAttempt, SMT
  <2> HIDE DEF o
  <2>4. QED
    BY <1>1, <2>1, <2>2, <2>3, Zenon
<1>6. ASSUME NEW status, \/ EmbeddingIsError(status) \/ AnswerMalformed(status)
                         \/ CompactMalformed(status)
      PROVE  FailedAttempt
  BY <1>1, <1>2, <1>6, ObservedAttempt, Zenon
     DEF EmbeddingIsError, AnswerMalformed, CompactMalformed
<1>7. CASE EmbeddingMalformed
  <2> DEFINE o == Observation("ProviderResponse", 502, "none", "embedding_response")
  <2>1. point \in Asking /\ FailsForGood(o, "UpstreamError")
    BY <1>2, <1>7 DEF EmbeddingMalformed
  <2>2. o.attempt = attempt
    BY ObservedAttempt, SMT
  <2> HIDE DEF o
  <2>3. QED
    BY <1>1, <2>1, <2>2, Zenon
<1>8. QED
  BY <1>3, <1>4, <1>5, <1>6, <1>7, Zenon

LEMMA Decisions ==
    ASSUME \/ NoClaim /\ sent # <<>>
           \/ LocalFailure \/ ErrorBodySucceeds \/ PrepareFails \/ InvalidFacts \/ AnswerSucceeds
    PROVE  Decided
<1>1. CASE NoClaim /\ sent # <<>>
  BY <1>1, Zenon DEF NoClaim, PendingTerminal, Goto, Decided, Outcomes, healthVars
<1>2. CASE LocalFailure
  BY <1>2, Zenon DEF LocalFailure, PendingTerminal, Goto, Decided, Outcomes, healthVars, Asking
<1>3. CASE PrepareFails \/ InvalidFacts
  BY <1>3, Zenon
     DEF PrepareFails, InvalidFacts, PendingTerminal, Goto, Decided, Outcomes, healthVars, Asking
<1>4. CASE ErrorBodySucceeds \/ AnswerSucceeds
  BY <1>4, Zenon
     DEF ErrorBodySucceeds, AnswerSucceeds, PendingTerminal, Goto, Decided, Outcomes, Asking
<1>5. QED
  BY <1>1, <1>2, <1>3, <1>4

LEMMA Moving ==
    ASSUME \/ \E a : NoCandidate(a) \/ CapabilityMissed(a)
           \/ NoClaim /\ sent = <<>>
           \/ InternalError \/ \E ok : HeadersArrive(ok)
           \/ FiniteHeaders \/ EffectsApplied \/ ClientLeaves \/ DropRequest
    PROVE  MovesOn
<1>1. CASE \E a : NoCandidate(a) \/ CapabilityMissed(a)
  BY <1>1, Zenon DEF NoCandidate, CapabilityMissed, MovesOn, Moves, healthVars
<1>2. CASE NoClaim /\ sent = <<>>
  BY <1>2, Zenon DEF NoClaim, Goto, MovesOn, Moves, loopVars, healthVars
<1>3. CASE InternalError
  BY <1>3, Zenon DEF InternalError, Goto, MovesOn, Moves, loopVars, healthVars, Asking
<1>4. CASE FiniteHeaders \/ \E ok : HeadersArrive(ok)
  BY <1>4, Zenon DEF FiniteHeaders, HeadersArrive, Goto, MovesOn, Moves, loopVars, healthVars
<1>5. CASE EffectsApplied
  BY <1>5, Zenon DEF EffectsApplied, Goto, MovesOn, Moves, loopVars, healthVars
<1>6. CASE ClientLeaves
  BY <1>6, Zenon DEF ClientLeaves, MovesOn, loopVars, healthVars
<1>7. CASE DropRequest
  BY <1>7, Zenon DEF DropRequest, Goto, MovesOn, Moves, loopVars, healthVars, Asking
<1>8. QED
  BY <1>1, <1>2, <1>3, <1>4, <1>5, <1>6, <1>7

LEMMA Registrations ==
    ASSUME LoopInv,
           \/ CompleteDelivered
           \/ operation = "Stream" /\ (CompleteCancelled \/ DropExecution)
           \/ operation \in FiniteOperations /\ DropFinite
    PROVE  Registered
<1>1. CASE CompleteDelivered
  BY <1>1, Zenon DEF CompleteDelivered, Registered, Executing
<1>2. CASE CompleteCancelled \/ DropExecution
  <2>1. point \in Executing /\ RegisterFinal(UndeliveredOutcome(exec))
    BY <1>2, Zenon DEF CompleteCancelled, DropExecution, Executing
  <2>2. UndeliveredOutcome(exec) = "Completed" => exec.outcome = "Completed"
    BY Zenon DEF UndeliveredOutcome
  <2>3. exec.stored => UndeliveredOutcome(exec) = exec.outcome
    BY Zenon DEF UndeliveredOutcome
  <2>4. QED
    BY <2>1, <2>2, <2>3, Zenon DEF Registered
<1>3. CASE operation \in FiniteOperations /\ DropFinite
  <2>1. ~exec.stored
    BY <1>3, Zenon DEF LoopInv, OutcomeInv, FiniteOperations
  <2>2. QED
    BY <1>3, <2>1, Zenon DEF DropFinite, Registered, Executing
<1>4. QED
  BY <1>1, <1>2, <1>3

\* The relay's steps, and the answers it stores.
LEMMA Relays ==
    ASSUME LoopInv,
           \/ NextAfterEnd \/ PullBody \/ ChunkMalformed \/ ChunkSent
           \/ \E terminal \in {"none", "Completed", "Incomplete"} : ChunkForwarded(terminal)
    PROVE  Relayed
<1>1. CASE NextAfterEnd \/ PullBody \/ ChunkSent
  BY <1>1, Zenon
     DEF NextAfterEnd, PullBody, ChunkSent, Goto, Relayed, LoopInv, LoopTypes, healthVars
<1>2. CASE ChunkMalformed
  <2>1. /\ exec' = [exec EXCEPT !.bytes = TRUE, !.malformed = TRUE] /\ point = "pull"
        /\ point' = "relay" /\ ~exec.passthrough
        /\ UNCHANGED <<loopVars, credited, penalised, commands>>
    BY <1>2, Zenon DEF ChunkMalformed, Goto, healthVars
  <2>2. ~exec.exhausted
    BY <2>1, Zenon DEF LoopInv, OutcomeInv
  <2>3. /\ exec' \in Executions /\ exec'.outcome = exec.outcome /\ exec'.stored = exec.stored
        /\ exec'.exhausted = exec.exhausted /\ exec'.passthrough = exec.passthrough
    BY <2>1, Zenon DEF LoopInv, LoopTypes, Executions
  <2>4. QED
    BY <2>1, <2>2, <2>3, Zenon DEF Relayed
<1>3. ASSUME NEW terminal \in {"none", "Completed", "Incomplete"}, ChunkForwarded(terminal)
      PROVE  Relayed
  <2> DEFINE f == IF exec.forwarded = "none" THEN terminal ELSE exec.forwarded
  <2>1. /\ exec' = [exec EXCEPT !.bytes = TRUE, !.forwarded = f] /\ point = "pull"
        /\ point' = "sending"
        /\ UNCHANGED <<loopVars, credited, penalised, commands>>
    BY <1>3, Zenon DEF ChunkForwarded, Goto, healthVars
  <2>2. ~exec.exhausted
    BY <2>1, Zenon DEF LoopInv, OutcomeInv
  <2>3. f \in {"none", "Completed", "Incomplete"}
    BY Zenon DEF LoopInv, LoopTypes, Executions
  <2> HIDE DEF f
  <2>4. /\ exec' \in Executions /\ exec'.outcome = exec.outcome /\ exec'.stored = exec.stored
        /\ exec'.exhausted = exec.exhausted /\ exec'.passthrough = exec.passthrough
        /\ exec'.malformed = exec.malformed
    BY <2>1, <2>3, Zenon DEF LoopInv, LoopTypes, Executions
  <2>5. QED
    BY <2>1, <2>2, <2>4, Zenon DEF Relayed
<1>4. QED
  BY <1>1, <1>2, <1>3

LEMMA Closings ==
    ASSUME LoopInv, operation = "Stream",
           \/ StoreForwarded \/ StoreMidstream
           \/ \E summary \in {"Complete", "Terminal", "PrematureEof"} : StoreEof(summary)
    PROVE  Closes
<1>1. CASE StoreForwarded
  BY <1>1, Zenon DEF StoreForwarded, ClosesForwarded, Goto, Closes, Outcomes
<1>2. CASE StoreMidstream
  <2>1. point = "storing" /\ ~exec.exhausted
    BY <1>2, Zenon DEF StoreMidstream, LoopInv, OutcomeInv
  <2>2. QED
    BY <1>2, <2>1, Zenon DEF StoreMidstream, Goto, Closes, Outcomes, healthVars
<1>3. ASSUME NEW summary \in {"Complete", "Terminal", "PrematureEof"}, StoreEof(summary)
      PROVE  Closes
  <2> DEFINE class == EofClass(exec, summary)
             o == IF class = "Complete" THEN "Completed" ELSE "MidstreamError"
  <2>1. point = "pull" /\ ~exec.exhausted
    BY <1>3, Zenon DEF StoreEof, LoopInv, OutcomeInv
  <2>2. class = "Complete" => ~exec.malformed
    BY Zenon DEF EofClass, LoopInv, OutcomeInv
  <2>3. /\ point' \in {"sending", "delivered", "failed"} /\ exec' = Stored(exec, o)
        /\ class = "Complete" => Len(sent) \in credited'
        /\ UNCHANGED <<loopVars, penalised, commands>>
    BY <1>3, Zenon DEF StoreEof, Goto
  <2> HIDE DEF class
  <2>4. o \in Outcomes /\ (o = "Completed" => class = "Complete")
    BY Zenon DEF Outcomes
  <2> HIDE DEF o
  <2>5. QED
    BY <2>1, <2>2, <2>3, <2>4, Zenon DEF Closes
<1>4. QED
  BY <1>1, <1>2, <1>3

LEMMA LoopInvStep ==
    ASSUME LoopInv, [StreamNext \/ FiniteNext]_loopStateVars
    PROVE  LoopInv'
<1>1. CASE UNCHANGED loopStateVars
  BY <1>1, Zenon DEF loopStateVars, LoopInv, LoopTypes, AttemptsInv, PairsInv, OutcomeInv,
                     EndedWell, CommandInv
<1>2. CASE AttemptStep
  <2>1. CASE \E a \in Accounts : NoCandidate(a) \/ \E w \in WireSurfaces : SelectAndPublish(a, w)
    BY <2>1, Moving, MovesOnStep, PublishStep, Zenon
  <2>2. CASE NoClaim \/ LocalFailure \/ ErrorBodySucceeds
    BY <2>2, Moving, Decisions, MovesOnStep, DecidedStep, Zenon
  <2>3. CASE InternalError \/ EffectsApplied \/ \E ok \in BOOLEAN : HeadersArrive(ok)
    BY <2>3, Moving, MovesOnStep, Zenon
  <2>4. CASE \/ \E source, phase : UpstreamFails(source, phase)
             \/ \E status, signal : ProviderError(status, signal)
             \/ \E status : MalformedError(status)
    BY <2>4, StreamFailures, FailureStep, Zenon
  <2>5. CASE CleanupFinished \/ \E passthrough, bytes \in BOOLEAN : Prefetched(passthrough, bytes)
    BY <2>5, CleanupStep, HandoffStep, Zenon
  <2>6. QED
    BY <1>2, <2>1, <2>2, <2>3, <2>4, <2>5, SMT DEF AttemptStep
<1>3. CASE RelayStep
  <2>1. \/ MarkStarted \/ Registered \/ Relayed \/ Closes
        \/ \E source : MidstreamFault(source)
    BY <1>3, Registrations, Relays, Closings, Zenon DEF RelayStep
  <2>2. QED
    BY <2>1, StartedStep, RegisteredStep, RelayedStep, ClosesStep, FaultStep, Zenon
<1>4. CASE operation = "Stream" /\ (ClientLeaves \/ DropRequest \/ DropExecution)
  BY <1>4, Moving, Registrations, MovesOnStep, RegisteredStep, Zenon
<1>5. CASE FiniteStep
  <2>1. CASE \E a \in Accounts : \/ NoCandidate(a) \/ CapabilityMissed(a)
                               \/ \E w \in WireSurfaces : SelectAndPublish(a, w)
    BY <2>1, Moving, MovesOnStep, PublishStep, Zenon
  <2>2. CASE NoClaim \/ PrepareFails \/ InvalidFacts \/ AnswerSucceeds
    BY <2>2, Moving, Decisions, MovesOnStep, DecidedStep, Zenon
  <2>3. CASE InternalError \/ FiniteHeaders \/ EffectsApplied
    BY <2>3, Moving, MovesOnStep, Zenon
  <2>4. CASE \/ \E source : SubmitFails(source) \/ BodyFails(source)
             \/ AdaptationFails
             \/ \E status, signal : AnswerIsError(status, signal) \/ CompactIsError(status, signal)
             \/ \E status : \/ EmbeddingIsError(status) \/ AnswerMalformed(status)
                            \/ CompactMalformed(status)
             \/ EmbeddingMalformed
    BY <2>4, FiniteFailures, FailureStep, Zenon
  <2>5. CASE CleanupFinished \/ FiniteStarted \/ CompleteDelivered
    BY <2>5, CleanupStep, StartedStep, Registrations, RegisteredStep, Zenon
  <2>6. QED
    BY <1>5, <2>1, <2>2, <2>3, <2>4, <2>5, SMT DEF FiniteStep
<1>6. CASE operation \in FiniteOperations /\ (ClientLeaves \/ DropRequest \/ DropFinite)
  BY <1>6, Moving, Registrations, MovesOnStep, RegisteredStep, Zenon
<1>7. QED
  BY <1>1, <1>2, <1>3, <1>4, <1>5, <1>6, Zenon DEF StreamNext, FiniteNext

LEMMA LoopInitInv == ASSUME StreamInit \/ FiniteInit PROVE LoopInv
<1>1. LoopInit
  BY Zenon DEF StreamInit, FiniteInit
<1>2. /\ sent = <<>> /\ Len(sent) = 0 /\ attempt = 1 /\ point = "select" /\ commands = <<>>
      /\ penalised = {} /\ tried \in [Accounts -> SUBSET WireSurfaces] /\ effects = NoEffects
      /\ exec = NoExec
  BY <1>1 DEF LoopInit
<1>3. /\ exec \in Executions /\ exec.stored = FALSE /\ exec.exhausted = FALSE
      /\ exec.malformed = FALSE /\ exec.outcome = "none"
  BY <1>2, Zenon DEF NoExec, Executions, Outcomes
<1>4. LoopTypes
  BY <1>2, <1>3 DEF LoopTypes
<1>5. AttemptsInv
  BY <1>2, CoordinatorAssumption DEF AttemptsInv, Asking
<1>6. PairsInv
  BY <1>2 DEF PairsInv
<1>7. OutcomeInv
  BY <1>2, <1>3, Zenon DEF OutcomeInv, Asking
<1>8. CommandInv
  BY <1>2, Zenon DEF CommandInv
<1>9. QED
  BY <1>4, <1>5, <1>6, <1>7, <1>8, Zenon DEF LoopInv

\* Whatever the provider, the router and the client do, for every retry policy
\* and any accounts and wires: a request registers one command; one recorded as
\* Completed had its last attempt credited, not penalised, and no chunk
\* skipped; and a stored terminal is what complete() or Drop registers.
THEOREM RecordedAsEndedHolds == CoordinatorSpec => []RecordedAsEnded
<1>1. StreamInit \/ FiniteInit => LoopInv
  BY LoopInitInv
<1>2. LoopInv /\ [StreamNext \/ FiniteNext]_loopStateVars => LoopInv'
  BY LoopInvStep
<1>3. LoopInv => RecordedAsEnded
  BY Zenon DEF LoopInv, CommandInv, EndedWell, RecordedAsEnded
<1>4. QED
  BY <1>1, <1>2, <1>3, PTL DEF CoordinatorSpec

\* A request submits no wire of an account twice, and no more attempts than
\* its policy allows, for every policy and any accounts and wires
\* (execute_inner's attempted_wires and prepare_next).
THEOREM NoPairTwiceHolds == CoordinatorSpec => []NoPairTwice
<1>1. StreamInit \/ FiniteInit => LoopInv
  BY LoopInitInv
<1>2. LoopInv /\ [StreamNext \/ FiniteNext]_loopStateVars => LoopInv'
  BY LoopInvStep
<1>3. LoopInv => NoPairTwice
  <2> SUFFICES ASSUME LoopInv PROVE NoPairTwice
    OBVIOUS
  <2>1. /\ Len(sent) \in Nat /\ attempt \in Nat /\ max_attempts \in Nat
        /\ Len(sent) <= attempt /\ attempt <= max_attempts
    BY CoordinatorAssumption DEF LoopInv, LoopTypes, AttemptsInv
  <2>2. Len(sent) <= max_attempts
    BY <2>1
  <2>3. QED
    BY <2>2, Zenon DEF LoopInv, PairsInv, NoPairTwice
<1>4. QED
  BY <1>1, <1>2, <1>3, PTL DEF CoordinatorSpec

=============================================================================
