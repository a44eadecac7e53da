---------------------------- MODULE HealthProofs ----------------------------
(***************************************************************************)
(* What holds of the health of an account and its durable mirror, for any  *)
(* requests, models and Retry-After hints, any base delay, cap and         *)
(* promotion threshold, any number of reloads and restarts.  The first     *)
(* part bounds the backoff ladder, the second states what everything that  *)
(* holds a deadline may rely on and shows that every step preserves it.    *)
(***************************************************************************)
EXTENDS HealthState, FiniteSetTheorems, WellFoundedInduction, TLAPS

-----------------------------------------------------------------------------
(* The backoff ladder.                                                     *)

\* A set of naturals that is not empty has a least member.
LEMMA LeastOf ==
    ASSUME NEW S, S \subseteq Nat, S # {}
    PROVE  \E i \in S : \A j \in S : i <= j
<1>1. PICK i \in S : \A j \in S : <<j, i>> \notin OpToRel(<, Nat)
  BY NatLessThanWellFounded, WFMin, Zenon
<1>2. ASSUME NEW j \in S PROVE i <= j
  <2>1. i \in Nat /\ j \in Nat
    BY Zenon
  <2>2. ~(j < i)
    BY <1>1, <2>1, Zenon DEF OpToRel
  <2>3. QED
    BY <2>1, <2>2
<1>3. QED
  BY <1>2, Zenon

\* The maximum of a set of deadlines that has an upper bound.
LEMMA MaxBelow ==
    ASSUME NEW S, S # {}, NEW b \in Nat, \A x \in S : x \in Nat /\ x <= b
    PROVE  Max(S) \in Nat /\ Max(S) <= b
<1> DEFINE D == {b - x : x \in S}
<1>1. D \subseteq Nat /\ D # {}
  OBVIOUS
<1>2. PICK d \in D : \A e \in D : d <= e
  BY <1>1, LeastOf, Zenon
<1>3. PICK x \in S : d = b - x
  BY Zenon
<1>4. \A y \in S : x >= y
  <2> TAKE y \in S
  <2>1. d <= b - y
    BY <1>2, Zenon
  <2>2. x \in Nat /\ y \in Nat
    BY Zenon
  <2> HIDE DEF D
  <2>3. QED
    BY <1>3, <2>1, <2>2, SMT
<1>5. Max(S) \in S
  BY <1>4, Zenon DEF Max
<1>6. QED
  BY <1>5, Zenon

LEMMA MaxOfTwo ==
    ASSUME NEW a \in Nat, NEW b \in Nat
    PROVE  Max({a, b}) \in Nat /\ Max({a, b}) = (IF a >= b THEN a ELSE b)
<1>1. \E x \in {a, b} : \A y \in {a, b} : x >= y
  OBVIOUS
<1>2. Max({a, b}) \in {a, b} /\ \A y \in {a, b} : Max({a, b}) >= y
  BY <1>1, Zenon DEF Max
<1>3. QED
  <2> DEFINE n == Max({a, b})
  <2>1. (n = a \/ n = b) /\ n >= a /\ n >= b
    BY <1>2, Zenon
  <2> HIDE DEF n
  <2>2. n \in Nat /\ n = (IF a >= b THEN a ELSE b)
    BY <2>1, SMT
  <2>3. QED
    BY <2>2, Zenon DEF n

LEMMA MinOfTwo ==
    ASSUME NEW a \in Nat, NEW b \in Nat
    PROVE  Min({a, b}) \in Nat /\ Min({a, b}) = (IF a <= b THEN a ELSE b)
<1>1. \E x \in {a, b} : \A y \in {a, b} : x =< y
  OBVIOUS
<1>2. Min({a, b}) \in {a, b} /\ \A y \in {a, b} : Min({a, b}) =< y
  BY <1>1, Zenon DEF Min
<1>3. QED
  <2> DEFINE n == Min({a, b})
  <2>1. (n = a \/ n = b) /\ n <= a /\ n <= b
    BY <1>2, Zenon
  <2> HIDE DEF n
  <2>2. n \in Nat /\ n = (IF a <= b THEN a ELSE b)
    BY <2>1, SMT
  <2>3. QED
    BY <2>2, Zenon DEF n

Windows == 1 .. DelayCap

\* One more rung of the ladder.
Twice(d) == Min({2 * d, DelayCap})

LEMMA TwiceIsWindow == ASSUME NEW d \in Windows PROVE Twice(d) \in Windows
<1>1. d \in Nat /\ 1 <= d /\ 2 * d \in Nat /\ DelayCap \in Nat /\ 1 <= DelayCap
  BY HealthAssumption, SMT DEF Windows
<1>2. Twice(d) = (IF 2 * d <= DelayCap THEN 2 * d ELSE DelayCap)
  BY <1>1, MinOfTwo, Zenon DEF Twice
<1>3. QED
  BY <1>1, <1>2, SMT DEF Windows

\* The rungs up to the n-th.
IsLadder(p, n) ==
    /\ p \in [0 .. n -> Windows]
    /\ p[0] = BaseDelay
    /\ \A i \in 1 .. n : p[i] = Twice(p[i - 1])

LEMMA LaddersExist == \A n \in Nat : \E p : IsLadder(p, n)
<1> DEFINE S == {n \in Nat : ~\E p : IsLadder(p, n)}
<1> SUFFICES ASSUME S # {} PROVE FALSE
  BY Zenon
<1>1. PICK n \in S : \A k \in S : n <= k
  BY LeastOf, Zenon
<1>2. n \in Nat /\ ~\E p : IsLadder(p, n)
  BY Zenon
<1>3. BaseDelay \in Windows
  BY HealthAssumption, SMT DEF Windows
<1>4. CASE n = 0
  <2> DEFINE p == [i \in 0 .. 0 |-> BaseDelay]
  <2>1. p \in [0 .. 0 -> Windows] /\ p[0] = BaseDelay
    BY <1>3, SMT
  <2>2. 1 .. 0 = {}
    BY SMT
  <2> HIDE DEF p
  <2>3. IsLadder(p, 0)
    BY <2>1, <2>2, Zenon DEF IsLadder
  <2>4. QED
    BY <1>2, <1>4, <2>3, Zenon
<1>5. CASE n # 0
  <2>1. n - 1 \in Nat /\ ~(n <= n - 1)
    BY <1>2, <1>5, SMT
  <2>2. n - 1 \notin S
    BY <1>1, <2>1, Zenon
  <2>3. PICK q : IsLadder(q, n - 1)
    BY <2>1, <2>2, Zenon
  <2>4. q \in [0 .. n - 1 -> Windows] /\ q[0] = BaseDelay
        /\ \A i \in 1 .. n - 1 : q[i] = Twice(q[i - 1])
    BY <2>3, Zenon DEF IsLadder
  <2>5. q[n - 1] \in Windows
    BY <2>1, <2>4, SMT
  <2>6. Twice(q[n - 1]) \in Windows
    BY <2>5, TwiceIsWindow, Zenon
  <2> DEFINE t == Twice(q[n - 1])
             p == [i \in 0 .. n |-> IF i = n THEN t ELSE q[i]]
  <2>7. p \in [0 .. n -> Windows]
    <3> SUFFICES ASSUME NEW i \in 0 .. n PROVE (IF i = n THEN t ELSE q[i]) \in Windows
      BY Zenon
    <3>1. i # n => i \in 0 .. n - 1
      BY <1>2, SMT
    <3> HIDE DEF t
    <3>2. QED
      BY <2>4, <2>6, <3>1, Zenon DEF t
  <2>8. p[0] = BaseDelay
    <3>1. 0 \in 0 .. n /\ 0 # n
      BY <1>2, <1>5, SMT
    <3>2. QED
      BY <2>4, <3>1, Zenon
  <2>9. ASSUME NEW i \in 1 .. n PROVE p[i] = Twice(p[i - 1])
    <3>1. i \in 0 .. n /\ i - 1 \in 0 .. n /\ i - 1 # n /\ (i # n => i \in 1 .. n - 1)
      BY <1>2, SMT
    <3>2. p[i - 1] = q[i - 1] /\ p[i] = IF i = n THEN t ELSE q[i]
      BY <3>1, Zenon
    <3> HIDE DEF p
    <3>3. CASE i = n
      BY <3>2, <3>3, Zenon
    <3>4. CASE i # n
      <4> HIDE DEF t
      <4>1. QED
        BY <2>4, <3>1, <3>2, <3>4, Zenon
    <3>5. QED
      BY <3>3, <3>4
  <2> HIDE DEF p
  <2>10. IsLadder(p, n)
    BY <2>7, <2>8, <2>9, Zenon DEF IsLadder
  <2>11. QED
    BY <1>2, <2>10, Zenon
<1>6. QED
  BY <1>4, <1>5

\* Two ladders agree where both have a rung.
LEMMA LaddersAgree ==
    ASSUME NEW m \in Nat, NEW n \in Nat, NEW p, NEW q, IsLadder(p, m), IsLadder(q, n)
    PROVE  \A i \in 0 .. m : i \in 0 .. n => p[i] = q[i]
<1> DEFINE S == {i \in 0 .. m : i \in 0 .. n /\ p[i] # q[i]}
<1> SUFFICES ASSUME S # {} PROVE FALSE
  BY Zenon
<1>1. S \subseteq Nat
  BY SMT
<1>2. PICK i \in S : \A k \in S : i <= k
  BY <1>1, LeastOf, Zenon
<1>3. i \in 0 .. m /\ i \in 0 .. n /\ p[i] # q[i]
  BY Zenon
<1>4. i # 0
  BY <1>3, Zenon DEF IsLadder
<1>5. /\ i - 1 \in 0 .. m /\ i - 1 \in 0 .. n /\ ~(i <= i - 1)
      /\ i \in 1 .. m /\ i \in 1 .. n
  BY <1>3, <1>4, SMT
<1>6. p[i - 1] = q[i - 1]
  BY <1>2, <1>5, Zenon
<1>7. QED
  BY <1>3, <1>5, <1>6, Zenon DEF IsLadder

\* What compute_backoff_seconds makes of a rung.
LEMMA DoubledIsWindow == \A n \in Nat : Doubled[n] \in Windows
<1> DEFINE L(n) == CHOOSE p : IsLadder(p, n)
           g == [n \in Nat |-> L(n)[n]]
           F(h) == [n \in Nat |-> IF n = 0 THEN BaseDelay ELSE Min({2 * h[n - 1], DelayCap})]
<1>1. \A n \in Nat : IsLadder(L(n), n)
  BY LaddersExist, Zenon
<1> HIDE DEF L
<1>2. \A n \in Nat : g[n] \in Windows
  <2> SUFFICES ASSUME NEW n \in Nat PROVE L(n)[n] \in Windows
    BY Zenon
  <2>1. n \in 0 .. n
    BY SMT
  <2>2. QED
    BY <1>1, <2>1, Zenon DEF IsLadder
<1>3. ASSUME NEW n \in Nat PROVE g[n] = F(g)[n]
  <2>1. CASE n = 0
    BY <1>1, <2>1, Zenon DEF IsLadder
  <2>2. CASE n # 0
    <3>1. n - 1 \in Nat /\ n \in 1 .. n /\ n - 1 \in 0 .. n /\ n - 1 \in 0 .. n - 1
      BY <2>2, SMT
    <3>2. L(n)[n] = Twice(L(n)[n - 1])
      BY <1>1, <3>1, Zenon DEF IsLadder
    <3>3. L(n)[n - 1] = L(n - 1)[n - 1]
      <4> DEFINE k == n - 1
                 p == L(n)
                 q == L(k)
      <4>1. k \in Nat /\ IsLadder(p, n) /\ IsLadder(q, k)
        BY <1>1, <3>1, Zenon
      <4>2. k \in 0 .. n /\ k \in 0 .. k
        BY <3>1, Zenon
      <4> HIDE DEF k, p, q
      <4>3. \A i \in 0 .. n : i \in 0 .. k => p[i] = q[i]
        BY <4>1, LaddersAgree
      <4>4. p[k] = q[k]
        BY <4>2, <4>3, Zenon
      <4>5. QED
        BY <4>4, Zenon DEF k, p, q
    <3>4. g[n] = L(n)[n] /\ g[n - 1] = L(n - 1)[n - 1]
      BY <3>1, Zenon
    <3> HIDE DEF g
    <3>5. F(g)[n] = Min({2 * g[n - 1], DelayCap})
      BY <2>2, Zenon
    <3> HIDE DEF F
    <3>6. QED
      BY <3>2, <3>3, <3>4, <3>5, Zenon DEF Twice
  <2>3. QED
    BY <2>1, <2>2
<1>4. g = F(g)
  <2>a. g = [n \in Nat |-> g[n]]
    BY SMT
  <2> HIDE DEF g
  <2>b. F(g) = [n \in Nat |-> F(g)[n]]
    BY SMT
  <2> HIDE DEF F
  <2>1. g = [n \in Nat |-> g[n]] /\ F(g) = [n \in Nat |-> F(g)[n]]
    BY <2>a, <2>b
  <2>2. [n \in Nat |-> g[n]] = [n \in Nat |-> F(g)[n]]
    BY <1>3, SMT
  <2>3. QED
    BY <2>1, <2>2, Zenon
<1>5. Doubled = F(Doubled)
  <2>1. Doubled = CHOOSE h : h = F(h)
    BY Zenon DEF Doubled
  <2> HIDE DEF g, F
  <2>2. QED
    BY <1>4, <2>1, Zenon
<1>6. QED
  <2> DEFINE S == {n \in Nat : Doubled[n] \notin Windows}
  <2> SUFFICES ASSUME S # {} PROVE FALSE
    BY Zenon
  <2>1. PICK n \in S : \A k \in S : n <= k
    BY LeastOf, Zenon
  <2>2. n \in Nat /\ Doubled[n] \notin Windows
    BY Zenon
  <2>3. Doubled[n] = IF n = 0 THEN BaseDelay ELSE Twice(Doubled[n - 1])
    BY <1>5, <2>2, Zenon DEF Twice
  <2>4. n # 0
    BY <2>2, <2>3, HealthAssumption, SMT DEF Windows
  <2>5. n - 1 \in Nat /\ ~(n <= n - 1)
    BY <2>2, <2>4, SMT
  <2>6. Doubled[n - 1] \in Windows
    BY <2>1, <2>5, Zenon
  <2>7. QED
    BY <2>2, <2>3, <2>4, <2>6, TwiceIsWindow, Zenon

-----------------------------------------------------------------------------
(* Deadlines.                                                              *)

\* The fields of an account, of a quarantine entry and of a request.
AccountRecords ==
    [cooldown_until : Nat, cooldowns : Nat, failures : Nat, auth : BOOLEAN,
     disabled_models : [HealthModels -> Nat], model_failures : [HealthModels -> Nat]]
EntryStates == {"none", "Healthy", "Suspected", "Quarantined", "TerminalWithdrawn"}
EntryRecords == [state : EntryStates, count : Nat, expiry : Nat]
RowRecords == [until : Nat, rung : Nat]
CallRecords ==
    [at : {"idle", "flight", "quarantine", "model", "account", "done"},
     gen : 0 .. MaxEpoch, model : Scopes, reason : Reasons \cup {"none"},
     delay : Nat, deadline : Nat, rung : Nat, entry : EntryRecords, penalty : BOOLEAN]
Epochs == 1 .. MaxEpoch

\* Nothing reaches beyond the deadlines ap that live failures applied.
AccountBelow(a, ap) ==
    /\ a.cooldown_until <= ap[NoModel]
    /\ \A m \in HealthModels : a.disabled_models[m] <= ap[m]
ManagerOK(mg, ap) ==
    mg \in [Epochs -> AccountRecords] /\ \A g \in Epochs : AccountBelow(mg[g], ap)
EntriesOK(es, ap) ==
    es \in [HealthModels -> EntryRecords] /\ \A m \in HealthModels : es[m].expiry <= ap[m]
ObservedOK(ob, ap) ==
    /\ ob \in [Epochs -> [HealthModels -> EntryRecords]]
    /\ \A g \in Epochs : \A m \in HealthModels : ob[g][m].expiry <= ap[m]
RowsOK(b, ap) ==
    /\ b \in [Reasons -> [Scopes -> RowRecords]]
    /\ \A r \in TimedReasons, s \in Scopes : b[r][s].until <= ap[s]

\* What a request still has to write does not either, and a row without a
\* deadline is written for a rejected credential only.
CallOK(k, ap) ==
    /\ k.at = "flight" => k.gen \in Epochs /\ k.model \in HealthModels
    /\ k.at \in {"quarantine", "model"} =>
          /\ k.gen \in Epochs /\ k.model \in HealthModels
          /\ k.reason \in {"upstream_server_error", "model_unavailable"}
          /\ k.delay \in Windows
          /\ k.deadline # StickyBackoff /\ k.deadline <= ap[k.model]
          /\ k.entry.expiry <= ap[k.model]
    /\ k.at = "account" =>
          /\ k.reason \in Reasons
          /\ k.reason \in TimedReasons => k.deadline # StickyBackoff /\ k.deadline <= ap[NoModel]
CallsOK(cs, ap) == cs \in [Calls -> CallRecords] /\ \A c \in Calls : CallOK(cs[c], ap)
AppliedOK(ap, t) == ap \in [Scopes -> Nat] /\ \A s \in Scopes : ap[s] <= t + DelayCap

HealthInv ==
    /\ clock \in 0 .. MaxClock
    /\ epoch \in Epochs
    /\ candidate # "none" => epoch < MaxEpoch
    /\ ManagerOK(manager, applied)
    /\ ObservedOK(observed, applied)
    /\ RowsOK(backoffs, applied)
    /\ EntriesOK(entries, applied)
    /\ CallsOK(calls, applied)
    /\ AppliedOK(applied, clock)

LEMMA AtMost == ASSUME NEW a \in Nat, NEW b \in Nat, NEW c \in Nat, a <= b, b <= c PROVE a <= c
OBVIOUS

LEMMA ScopesAre == NoModel \in Scopes /\ \A m \in HealthModels : m \in Scopes
BY Zenon DEF Scopes

\* A deadline that grows leaves everything below it.
LEMMA Raised ==
    ASSUME NEW ap \in [Scopes -> Nat], NEW aq \in [Scopes -> Nat],
           \A s \in Scopes : ap[s] <= aq[s]
    PROVE  /\ \A mg : ManagerOK(mg, ap) => ManagerOK(mg, aq)
           /\ \A ob : ObservedOK(ob, ap) => ObservedOK(ob, aq)
           /\ \A b : RowsOK(b, ap) => RowsOK(b, aq)
           /\ \A es : EntriesOK(es, ap) => EntriesOK(es, aq)
           /\ \A cs : CallsOK(cs, ap) => CallsOK(cs, aq)
<1>0. \A n \in Nat, s \in Scopes : n <= ap[s] => n <= aq[s]
  <2> TAKE n \in Nat, s \in Scopes
  <2>1. ap[s] \in Nat /\ aq[s] \in Nat /\ ap[s] <= aq[s]
    BY Zenon
  <2>2. QED
    BY <2>1, AtMost
<1>1. ASSUME NEW mg, ManagerOK(mg, ap) PROVE ManagerOK(mg, aq)
  <2>1. ASSUME NEW g \in Epochs PROVE AccountBelow(mg[g], aq)
    <3>1. mg[g] \in AccountRecords /\ AccountBelow(mg[g], ap)
      BY <1>1, Zenon DEF ManagerOK
    <3>2. /\ mg[g].cooldown_until \in Nat
          /\ \A m \in HealthModels : mg[g].disabled_models[m] \in Nat
      BY <3>1, Zenon DEF AccountRecords
    <3>3. QED
      BY <1>0, <3>1, <3>2, ScopesAre, Zenon DEF AccountBelow
  <2>2. QED
    BY <1>1, <2>1, Zenon DEF ManagerOK
<1>2. ASSUME NEW ob, ObservedOK(ob, ap) PROVE ObservedOK(ob, aq)
  <2>1. ASSUME NEW g \in Epochs, NEW m \in HealthModels PROVE ob[g][m].expiry <= aq[m]
    <3>1. ob[g][m] \in EntryRecords /\ ob[g][m].expiry <= ap[m]
      BY <1>2, Zenon DEF ObservedOK
    <3>2. ob[g][m].expiry \in Nat
      BY <3>1, Zenon DEF EntryRecords
    <3>3. QED
      BY <1>0, <3>1, <3>2, ScopesAre, Zenon
  <2>2. QED
    BY <1>2, <2>1, Zenon DEF ObservedOK
<1>3. ASSUME NEW b, RowsOK(b, ap) PROVE RowsOK(b, aq)
  <2>1. ASSUME NEW r \in TimedReasons, NEW s \in Scopes PROVE b[r][s].until <= aq[s]
    <3>1. b[r][s] \in RowRecords /\ b[r][s].until <= ap[s]
      BY <1>3, Zenon DEF RowsOK, TimedReasons
    <3>2. b[r][s].until \in Nat
      BY <3>1, Zenon DEF RowRecords
    <3>3. QED
      BY <1>0, <3>1, <3>2, Zenon
  <2>2. QED
    BY <1>3, <2>1, Zenon DEF RowsOK
<1>4. ASSUME NEW es, EntriesOK(es, ap) PROVE EntriesOK(es, aq)
  <2>1. ASSUME NEW m \in HealthModels PROVE es[m].expiry <= aq[m]
    <3>1. es[m] \in EntryRecords /\ es[m].expiry <= ap[m]
      BY <1>4, Zenon DEF EntriesOK
    <3>2. es[m].expiry \in Nat
      BY <3>1, Zenon DEF EntryRecords
    <3>3. QED
      BY <1>0, <3>1, <3>2, ScopesAre, Zenon
  <2>2. QED
    BY <1>4, <2>1, Zenon DEF EntriesOK
<1>5. ASSUME NEW cs, CallsOK(cs, ap) PROVE CallsOK(cs, aq)
  <2>1. ASSUME NEW c \in Calls PROVE CallOK(cs[c], aq)
    <3> DEFINE k == cs[c]
    <3>1. k \in CallRecords /\ CallOK(k, ap)
      BY <1>5, Zenon DEF CallsOK
    <3> HIDE DEF k
    <3>2. k.deadline \in Nat /\ k.model \in Scopes /\ k.entry \in EntryRecords
      BY <3>1, Zenon DEF CallRecords
    <3>3. k.entry.expiry \in Nat
      BY <3>2, Zenon DEF EntryRecords
    <3>4. CallOK(k, aq)
      BY <1>0, <3>1, <3>2, <3>3, ScopesAre, Zenon DEF CallOK
    <3>5. QED
      BY <3>4, Zenon DEF k
  <2>2. QED
    BY <1>5, <2>1, Zenon DEF CallsOK
<1>6. QED
  BY <1>1, <1>2, <1>3, <1>4, <1>5, Zenon

\* One account, one entry, one row or one request replaced.
LEMMA ManagerPut ==
    ASSUME NEW ap, NEW mg, ManagerOK(mg, ap), NEW g \in Epochs,
           NEW a \in AccountRecords, AccountBelow(a, ap)
    PROVE  ManagerOK([mg EXCEPT ![g] = a], ap)
BY Zenon DEF ManagerOK

LEMMA EntriesPut ==
    ASSUME NEW ap, NEW es, EntriesOK(es, ap), NEW m \in HealthModels,
           NEW e \in EntryRecords, e.expiry <= ap[m]
    PROVE  EntriesOK([es EXCEPT ![m] = e], ap)
BY Zenon DEF EntriesOK

LEMMA ObservedPut ==
    ASSUME NEW ap, NEW ob, ObservedOK(ob, ap), NEW g \in Epochs, NEW m \in HealthModels,
           NEW e \in EntryRecords, e.expiry <= ap[m]
    PROVE  ObservedOK([ob EXCEPT ![g][m] = e], ap)
<1> DEFINE es == [ob[g] EXCEPT ![m] = e]
<1>1. es \in [HealthModels -> EntryRecords] /\ \A n \in HealthModels : es[n].expiry <= ap[n]
  BY Zenon DEF ObservedOK
<1>2. [ob EXCEPT ![g][m] = e] = [ob EXCEPT ![g] = es]
  BY Zenon DEF ObservedOK
<1> HIDE DEF es
<1>3. ObservedOK([ob EXCEPT ![g] = es], ap)
  BY <1>1, Zenon DEF ObservedOK
<1>4. QED
  BY <1>2, <1>3, Zenon

LEMMA RowsPut ==
    ASSUME NEW ap, NEW b, RowsOK(b, ap), NEW r \in Reasons, NEW s \in Scopes,
           NEW w \in RowRecords, r \in TimedReasons => w.until <= ap[s]
    PROVE  RowsOK([b EXCEPT ![r][s] = w], ap)
<1> DEFINE ws == [b[r] EXCEPT ![s] = w]
<1>1. /\ ws \in [Scopes -> RowRecords]
      /\ r \in TimedReasons => \A t \in Scopes : ws[t].until <= ap[t]
  BY Zenon DEF RowsOK
<1>2. [b EXCEPT ![r][s] = w] = [b EXCEPT ![r] = ws]
  BY Zenon DEF RowsOK
<1> HIDE DEF ws
<1>3. RowsOK([b EXCEPT ![r] = ws], ap)
  BY <1>1, Zenon DEF RowsOK, TimedReasons
<1>4. QED
  BY <1>2, <1>3, Zenon

LEMMA CallsPut ==
    ASSUME NEW ap, NEW cs, CallsOK(cs, ap), NEW c \in Calls,
           NEW k \in CallRecords, CallOK(k, ap)
    PROVE  CallsOK([cs EXCEPT ![c] = k], ap)
BY Zenon DEF CallsOK

LEMMA BumpIsNat == ASSUME NEW n \in Nat PROVE Bump(n) \in Nat
<1>1. n + 1 \in Nat /\ DelayCap \in Nat
  BY HealthAssumption, SMT
<1>2. QED
  BY <1>1, MinOfTwo, Zenon DEF Bump

LEMMA RungIsPositive ==
    ASSUME NEW a \in AccountRecords, NEW m \in HealthModels, NEW reason
    PROVE  Rung(a, m, reason) \in Nat /\ Rung(a, m, reason) - 1 \in Nat
<1>1. a.model_failures[m] \in Nat /\ a.failures \in Nat /\ a.cooldowns \in Nat
  BY Zenon DEF AccountRecords
<1>2. Max({a.failures, a.cooldowns}) \in Nat
  BY <1>1, MaxOfTwo, Zenon
<1> DEFINE x == a.model_failures[m]
           y == Max({a.failures, a.cooldowns})
<1>3. Rung(a, m, reason) = x + 1 \/ Rung(a, m, reason) = y + 1
  BY Zenon DEF Rung
<1>4. x \in Nat /\ y \in Nat
  BY <1>1, <1>2, Zenon
<1> HIDE DEF x, y
<1>5. QED
  BY <1>3, <1>4, SMT

\* A timed reason backs off for at least a second and at most the cap.
LEMMA DelayIsWindow ==
    ASSUME NEW reason \in TimedReasons, NEW rung, rung - 1 \in Nat, NEW hint \in Nat
    PROVE  Delay(reason, rung, hint) \in Windows
<1>1. reason # "authentication_failed"
  BY Zenon DEF TimedReasons
<1>2. CASE reason = "rate_limited" /\ hint > 0
  <2> DEFINE low == Min({hint, DelayCap})
             d == Max({BaseDelay, low})
  <2>1. low \in Nat /\ low = (IF hint <= DelayCap THEN hint ELSE DelayCap)
    BY HealthAssumption, MinOfTwo, Zenon
  <2>2. d \in Nat /\ d = (IF BaseDelay >= low THEN BaseDelay ELSE low)
    <3> HIDE DEF low
    <3>1. QED
      BY <2>1, HealthAssumption, MaxOfTwo, Zenon
  <2>3. Delay(reason, rung, hint) = d
    BY <1>1, <1>2, Zenon DEF Delay
  <2> HIDE DEF low, d
  <2>4. d \in Windows
    BY <2>1, <2>2, HealthAssumption, SMT DEF Windows
  <2>5. QED
    BY <2>3, <2>4, Zenon
<1>3. CASE ~(reason = "rate_limited" /\ hint > 0)
  <2>1. Delay(reason, rung, hint) = Doubled[rung - 1]
    BY <1>1, <1>3, Zenon DEF Delay
  <2>2. QED
    BY <2>1, DoubledIsWindow, Zenon
<1>4. QED
  BY <1>2, <1>3, Zenon

LEMMA WindowsAre ==
    ASSUME NEW d \in Windows, clock \in 0 .. MaxClock
    PROVE  /\ d \in Nat /\ d > 0 /\ d # 0 /\ d <= DelayCap
           /\ clock + d \in Nat /\ clock + d # StickyBackoff /\ clock + d <= clock + DelayCap
BY HealthAssumption, SMT DEF Windows, StickyBackoff

LEMMA IdleIsOK ==
    ASSUME NEW ap
    PROVE  /\ NoEntry \in EntryRecords /\ Withdrawn \in EntryRecords
           /\ IdleCall \in CallRecords /\ DoneCall \in CallRecords
           /\ CallOK(IdleCall, ap) /\ CallOK(DoneCall, ap)
<1>1. NoEntry \in EntryRecords
  BY SMT DEF NoEntry, EntryRecords, EntryStates
<1>2. Withdrawn \in EntryRecords
  BY SMT DEF Withdrawn, EntryRecords, EntryStates
<1>3. 0 \in 0 .. MaxEpoch
  BY HealthAssumption, SMT
<1>4. IdleCall \in CallRecords /\ IdleCall.at = "idle"
  BY <1>1, <1>3, ScopesAre, Zenon DEF IdleCall, CallRecords
<1>5. DoneCall \in CallRecords /\ DoneCall.at = "done"
  BY <1>4, Zenon DEF DoneCall, CallRecords
<1>6. QED
  BY <1>1, <1>2, <1>4, <1>5, Zenon DEF CallOK

LEMMA LaterIs ==
    ASSUME NEW a \in Nat, NEW b \in Nat
    PROVE  /\ Later(a, b) \in Nat /\ a <= Later(a, b) /\ b <= Later(a, b)
           /\ \A c \in Nat : a <= c /\ b <= c => Later(a, b) <= c
BY SMT DEF Later

\* A deadline applied to one scope.
LEMMA Applies ==
    ASSUME HealthInv, NEW s \in Scopes, NEW d \in Windows,
           NEW ap, ap = [applied EXCEPT ![s] = Later(@, clock + d)]
    PROVE  /\ AppliedOK(ap, clock)
           /\ \A t \in Scopes : applied[t] <= ap[t]
           /\ clock + d <= ap[s]
           /\ ap = [applied EXCEPT ![s] = Later(applied[s], clock + d)]
<1>1. clock \in 0 .. MaxClock /\ applied \in [Scopes -> Nat]
      /\ \A t \in Scopes : applied[t] <= clock + DelayCap
  BY Zenon DEF HealthInv, AppliedOK
<1>2. clock + d \in Nat /\ clock + d <= clock + DelayCap /\ clock + DelayCap \in Nat
  BY <1>1, HealthAssumption, SMT DEF Windows
<1> DEFINE n == Later(applied[s], clock + d)
<1>3. n \in Nat /\ applied[s] <= n /\ clock + d <= n /\ n <= clock + DelayCap
  BY <1>1, <1>2, LaterIs, Zenon
<1>4. ap = [applied EXCEPT ![s] = n]
  BY Zenon
<1> HIDE DEF n
<1>5. ap \in [Scopes -> Nat] /\ ap[s] = n /\ \A t \in Scopes : t # s => ap[t] = applied[t]
  BY <1>1, <1>3, <1>4, Zenon
<1>6. \A t \in Scopes : applied[t] <= applied[t]
  BY <1>1, SMT
<1>7. \A t \in Scopes : applied[t] <= ap[t] /\ ap[t] <= clock + DelayCap
  BY <1>1, <1>3, <1>5, <1>6, Zenon
<1>8. QED
  BY <1>3, <1>4, <1>5, <1>7, Zenon DEF AppliedOK, n

LEMMA Invariants ==
    ASSUME HealthInv
    PROVE  /\ clock \in 0 .. MaxClock /\ epoch \in Epochs /\ applied \in [Scopes -> Nat]
           /\ ManagerOK(manager, applied) /\ ObservedOK(observed, applied)
           /\ RowsOK(backoffs, applied) /\ EntriesOK(entries, applied)
           /\ CallsOK(calls, applied) /\ AppliedOK(applied, clock)
BY Zenon DEF HealthInv, AppliedOK

\* The account part of apply_failure_effects, after either kind of failure.
LEMMA AccountPartStep ==
    ASSUME HealthInv, NEW c \in Calls, NEW call \in CallRecords, call.gen \in Epochs,
           call.penalty => call.reason \in Reasons,
           call.penalty /\ call.reason \in TimedReasons => call.delay \in Windows,
           call.penalty /\ call.reason \notin TimedReasons => call.delay = 0,
           NEW a \in AccountRecords, AccountBelow(a, applied),
           AccountPart(c, call, a, applied)
    PROVE  /\ ManagerOK(manager', applied') /\ CallsOK(calls', applied')
           /\ AppliedOK(applied', clock)
           /\ applied' \in [Scopes -> Nat] /\ \A s \in Scopes : applied[s] <= applied'[s]
<1>0. /\ clock \in 0 .. MaxClock /\ applied \in [Scopes -> Nat] /\ AppliedOK(applied, clock)
      /\ ManagerOK(manager, applied) /\ CallsOK(calls, applied)
  BY Invariants, Zenon
<1>a. \A s \in Scopes : applied[s] <= applied[s]
  BY <1>0, SMT
<1>1. CASE ~call.penalty
  <2>1. /\ manager' = [manager EXCEPT ![call.gen] = a] /\ applied' = applied
        /\ calls' = [calls EXCEPT ![c] = DoneCall]
    BY <1>1, Zenon DEF AccountPart
  <2>2. QED
    BY <1>0, <1>a, <2>1, ManagerPut, CallsPut, IdleIsOK, Zenon
<1>2. CASE call.penalty /\ call.reason \in TimedReasons
  <2>1. call.delay \in Windows
    BY <1>2, Zenon
  <2>2. /\ call.delay > 0 /\ call.delay \in Nat /\ clock + call.delay \in Nat
        /\ clock + call.delay # StickyBackoff
    BY <1>0, <2>1, WindowsAre, Zenon
  <2> DEFINE n == clock + call.delay
             k == [call EXCEPT !.at = "account", !.deadline = n]
             b == [a EXCEPT !.cooldowns = Bump(@), !.cooldown_until = Later(@, n)]
             ap == [applied EXCEPT ![NoModel] = Later(@, n)]
  <2>3. /\ manager' = [manager EXCEPT ![call.gen] = b] /\ applied' = ap
        /\ calls' = [calls EXCEPT ![c] = k]
    BY <1>2, <2>2, Zenon DEF AccountPart, Cooled
  <2>4. /\ AppliedOK(ap, clock) /\ \A t \in Scopes : applied[t] <= ap[t]
        /\ n <= ap[NoModel]
    BY <2>1, ScopesAre, Applies, Zenon
  <2>5. ap \in [Scopes -> Nat]
    BY <2>4, Zenon DEF AppliedOK
  <2> HIDE DEF ap
  <2>6. ManagerOK(manager, ap) /\ CallsOK(calls, ap)
    BY <1>0, <2>4, <2>5, Raised, Zenon
  <2>7. k \in CallRecords /\ k.at = "account" /\ k.deadline = n /\ k.reason = call.reason
    BY <2>2, Zenon DEF CallRecords
  <2>8. CallOK(k, ap)
    <3> HIDE DEF k
    <3>0. k.reason \in Reasons
      BY <1>2, <2>7, Zenon
    <3>1. QED
      BY <2>2, <2>4, <2>7, <3>0, Zenon DEF CallOK
  <2>9. a.cooldowns \in Nat /\ a.cooldown_until \in Nat
        /\ \A m \in HealthModels : a.disabled_models[m] \in Nat
    BY Zenon DEF AccountRecords
  <2>10. Bump(a.cooldowns) \in Nat /\ Later(a.cooldown_until, n) \in Nat
    BY <2>2, <2>9, BumpIsNat, LaterIs, Zenon
  <2>11. /\ b \in AccountRecords /\ b.cooldown_until = Later(a.cooldown_until, n)
         /\ b.disabled_models = a.disabled_models
    BY <2>10, Zenon DEF AccountRecords
  <2>12. AccountBelow(b, ap)
    <3>1. a.cooldown_until <= applied[NoModel] /\ applied[NoModel] <= ap[NoModel]
          /\ applied[NoModel] \in Nat /\ ap[NoModel] \in Nat
      BY <1>0, <2>4, <2>5, ScopesAre, Zenon DEF AccountBelow
    <3>2. a.cooldown_until <= ap[NoModel]
      BY <2>9, <3>1, AtMost
    <3>3. Later(a.cooldown_until, n) <= ap[NoModel]
      BY <2>2, <2>4, <2>9, <3>1, <3>2, LaterIs, Zenon
    <3>4. ASSUME NEW m \in HealthModels PROVE a.disabled_models[m] <= ap[m]
      <4>1. /\ a.disabled_models[m] <= applied[m] /\ applied[m] <= ap[m]
            /\ applied[m] \in Nat /\ ap[m] \in Nat /\ a.disabled_models[m] \in Nat
        BY <1>0, <2>4, <2>5, <2>9, ScopesAre, Zenon DEF AccountBelow
      <4>2. QED
        BY <4>1, AtMost
    <3> HIDE DEF b
    <3>5. QED
      BY <2>11, <3>3, <3>4, Zenon DEF AccountBelow
  <2> HIDE DEF b, k, n
  <2>13. ManagerOK([manager EXCEPT ![call.gen] = b], ap)
    BY <2>6, <2>11, <2>12, ManagerPut, Zenon
  <2>14. CallsOK([calls EXCEPT ![c] = k], ap)
    BY <2>6, <2>7, <2>8, CallsPut, Zenon
  <2>15. QED
    BY <2>3, <2>4, <2>5, <2>13, <2>14, Zenon
<1>3. CASE call.penalty /\ call.reason \notin TimedReasons
  <2>1. call.delay = 0 /\ ~(call.delay > 0)
    BY <1>3, SMT
  <2> DEFINE k == [call EXCEPT !.at = "account", !.deadline = StickyBackoff]
             b == [a EXCEPT !.failures = Bump(@), !.auth = TRUE]
  <2>2. /\ manager' = [manager EXCEPT ![call.gen] = b] /\ applied' = applied
        /\ calls' = [calls EXCEPT ![c] = k]
    BY <1>3, <2>1, Zenon DEF AccountPart, Rejected
  <2>3. StickyBackoff \in Nat
    BY HealthAssumption, SMT DEF StickyBackoff
  <2>4. k \in CallRecords /\ k.at = "account" /\ k.reason = call.reason
    BY <2>3, Zenon DEF CallRecords
  <2>5. Bump(a.failures) \in Nat
    BY BumpIsNat, Zenon DEF AccountRecords
  <2>6. /\ b \in AccountRecords /\ b.cooldown_until = a.cooldown_until
        /\ b.disabled_models = a.disabled_models
    BY <2>5, Zenon DEF AccountRecords
  <2> HIDE DEF k, b
  <2>7. CallOK(k, applied)
    BY <1>3, <2>4, Zenon DEF CallOK
  <2>8. AccountBelow(b, applied)
    BY <2>6, Zenon DEF AccountBelow
  <2>9. QED
    BY <1>0, <1>a, <2>2, <2>4, <2>6, <2>7, <2>8, ManagerPut, CallsPut, Zenon
<1>4. QED
  BY <1>1, <1>2, <1>3, Zenon

\* A step that leaves clock, generations and the rest to be shown.
LEMMA HealthFrame ==
    ASSUME HealthInv, UNCHANGED <<clock, epoch, candidate>>,
           applied' \in [Scopes -> Nat], \A s \in Scopes : applied[s] <= applied'[s],
           AppliedOK(applied', clock),
           manager' = manager \/ ManagerOK(manager', applied'),
           observed' = observed \/ ObservedOK(observed', applied'),
           backoffs' = backoffs \/ RowsOK(backoffs', applied'),
           entries' = entries \/ EntriesOK(entries', applied'),
           calls' = calls \/ CallsOK(calls', applied')
    PROVE  HealthInv'
<1>1. /\ applied \in [Scopes -> Nat]
      /\ ManagerOK(manager, applied) /\ ObservedOK(observed, applied)
      /\ RowsOK(backoffs, applied) /\ EntriesOK(entries, applied)
      /\ CallsOK(calls, applied)
  BY Invariants, Zenon
<1>2. /\ ManagerOK(manager, applied') /\ ObservedOK(observed, applied')
      /\ RowsOK(backoffs, applied') /\ EntriesOK(entries, applied')
      /\ CallsOK(calls, applied')
  BY <1>1, Raised, Zenon
<1>3. /\ ManagerOK(manager', applied') /\ ObservedOK(observed', applied')
      /\ RowsOK(backoffs', applied') /\ EntriesOK(entries', applied')
      /\ CallsOK(calls', applied')
  BY <1>2, Zenon
<1>4. clock' = clock /\ epoch' = epoch /\ candidate' = candidate
  BY Zenon
<1>5. QED
  BY <1>3, <1>4, Zenon DEF HealthInv, ManagerOK, ObservedOK, RowsOK, EntriesOK, CallsOK,
     AppliedOK, AccountBelow, CallOK, Epochs, StickyBackoff, Windows

LEMMA CallIsOK ==
    ASSUME HealthInv, NEW c \in Calls
    PROVE  calls[c] \in CallRecords /\ CallOK(calls[c], applied)
BY Invariants, Zenon DEF CallsOK

LEMMA AccountAt ==
    ASSUME HealthInv, NEW g \in Epochs
    PROVE  manager[g] \in AccountRecords /\ AccountBelow(manager[g], applied)
BY Invariants, Zenon DEF ManagerOK

LEMMA Unapplied ==
    ASSUME HealthInv, applied' = applied
    PROVE  /\ applied' \in [Scopes -> Nat] /\ \A s \in Scopes : applied[s] <= applied'[s]
           /\ AppliedOK(applied', clock)
<1>1. applied \in [Scopes -> Nat] /\ AppliedOK(applied, clock)
  BY Invariants, Zenon
<1>2. \A s \in Scopes : applied[s] <= applied[s]
  BY <1>1, SMT
<1>3. QED
  BY <1>1, <1>2, Zenon

LEMMA RouteStep ==
    ASSUME HealthInv, NEW c \in Calls, NEW m \in HealthModels, Route(c, m) PROVE HealthInv'
<1> DEFINE k == [IdleCall EXCEPT !.at = "flight", !.gen = epoch, !.model = m]
<1>1. calls' = [calls EXCEPT ![c] = k] /\ applied' = applied
  BY Zenon DEF Route
<1>2. epoch \in Epochs /\ epoch \in 0 .. MaxEpoch
  BY HealthAssumption, SMT DEF HealthInv, Epochs
<1>3. k \in CallRecords /\ k.at = "flight" /\ k.gen = epoch /\ k.model = m
  BY <1>2, IdleIsOK, ScopesAre, Zenon DEF CallRecords
<1> HIDE DEF k
<1>4. CallOK(k, applied)
  BY <1>2, <1>3, Zenon DEF CallOK
<1>5. CallsOK(calls', applied')
  BY <1>1, <1>3, <1>4, Invariants, CallsPut, Zenon
<1>6. QED
  BY <1>1, <1>5, Unapplied, HealthFrame, Zenon DEF Route

LEMMA SuccessStep ==
    ASSUME HealthInv, NEW c \in Calls, CallSucceeds(c) PROVE HealthInv'
<1> DEFINE g == calls[c].gen
           m == calls[c].model
           a == Succeeded(manager[g], m)
           e == Reappeared(observed[g][m])
<1>0. applied' = applied /\ calls' = [calls EXCEPT ![c] = DoneCall]
  BY Zenon DEF CallSucceeds
<1>1. g \in Epochs /\ m \in HealthModels
  BY CallIsOK, Zenon DEF CallSucceeds, CallOK
<1>2. /\ manager[g] \in AccountRecords /\ AccountBelow(manager[g], applied)
      /\ observed[g][m] \in EntryRecords /\ observed[g][m].expiry <= applied[m]
  BY <1>1, AccountAt, Invariants, Zenon DEF ObservedOK
<1>3. manager' = [manager EXCEPT ![g] = a] /\ observed' = [observed EXCEPT ![g][m] = e]
  BY <1>1, Invariants, Zenon DEF CallSucceeds, ManagerOK, ObservedOK
<1> HIDE DEF g, m
<1>4. e \in EntryRecords /\ e.expiry <= applied[m]
  BY <1>2, Zenon DEF Reappeared, EntryRecords, EntryStates
<1>5. /\ a \in AccountRecords
      /\ a.cooldown_until = manager[g].cooldown_until \/ a.cooldown_until = 0
      /\ a.disabled_models = [manager[g].disabled_models EXCEPT ![m] = 0]
  <2> DEFINE b == manager[g]
             t == IF b.auth \/ b.cooldown_until > clock THEN b.cooldown_until ELSE 0
             ds == [b.disabled_models EXCEPT ![m] = 0]
             fs == [b.model_failures EXCEPT ![m] = 0]
  <2>1. b \in AccountRecords
    BY <1>2
  <2>2. a = [b EXCEPT !.failures = 0, !.cooldowns = 0, !.cooldown_until = t,
                      !.disabled_models = ds, !.model_failures = fs]
    BY <2>1, Zenon DEF Succeeded, AccountRecords
  <2> HIDE DEF b
  <2>3. t \in Nat /\ ds \in [HealthModels -> Nat] /\ fs \in [HealthModels -> Nat]
    BY <1>1, <2>1, SMT DEF AccountRecords
  <2>4. t = b.cooldown_until \/ t = 0
    BY Zenon
  <2> HIDE DEF a, t, ds, fs
  <2>5. a \in AccountRecords /\ a.cooldown_until = t /\ a.disabled_models = ds
    BY <2>1, <2>2, <2>3, Zenon DEF AccountRecords
  <2>6. QED
    BY <2>4, <2>5, Zenon DEF b, ds
<1>6. AccountBelow(a, applied)
  <2>1. \A s \in Scopes : applied[s] \in Nat /\ 0 <= applied[s]
    BY Invariants, SMT
  <2>2. manager[g].disabled_models \in [HealthModels -> Nat]
    BY <1>2, Zenon DEF AccountRecords
  <2> HIDE DEF a
  <2>3. \A n \in HealthModels : a.disabled_models[n] = 0 \/ a.disabled_models[n] = manager[g].disabled_models[n]
    BY <1>1, <1>5, <2>2, Zenon
  <2>4. \A n \in HealthModels : a.disabled_models[n] <= applied[n]
    BY <1>2, <2>1, <2>3, ScopesAre, Zenon DEF AccountBelow
  <2>5. a.cooldown_until <= applied[NoModel]
    BY <1>2, <1>5, <2>1, ScopesAre, Zenon DEF AccountBelow
  <2>6. QED
    BY <2>4, <2>5, Zenon DEF AccountBelow
<1> HIDE DEF a, e
<1>7. ManagerOK(manager', applied') /\ ObservedOK(observed', applied')
  BY <1>0, <1>1, <1>3, <1>4, <1>5, <1>6, Invariants, ManagerPut, ObservedPut, Zenon
<1>8. CallsOK(calls', applied')
  BY <1>0, Invariants, IdleIsOK, CallsPut, Zenon
<1>9. QED
  BY <1>0, <1>7, <1>8, Unapplied, HealthFrame, Zenon DEF CallSucceeds

LEMMA AccountFailsStep ==
    ASSUME HealthInv, NEW c \in Calls, NEW reason \in Reasons, NEW hint \in RetryHints,
           AccountFails(c, reason, hint)
    PROVE  HealthInv'
<1> DEFINE g == calls[c].gen
           m == calls[c].model
           rung == Rung(manager[g], m, reason)
           d == Delay(reason, rung, hint)
           call == [calls[c] EXCEPT !.reason = reason, !.penalty = TRUE, !.rung = rung,
                                    !.delay = d]
<1>1. /\ calls[c] \in CallRecords /\ g \in Epochs /\ m \in HealthModels
      /\ AccountPart(c, call, manager[g], applied) /\ hint \in Nat
  BY CallIsOK, HealthAssumption, Zenon DEF AccountFails, CallOK
<1>2. manager[g] \in AccountRecords /\ AccountBelow(manager[g], applied)
  BY <1>1, AccountAt, Zenon
<1>3. rung \in Nat /\ rung - 1 \in Nat
  BY <1>1, <1>2, RungIsPositive, Zenon
<1>4. /\ reason \in TimedReasons => d \in Windows
      /\ reason \notin TimedReasons => d = 0
  <2>1. reason \in TimedReasons => d \in Windows
    BY <1>1, <1>3, DelayIsWindow, Zenon
  <2>2. reason \notin TimedReasons => d = 0
    BY Zenon DEF TimedReasons, Delay
  <2>3. QED
    BY <2>1, <2>2, Zenon
<1>5. d \in Nat
  <2> HIDE DEF d
  <2>1. QED
    BY <1>4, SMT DEF Windows
<1> HIDE DEF d, rung
<1>6. /\ call \in CallRecords /\ call.reason = reason /\ call.gen = g
      /\ call.delay = d /\ call.penalty
  BY <1>1, <1>3, <1>5, Zenon DEF CallRecords
<1> HIDE DEF call, g, m
<1>7. /\ ManagerOK(manager', applied') /\ CallsOK(calls', applied')
      /\ AppliedOK(applied', clock)
      /\ applied' \in [Scopes -> Nat] /\ \A s \in Scopes : applied[s] <= applied'[s]
  BY <1>1, <1>2, <1>4, <1>6, AccountPartStep, Zenon
<1>8. QED
  BY <1>7, HealthFrame, Zenon DEF AccountFails

LEMMA ObserveIs ==
    ASSUME NEW e \in EntryRecords, NEW d \in Nat, NEW b \in Nat, d <= b, e.expiry <= b
    PROVE  Observe(e, d) \in EntryRecords /\ Observe(e, d).expiry <= b
<1>0. e.count + 1 \in Nat /\ promotion_threshold \in Nat /\ e.state \in EntryStates
  BY HealthAssumption, SMT DEF EntryRecords
<1>1. Min({e.count + 1, promotion_threshold}) \in Nat
  BY <1>0, MinOfTwo, Zenon
<1> DEFINE n == Min({e.count + 1, promotion_threshold})
           x == [state |-> "Suspected", count |-> 1, expiry |-> d]
           y == [state |-> IF e.count + 1 >= promotion_threshold THEN "Quarantined" ELSE e.state,
                 count |-> n, expiry |-> d]
<1>2. Observe(e, d) = e \/ Observe(e, d) = x \/ Observe(e, d) = y
  BY Zenon DEF Observe
<1>3. x \in EntryRecords /\ x.expiry = d
  BY SMT DEF EntryRecords, EntryStates
<1>4. y \in EntryRecords /\ y.expiry = d
  <2> HIDE DEF n
  <2>1. n \in Nat
    BY <1>1, Zenon DEF n
  <2>2. (IF e.count + 1 >= promotion_threshold THEN "Quarantined" ELSE e.state) \in EntryStates
    BY <1>0, Zenon DEF EntryStates
  <2>3. QED
    BY <2>1, <2>2, Zenon DEF EntryRecords
<1> HIDE DEF x, y
<1>5. QED
  BY <1>2, <1>3, <1>4, Zenon

LEMMA ModelFailsStep ==
    ASSUME HealthInv, NEW c \in Calls, NEW reason \in Reasons, ModelFails(c, reason)
    PROVE  HealthInv'
<1> DEFINE g == calls[c].gen
           m == calls[c].model
           a == manager[g]
           rung == Rung(a, m, reason)
           d == Delay(reason, rung, 0)
           n == clock + d
           e == Observe(observed[g][m], n)
           climbs == reason = "model_unavailable"
           ds == [a.disabled_models EXCEPT ![m] = n]
           fs == [a.model_failures EXCEPT ![m] = IF climbs THEN Bump(@) ELSE @]
           b == [a EXCEPT !.disabled_models = ds, !.model_failures = fs]
           ap == [applied EXCEPT ![m] = Later(@, n)]
           k == [calls[c] EXCEPT !.at = "quarantine", !.reason = reason, !.delay = d,
                     !.deadline = n, !.entry = e,
                     !.rung = manager'[g].model_failures[m], !.penalty = ~climbs]
<1>1. /\ calls[c] \in CallRecords /\ g \in Epochs /\ m \in HealthModels
      /\ reason \in {"upstream_server_error", "model_unavailable"}
  BY CallIsOK, Zenon DEF ModelFails, CallOK
<1>2. /\ a \in AccountRecords /\ AccountBelow(a, applied)
      /\ observed[g][m] \in EntryRecords /\ observed[g][m].expiry <= applied[m]
  BY <1>1, AccountAt, Invariants, Zenon DEF ObservedOK
<1>3. rung \in Nat /\ rung - 1 \in Nat
  BY <1>1, <1>2, RungIsPositive, Zenon
<1>4. reason \in TimedReasons
  BY <1>1, Zenon DEF TimedReasons, Reasons
<1>5. d \in Windows
  <2>1. 0 \in Nat
    BY SMT
  <2>2. QED
    BY <1>3, <1>4, <2>1, DelayIsWindow, Zenon
<1>6. /\ calls' = [calls EXCEPT ![c] = k] /\ applied' = ap
      /\ observed' = [observed EXCEPT ![g][m] = e]
  BY <1>1, Invariants, Zenon DEF ModelFails, CallsOK
<1>7. manager' = [manager EXCEPT ![g] = b]
  <2>1. manager' = [manager EXCEPT ![g].disabled_models[m] = n,
                        ![g].model_failures[m] = IF climbs THEN Bump(@) ELSE @]
    BY Zenon DEF ModelFails
  <2>2. manager \in [Epochs -> AccountRecords]
    BY Invariants, Zenon DEF ManagerOK
  <2>3. QED
    BY <1>1, <2>1, <2>2, Zenon DEF AccountRecords
<1> HIDE DEF rung
<1>8. n \in Nat /\ d \in Nat /\ n # StickyBackoff
  <2> HIDE DEF d
  <2>1. QED
    BY <1>5, Invariants, WindowsAre, Zenon
<1>9. /\ AppliedOK(ap, clock) /\ \A t \in Scopes : applied[t] <= ap[t]
      /\ n <= ap[m]
  <2> HIDE DEF d
  <2>1. QED
    BY <1>1, <1>5, ScopesAre, Applies, Zenon
<1> HIDE DEF d
<1>10. ap \in [Scopes -> Nat]
  BY <1>9, Zenon DEF AppliedOK
<1> HIDE DEF ap
<1>11. ManagerOK(manager, ap) /\ ObservedOK(observed, ap) /\ CallsOK(calls, ap)
  BY <1>9, <1>10, Raised, Invariants, Zenon
<1> HIDE DEF n
<1>12. e \in EntryRecords /\ e.expiry <= ap[m]
  <2>1. observed[g][m].expiry <= ap[m] /\ ap[m] \in Nat
    BY <1>1, <1>10, <1>11, ScopesAre, Zenon DEF ObservedOK
  <2>2. QED
    BY <1>2, <1>8, <1>9, <2>1, ObserveIs, Zenon
<1> HIDE DEF e
<1>13. b \in AccountRecords /\ b.disabled_models = ds /\ b.model_failures = fs
       /\ b.cooldown_until = a.cooldown_until
  <2> HIDE DEF a
  <2>1. a.disabled_models \in [HealthModels -> Nat] /\ a.model_failures \in [HealthModels -> Nat]
    BY <1>2, Zenon DEF AccountRecords
  <2>2. Bump(a.model_failures[m]) \in Nat /\ a.model_failures[m] \in Nat
    BY <1>1, <2>1, BumpIsNat, Zenon
  <2>3. ds \in [HealthModels -> Nat] /\ fs \in [HealthModels -> Nat]
    BY <1>8, <2>1, <2>2, Zenon
  <2> HIDE DEF ds, fs
  <2>4. QED
    BY <1>2, <2>3, Zenon DEF AccountRecords
<1>14. AccountBelow(b, ap)
  <2>1. AccountBelow(a, ap)
    BY <1>1, <1>11, Zenon DEF ManagerOK
  <2>2. a.disabled_models \in [HealthModels -> Nat]
    BY <1>2, Zenon DEF AccountRecords
  <2> HIDE DEF a, b
  <2>3. \A j \in HealthModels : ds[j] <= ap[j]
    BY <1>1, <1>9, <2>1, <2>2, Zenon DEF AccountBelow
  <2>4. QED
    BY <1>13, <2>1, <2>3, Zenon DEF AccountBelow
<1>15. manager'[g].model_failures[m] \in Nat
  <2>1. manager'[g] = b
    BY <1>1, <1>7, Invariants, Zenon DEF ManagerOK
  <2>2. b.model_failures \in [HealthModels -> Nat]
    <3> HIDE DEF b
    <3>1. QED
      BY <1>13, Zenon DEF AccountRecords
  <2> HIDE DEF b
  <2>3. QED
    BY <1>1, <2>1, <2>2, Zenon
<1> DEFINE w == manager'[g].model_failures[m]
<1> HIDE DEF w
<1>16. /\ k \in CallRecords /\ k.at = "quarantine" /\ k.gen = g /\ k.model = m
       /\ k.reason = reason /\ k.delay = d /\ k.deadline = n /\ k.entry = e
  BY <1>1, <1>8, <1>12, <1>15, Zenon DEF CallRecords
<1> HIDE DEF k, g, m, b
<1>17. CallOK(k, ap)
  BY <1>1, <1>5, <1>8, <1>9, <1>12, <1>16, Zenon DEF CallOK
<1>18. ManagerOK(manager', ap) /\ ObservedOK(observed', ap) /\ CallsOK(calls', ap)
  BY <1>1, <1>6, <1>7, <1>11, <1>12, <1>13, <1>14, <1>16, <1>17,
     ManagerPut, ObservedPut, CallsPut, Zenon
<1>19. QED
  BY <1>6, <1>9, <1>10, <1>18, HealthFrame, Zenon DEF ModelFails

LEMMA EntryWrittenStep ==
    ASSUME HealthInv, NEW c \in Calls, NEW ok \in BOOLEAN, EntryWritten(c, ok) PROVE HealthInv'
<1> DEFINE k == calls[c]
           l == [k EXCEPT !.at = "model"]
<1>1. k \in CallRecords /\ CallOK(k, applied) /\ k.at = "quarantine"
  BY CallIsOK, Zenon DEF EntryWritten
<1>2. /\ applied' = applied /\ calls' = [calls EXCEPT ![c] = l]
      /\ entries' = entries \/ entries' = [entries EXCEPT ![k.model] = k.entry]
  <2>1. applied' = applied /\ calls' = [calls EXCEPT ![c].at = "model"]
    BY Zenon DEF EntryWritten
  <2>2. calls \in [Calls -> CallRecords]
    BY Invariants, Zenon DEF CallsOK
  <2>3. calls' = [calls EXCEPT ![c] = l]
    BY <2>1, <2>2, Zenon
  <2>4. entries' = entries \/ entries' = [entries EXCEPT ![k.model] = k.entry]
    BY Zenon DEF EntryWritten
  <2>5. QED
    BY <2>1, <2>3, <2>4, Zenon
<1> HIDE DEF k
<1>3. k.model \in HealthModels /\ k.entry \in EntryRecords /\ k.entry.expiry <= applied[k.model]
  BY <1>1, Zenon DEF CallOK, CallRecords
<1>4. /\ l \in CallRecords /\ l.at = "model" /\ l.gen = k.gen /\ l.model = k.model
      /\ l.reason = k.reason /\ l.delay = k.delay /\ l.deadline = k.deadline /\ l.entry = k.entry
  BY <1>1, Zenon DEF CallRecords
<1> HIDE DEF l
<1>5. CallOK(l, applied)
  BY <1>1, <1>4, Zenon DEF CallOK
<1>6. CallsOK(calls', applied') /\ EntriesOK(entries', applied')
  <2>1. CallsOK([calls EXCEPT ![c] = l], applied)
    BY <1>4, <1>5, Invariants, CallsPut, Zenon
  <2>2. EntriesOK([entries EXCEPT ![k.model] = k.entry], applied) /\ EntriesOK(entries, applied)
    BY <1>3, Invariants, EntriesPut, Zenon
  <2>3. QED
    BY <1>2, <2>1, <2>2, Zenon
<1>7. QED
  BY <1>2, <1>6, Unapplied, HealthFrame, Zenon DEF EntryWritten

\* The deadline a row takes over from the request that writes it.
LEMMA MirrorIs ==
    ASSUME HealthInv, NEW c \in Calls
    PROVE  /\ Mirror(c) \in RowRecords
           /\ calls[c].deadline # StickyBackoff => Mirror(c).until <= calls[c].deadline
<1> DEFINE k == calls[c]
           u == Min({k.deadline, clock + DelayCap})
           w == Max({k.rung, 1})
<1>0. k.deadline = calls[c].deadline
  OBVIOUS
<1>1. k.deadline \in Nat /\ k.rung \in Nat
  BY CallIsOK, Zenon DEF CallRecords
<1>2. clock + DelayCap \in Nat /\ 1 \in Nat /\ StickyBackoff \in Nat
  BY Invariants, HealthAssumption, SMT DEF StickyBackoff
<1>3. u \in Nat /\ u = (IF k.deadline <= clock + DelayCap THEN k.deadline ELSE clock + DelayCap)
  BY <1>1, <1>2, MinOfTwo, Zenon
<1>4. w \in Nat
  BY <1>1, <1>2, MaxOfTwo, Zenon
<1>5. /\ Mirror(c) = [until |-> IF k.deadline = StickyBackoff THEN StickyBackoff ELSE u, rung |-> w]
  BY Zenon DEF Mirror
<1> HIDE DEF k, w, u
<1>6. u <= k.deadline
  BY <1>1, <1>2, <1>3, SMT
<1>7. CASE k.deadline = StickyBackoff
  <2>1. Mirror(c) = [until |-> StickyBackoff, rung |-> w]
    BY <1>5, <1>7, Zenon
  <2>2. [until |-> StickyBackoff, rung |-> w] \in RowRecords
    BY <1>2, <1>4, Zenon DEF RowRecords
  <2>3. QED
    BY <1>0, <1>7, <2>1, <2>2, Zenon
<1>8. CASE k.deadline # StickyBackoff
  <2>1. Mirror(c) = [until |-> u, rung |-> w]
    BY <1>5, <1>8, Zenon
  <2> DEFINE row == [until |-> u, rung |-> w]
  <2>a. row \in RowRecords /\ row.until = u
    BY <1>3, <1>4, Zenon DEF RowRecords
  <2>2. Mirror(c) \in RowRecords /\ Mirror(c).until = u
    <3> HIDE DEF row
    <3>1. Mirror(c) = row
      BY <2>1, Zenon DEF row
    <3>2. QED
      BY <2>a, <3>1, Zenon
  <2>3. QED
    BY <1>0, <1>6, <2>2, Zenon
<1>9. QED
  BY <1>7, <1>8

LEMMA ModelRowStep ==
    ASSUME HealthInv, NEW c \in Calls, NEW ok \in BOOLEAN, ModelRowWritten(c, ok)
    PROVE  HealthInv'
<1> DEFINE k == calls[c]
<1>1. k \in CallRecords /\ CallOK(k, applied) /\ k.at = "model"
  BY CallIsOK, Zenon DEF ModelRowWritten
<1>2. /\ AccountPart(c, k, manager[k.gen], applied)
      /\ backoffs' = backoffs \/ backoffs' = [backoffs EXCEPT ![k.reason][k.model] = Mirror(c)]
  BY Zenon DEF ModelRowWritten
<1>a. Mirror(c) \in RowRecords /\ (k.deadline # StickyBackoff => Mirror(c).until <= k.deadline)
  BY MirrorIs, Zenon
<1> HIDE DEF k
<1>3. /\ k.gen \in Epochs /\ k.model \in HealthModels /\ k.delay \in Windows
      /\ k.reason \in TimedReasons /\ k.reason \in Reasons
      /\ k.deadline # StickyBackoff /\ k.deadline <= applied[k.model]
  BY <1>1, Zenon DEF CallOK, TimedReasons, Reasons
<1>4. Mirror(c).until <= applied[k.model]
  <2> DEFINE x == Mirror(c).until
  <2>1. x \in Nat /\ x <= k.deadline
    BY <1>a, <1>3, Zenon DEF RowRecords
  <2>2. k.deadline \in Nat /\ applied[k.model] \in Nat
    BY <1>1, <1>3, Invariants, ScopesAre, Zenon DEF CallRecords
  <2> HIDE DEF x
  <2>3. x <= applied[k.model]
    BY <1>3, <2>1, <2>2, AtMost
  <2>4. QED
    BY <2>3, Zenon DEF x
<1>5. RowsOK(backoffs', applied)
  <2>1. k.model \in Scopes /\ RowsOK(backoffs, applied)
    BY <1>3, Invariants, ScopesAre, Zenon
  <2>2. RowsOK([backoffs EXCEPT ![k.reason][k.model] = Mirror(c)], applied)
    BY <1>3, <1>a, <1>4, <2>1, RowsPut, Zenon
  <2>3. QED
    BY <1>2, <2>1, <2>2, Zenon
<1>6. manager[k.gen] \in AccountRecords /\ AccountBelow(manager[k.gen], applied)
  BY <1>3, AccountAt, Zenon
<1>7. /\ ManagerOK(manager', applied') /\ CallsOK(calls', applied')
      /\ AppliedOK(applied', clock)
      /\ applied' \in [Scopes -> Nat] /\ \A s \in Scopes : applied[s] <= applied'[s]
  BY <1>1, <1>2, <1>3, <1>6, AccountPartStep, Zenon
<1>8. RowsOK(backoffs', applied')
  BY <1>5, <1>7, Invariants, Raised, Zenon
<1>9. QED
  BY <1>7, <1>8, HealthFrame, Zenon DEF ModelRowWritten

LEMMA AccountRowStep ==
    ASSUME HealthInv, NEW c \in Calls, NEW ok \in BOOLEAN, AccountRowWritten(c, ok)
    PROVE  HealthInv'
<1> DEFINE k == calls[c]
<1>1. k \in CallRecords /\ CallOK(k, applied) /\ k.at = "account"
  BY CallIsOK, Zenon DEF AccountRowWritten
<1>2. /\ applied' = applied /\ calls' = [calls EXCEPT ![c] = DoneCall]
      /\ backoffs' = backoffs \/ backoffs' = [backoffs EXCEPT ![k.reason][NoModel] = Mirror(c)]
  BY Zenon DEF AccountRowWritten
<1>a. Mirror(c) \in RowRecords /\ (k.deadline # StickyBackoff => Mirror(c).until <= k.deadline)
  BY MirrorIs, Zenon
<1> HIDE DEF k
<1>3. k.reason \in Reasons
  BY <1>1, Zenon DEF CallOK
<1>4. k.reason \in TimedReasons => Mirror(c).until <= applied[NoModel]
  <2> DEFINE x == Mirror(c).until
  <2> SUFFICES ASSUME k.reason \in TimedReasons PROVE x <= applied[NoModel]
    BY Zenon
  <2>1. k.deadline # StickyBackoff /\ k.deadline <= applied[NoModel]
    BY <1>1, Zenon DEF CallOK
  <2>2. x \in Nat /\ x <= k.deadline
    BY <1>a, <2>1, Zenon DEF RowRecords
  <2>3. k.deadline \in Nat /\ applied[NoModel] \in Nat
    BY <1>1, Invariants, ScopesAre, Zenon DEF CallRecords
  <2> HIDE DEF x
  <2>4. QED
    BY <2>1, <2>2, <2>3, AtMost
<1>5. RowsOK(backoffs', applied')
  <2>1. NoModel \in Scopes /\ RowsOK(backoffs, applied)
    BY Invariants, ScopesAre, Zenon
  <2>2. RowsOK([backoffs EXCEPT ![k.reason][NoModel] = Mirror(c)], applied)
    BY <1>3, <1>a, <1>4, <2>1, RowsPut, Zenon
  <2>3. QED
    BY <1>2, <2>1, <2>2, Zenon
<1>6. CallsOK(calls', applied')
  BY <1>2, Invariants, IdleIsOK, CallsPut, Zenon
<1>7. QED
  BY <1>2, <1>5, <1>6, Unapplied, HealthFrame, Zenon DEF AccountRowWritten

LEMMA RetainStep == ASSUME HealthInv, RetainHealth PROVE HealthInv'
<1> DEFINE none == [until |-> 0, rung |-> 0]
<1>1. /\ applied' = applied
      /\ backoffs' = [r \in Reasons |-> [s \in Scopes |->
            IF backoffs[r][s].until <= clock THEN none ELSE backoffs[r][s]]]
      /\ entries' = [m \in HealthModels |->
            IF entries[m].expiry > 0 /\ entries[m].expiry <= clock THEN NoEntry ELSE entries[m]]
  BY Zenon DEF RetainHealth
<1>2. none \in RowRecords /\ none.until = 0
  BY SMT DEF RowRecords
<1>3. \A s \in Scopes : 0 <= applied[s]
  BY Invariants, SMT
<1>4. NoEntry \in EntryRecords /\ NoEntry.expiry = 0
  BY IdleIsOK, Zenon DEF NoEntry
<1> HIDE DEF none
<1>5. RowsOK(backoffs', applied')
  <2>1. backoffs' \in [Reasons -> [Scopes -> RowRecords]]
    BY <1>1, <1>2, Invariants, Zenon DEF RowsOK
  <2>2. ASSUME NEW r \in TimedReasons, NEW s \in Scopes PROVE backoffs'[r][s].until <= applied[s]
    <3>1. r \in Reasons
      BY Zenon DEF TimedReasons
    <3>2. backoffs'[r][s] = none \/ backoffs'[r][s] = backoffs[r][s]
      BY <1>1, <3>1, Zenon
    <3>3. backoffs[r][s].until <= applied[s]
      BY Invariants, Zenon DEF RowsOK
    <3>4. QED
      BY <1>2, <1>3, <3>2, <3>3, Zenon
  <2>3. QED
    BY <1>1, <2>1, <2>2, Zenon DEF RowsOK
<1>6. EntriesOK(entries', applied')
  <2>1. \A m \in HealthModels : entries'[m] = NoEntry \/ entries'[m] = entries[m]
    BY <1>1, Zenon
  <2>2. entries' \in [HealthModels -> EntryRecords]
    BY <1>1, <1>4, Invariants, Zenon DEF EntriesOK
  <2>3. \A m \in HealthModels : entries'[m].expiry <= applied[m]
    BY <1>3, <1>4, <2>1, Invariants, ScopesAre, Zenon DEF EntriesOK
  <2>4. QED
    BY <1>1, <2>2, <2>3, Zenon DEF EntriesOK
<1>7. QED
  BY <1>1, <1>5, <1>6, Unapplied, HealthFrame, Zenon DEF RetainHealth

LEMMA TimedReasonsAre ==
    /\ TimedReasons = {"rate_limited", "upstream_server_error", "model_unavailable"}
    /\ TimedReasons \subseteq Reasons
    /\ IsFiniteSet(TimedReasons)
<1>1. TimedReasons = {"rate_limited", "upstream_server_error", "model_unavailable"}
  BY SMT DEF TimedReasons, Reasons
<1>2. IsFiniteSet({"rate_limited", "upstream_server_error", "model_unavailable"})
  <2>1. IsFiniteSet({})
    BY FS_EmptySet, Zenon
  <2>2. IsFiniteSet({} \cup {"rate_limited"})
    BY <2>1, FS_AddElement, Zenon
  <2>3. IsFiniteSet(({} \cup {"rate_limited"}) \cup {"upstream_server_error"})
    BY <2>2, FS_AddElement, Zenon
  <2>4. IsFiniteSet((({} \cup {"rate_limited"}) \cup {"upstream_server_error"})
                    \cup {"model_unavailable"})
    BY <2>3, FS_AddElement, Zenon
  <2>5. (({} \cup {"rate_limited"}) \cup {"upstream_server_error"}) \cup {"model_unavailable"}
        = {"rate_limited", "upstream_server_error", "model_unavailable"}
    BY SMT
  <2>6. QED
    BY <2>4, <2>5, Zenon
<1>3. QED
  BY <1>1, <1>2, Zenon DEF TimedReasons

\* What a generation hydrates stays below the deadlines its rows came from.
LEMMA HydratedIs ==
    ASSUME HealthInv
    PROVE  HydratedAccount \in AccountRecords /\ AccountBelow(HydratedAccount, applied)
<1> DEFINE until(r, s) == backoffs[r][s].until
           rows(s) == {Remaining(until(r, s)) : r \in TimedReasons} \ {0}
           live(m) == {x \in TimedReasons : Remaining(until(x, m)) > 0}
           rungs(m) == {backoffs[r][m].rung : r \in live(m)}
           running == {r \in TimedReasons : Remaining(until(r, NoModel)) > 0}
           auth == backoffs["authentication_failed"][NoModel].until = StickyBackoff
           cool == Max(rows(NoModel) \union {0})
           ds == [m \in HealthModels |-> Max(rows(m) \union {0})]
           fs == [m \in HealthModels |-> Max(rungs(m) \union {0})]
<1>1. \A r \in TimedReasons, s \in Scopes :
         /\ until(r, s) \in Nat /\ until(r, s) <= applied[s]
         /\ backoffs[r][s].rung \in Nat
  BY Invariants, Zenon DEF RowsOK, RowRecords, TimedReasons
<1>2. \A s \in Scopes : applied[s] \in Nat
  BY Invariants, Zenon
<1>3. ASSUME NEW s \in Scopes
      PROVE  Max(rows(s) \union {0}) \in Nat /\ Max(rows(s) \union {0}) <= applied[s]
  <2> DEFINE S == rows(s) \union {0}
  <2>1. S # {}
    BY Zenon
  <2>2. ASSUME NEW x \in S PROVE x \in Nat /\ x <= applied[s]
    <3>1. x = 0 \/ \E r \in TimedReasons : x = until(r, s)
      BY Zenon DEF Remaining
    <3> HIDE DEF S, rows, until
    <3>2. QED
      BY <1>1, <1>2, <3>1, SMT
  <2> HIDE DEF S
  <2>3. Max(S) \in Nat /\ Max(S) <= applied[s]
    BY <1>2, <2>1, <2>2, MaxBelow, Zenon
  <2>4. QED
    BY <2>3, Zenon DEF S
<1>4. ASSUME NEW m \in HealthModels PROVE Max(rungs(m) \union {0}) \in Nat
  <2> DEFINE S == rungs(m) \union {0}
             n(r) == backoffs[r][m].rung
             b == n("rate_limited") + n("upstream_server_error") + n("model_unavailable")
  <2>0. \A r \in TimedReasons : n(r) \in Nat
    BY <1>1, ScopesAre, Zenon
  <2>1. S # {} /\ \A x \in S : x = 0 \/ \E r \in TimedReasons : x = n(r)
    BY Zenon
  <2> HIDE DEF S, n
  <2>2. b \in Nat /\ \A r \in TimedReasons : n(r) <= b
    BY <2>0, TimedReasonsAre, SMT
  <2> HIDE DEF b
  <2>3. \A x \in S : x \in Nat /\ x <= b
    BY <2>0, <2>1, <2>2, SMT
  <2>4. Max(S) \in Nat
    BY <2>1, <2>2, <2>3, MaxBelow, Zenon
  <2>5. QED
    BY <2>4, Zenon DEF S
<1>5. Cardinality(running) \in Nat
  <2>1. running \subseteq TimedReasons
    BY Zenon
  <2> HIDE DEF running
  <2>2. IsFiniteSet(running)
    BY <2>1, TimedReasonsAre, FS_Subset, Zenon
  <2>3. QED
    BY <2>2, FS_CardinalityType, Zenon
<1>6. HydratedAccount = [NewAccount EXCEPT !.auth = auth, !.cooldowns = Cardinality(running),
          !.cooldown_until = cool, !.disabled_models = ds, !.model_failures = fs]
  BY Zenon DEF HydratedAccount
<1>7. cool \in Nat /\ cool <= applied[NoModel]
  BY <1>3, ScopesAre, Zenon
<1>8. ds \in [HealthModels -> Nat] /\ \A m \in HealthModels : ds[m] <= applied[m]
  BY <1>3, ScopesAre, Zenon
<1>9. fs \in [HealthModels -> Nat]
  BY <1>4, Zenon
<1>10. auth \in BOOLEAN
  BY Zenon
<1> HIDE DEF auth, running, cool, ds, fs
<1>11. NewAccount \in AccountRecords
  BY Zenon DEF NewAccount, AccountRecords
<1>12. /\ HydratedAccount \in AccountRecords
       /\ HydratedAccount.cooldown_until = cool /\ HydratedAccount.disabled_models = ds
  BY <1>5, <1>6, <1>7, <1>8, <1>9, <1>10, <1>11, Zenon DEF AccountRecords
<1>13. QED
  BY <1>7, <1>8, <1>12, Zenon DEF AccountBelow

LEMMA HydratedEntriesAre == ASSUME HealthInv PROVE EntriesOK(HydratedEntries, applied)
<1>1. NoEntry \in EntryRecords /\ NoEntry.expiry = 0
  BY IdleIsOK, Zenon DEF NoEntry
<1>2. \A s \in Scopes : 0 <= applied[s]
  BY Invariants, SMT
<1>3. HydratedEntries \in [HealthModels -> EntryRecords]
  BY <1>1, Invariants, Zenon DEF HydratedEntries, EntriesOK
<1>4. \A m \in HealthModels : HydratedEntries[m] = NoEntry \/ HydratedEntries[m] = entries[m]
  BY Zenon DEF HydratedEntries
<1>5. QED
  BY <1>1, <1>2, <1>3, <1>4, Invariants, ScopesAre, Zenon DEF EntriesOK

LEMMA HydrateStep ==
    ASSUME HealthInv, NEW g \in Epochs, HydrateAs(g)
    PROVE  ManagerOK(manager', applied) /\ ObservedOK(observed', applied)
<1>1. ManagerOK(manager', applied)
  BY HydratedIs, Invariants, ManagerPut, Zenon DEF HydrateAs
<1>2. ObservedOK(observed', applied)
  <2> DEFINE es == HydratedEntries
  <2>1. /\ es \in [HealthModels -> EntryRecords] /\ \A n \in HealthModels : es[n].expiry <= applied[n]
        /\ observed' = [observed EXCEPT ![g] = es]
    BY HydratedEntriesAre, Zenon DEF EntriesOK, HydrateAs
  <2> HIDE DEF es
  <2>2. QED
    BY <2>1, Invariants, Zenon DEF ObservedOK
<1>3. QED
  BY <1>1, <1>2

LEMMA BuildStep ==
    ASSUME HealthInv, NEW rotates \in BOOLEAN, BuildCandidate(rotates) PROVE HealthInv'
<1>1. epoch < MaxEpoch /\ epoch + 1 \in Epochs
  BY HealthAssumption, SMT DEF HealthInv, BuildCandidate, Epochs
<1>2. ManagerOK(manager', applied) /\ ObservedOK(observed', applied)
  BY <1>1, HydrateStep, Zenon DEF BuildCandidate
<1>3. QED
  BY <1>1, <1>2, Zenon DEF BuildCandidate, HealthInv, ManagerOK, ObservedOK, RowsOK, EntriesOK,
     CallsOK, AppliedOK, AccountBelow, CallOK, Epochs, StickyBackoff, Windows

LEMMA PublishCandidateStep == ASSUME HealthInv, PublishCandidate PROVE HealthInv'
<1>1. epoch' = epoch + 1 /\ epoch + 1 \in Epochs /\ candidate' = "none"
  BY HealthAssumption, SMT DEF HealthInv, PublishCandidate, Epochs
<1> DEFINE cleared == [s \in Scopes |-> [until |-> 0, rung |-> 0]]
<1>2. cleared \in [Scopes -> RowRecords]
  BY SMT DEF RowRecords
<1>3. backoffs' = backoffs \/ backoffs' = [backoffs EXCEPT !["authentication_failed"] = cleared]
  BY Zenon DEF PublishCandidate
<1> HIDE DEF cleared
<1>4. RowsOK(backoffs', applied)
  <2>1. RowsOK(backoffs, applied)
    BY Invariants, Zenon
  <2>2. RowsOK([backoffs EXCEPT !["authentication_failed"] = cleared], applied)
    BY <1>2, <2>1, Zenon DEF RowsOK, TimedReasons
  <2>3. QED
    BY <1>3, <2>1, <2>2, Zenon
<1>5. QED
  BY <1>1, <1>4, Zenon DEF PublishCandidate, HealthInv, ManagerOK, ObservedOK, RowsOK, EntriesOK,
     CallsOK, AppliedOK, AccountBelow, CallOK, Epochs, StickyBackoff, Windows

LEMMA RestartStep == ASSUME HealthInv, Restart PROVE HealthInv'
<1>1. epoch' = epoch + 1 /\ epoch + 1 \in Epochs /\ candidate' = "none"
  BY HealthAssumption, SMT DEF HealthInv, Restart, Epochs
<1>2. ManagerOK(manager', applied) /\ ObservedOK(observed', applied)
  BY <1>1, HydrateStep, Zenon DEF Restart
<1>3. CallsOK(calls', applied)
  <2>1. calls' = [c \in Calls |-> IF calls[c].at = "idle" THEN IdleCall ELSE DoneCall]
    BY Zenon DEF Restart
  <2>2. QED
    BY <2>1, IdleIsOK, Zenon DEF CallsOK
<1>4. QED
  BY <1>1, <1>2, <1>3, Zenon DEF Restart, HealthInv, ManagerOK, ObservedOK, RowsOK, EntriesOK,
     CallsOK, AppliedOK, AccountBelow, CallOK, Epochs, StickyBackoff, Windows

LEMMA SecondStep == ASSUME HealthInv, Second PROVE HealthInv'
<1>1. clock' \in 0 .. MaxClock /\ clock \in Nat /\ clock' = clock + 1
  BY HealthAssumption, SMT DEF HealthInv, Second
<1>2. applied \in [Scopes -> Nat] /\ \A s \in Scopes : applied[s] <= clock + DelayCap
  BY Invariants, Zenon DEF AppliedOK
<1>3. \A s \in Scopes : applied[s] <= clock' + DelayCap
  BY <1>1, <1>2, HealthAssumption, SMT
<1>4. QED
  BY <1>1, <1>3, Zenon DEF Second, HealthInv, ManagerOK, ObservedOK, RowsOK, EntriesOK,
     CallsOK, AppliedOK, AccountBelow, CallOK, Epochs, StickyBackoff, Windows

LEMMA AbortStep == ASSUME HealthInv, AbortCandidate \/ UNCHANGED healthVars PROVE HealthInv'
BY Zenon DEF AbortCandidate, healthVars, HealthInv, ManagerOK, ObservedOK, RowsOK, EntriesOK,
   CallsOK, AppliedOK, AccountBelow, CallOK, Epochs, StickyBackoff, Windows

LEMMA HealthStep == ASSUME HealthInv, [HealthNext]_healthVars PROVE HealthInv'
BY RouteStep, SuccessStep, AccountFailsStep, ModelFailsStep, EntryWrittenStep, ModelRowStep,
   AccountRowStep, RetainStep, BuildStep, PublishCandidateStep, RestartStep, SecondStep,
   AbortStep, Zenon DEF HealthNext

LEMMA HealthStart == ASSUME HealthInit PROVE HealthInv
<1>1. /\ clock = 0 /\ epoch = 1 /\ candidate = "none" /\ applied = [s \in Scopes |-> 0]
      /\ manager = [g \in Epochs |-> NewAccount] /\ calls = [c \in Calls |-> IdleCall]
      /\ entries \in [HealthModels -> {NoEntry, Withdrawn}]
      /\ observed = [g \in Epochs |-> IF g = 1 THEN entries ELSE [m \in HealthModels |-> NoEntry]]
      /\ backoffs = [r \in Reasons |-> [s \in Scopes |-> [until |-> 0, rung |-> 0]]]
  BY Zenon DEF HealthInit, Epochs
<1>2. 0 \in 0 .. MaxClock /\ 1 \in Epochs /\ 0 \in Nat /\ 0 <= 0 /\ 0 <= 0 + DelayCap
  BY HealthAssumption, SMT DEF Epochs
<1>3. AppliedOK(applied, clock)
  BY <1>1, <1>2, Zenon DEF AppliedOK
<1>4. /\ NewAccount \in AccountRecords /\ NewAccount.cooldown_until = 0
      /\ NewAccount.disabled_models = [m \in HealthModels |-> 0]
  BY <1>2, Zenon DEF NewAccount, AccountRecords
<1>5. ManagerOK(manager, applied)
  <2>0. applied[NoModel] = 0 /\ \A m \in HealthModels : applied[m] = 0
    BY <1>1, ScopesAre, Zenon
  <2>1. AccountBelow(NewAccount, applied)
    BY <1>2, <1>4, <2>0, Zenon DEF AccountBelow
  <2>2. QED
    BY <1>1, <1>4, <2>1, Zenon DEF ManagerOK
<1>6. NoEntry.expiry = 0 /\ Withdrawn.expiry = 0
  BY Zenon DEF NoEntry, Withdrawn
<1>7. EntriesOK(entries, applied) /\ EntriesOK([m \in HealthModels |-> NoEntry], applied)
  BY <1>1, <1>2, <1>6, IdleIsOK, ScopesAre, Zenon DEF EntriesOK
<1>8. ObservedOK(observed, applied)
  BY <1>1, <1>7, Zenon DEF ObservedOK, EntriesOK
<1>9. RowsOK(backoffs, applied)
  <2> DEFINE none == [until |-> 0, rung |-> 0]
  <2>1. none \in RowRecords /\ none.until = 0
    BY <1>2, Zenon DEF RowRecords
  <2>2. backoffs = [r \in Reasons |-> [s \in Scopes |-> none]]
    BY <1>1, Zenon
  <2> HIDE DEF none
  <2>3. backoffs \in [Reasons -> [Scopes -> RowRecords]]
    BY <2>1, <2>2, Zenon
  <2>4. ASSUME NEW r \in TimedReasons, NEW s \in Scopes PROVE backoffs[r][s].until <= applied[s]
    <3>1. r \in Reasons
      BY TimedReasonsAre, Zenon
    <3>a. backoffs[r] = [t \in Scopes |-> none]
      BY <2>2, <3>1, Zenon
    <3>b. backoffs[r][s] = none
      BY <3>a, Zenon
    <3>c. applied[s] = 0
      BY <1>1, Zenon
    <3>2. backoffs[r][s] = none /\ applied[s] = 0
      BY <3>b, <3>c
    <3>3. QED
      BY <1>2, <2>1, <3>2, Zenon
  <2>5. QED
    BY <2>3, <2>4, Zenon DEF RowsOK
<1>10. CallsOK(calls, applied)
  BY <1>1, IdleIsOK, Zenon DEF CallsOK
<1>11. QED
  BY <1>1, <1>2, <1>3, <1>5, <1>7, <1>8, <1>9, <1>10, Zenon DEF HealthInv

\* For any requests, models, hints and policy, and however failures, retention,
\* reloads and restarts interleave with the writes: no durable row, and no
\* generation hydrated from the rows, excludes an account or a model beyond a
\* deadline a live failure applied, and none is further away than the cap
\* (routing/router.rs: apply_failure_effects; health/backoff.rs:
\* compute_backoff_seconds; health/repository.rs).
THEOREM MirrorNeverWidensHolds == HealthSpec => []MirrorNeverWidens
<1>1. HealthInit => HealthInv
  BY HealthStart
<1>2. HealthInv /\ [HealthNext]_healthVars => HealthInv'
  BY HealthStep
<1>3. HealthInv => MirrorNeverWidens
  BY Zenon DEF HealthInv, MirrorNeverWidens, RowsOK, EntriesOK, ManagerOK, AccountBelow,
     AppliedOK, Epochs
<1>4. QED
  BY <1>1, <1>2, <1>3, PTL DEF HealthSpec
=============================================================================
