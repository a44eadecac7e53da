-------------------------- MODULE AccountingProofs --------------------------
(***************************************************************************)
(* What holds of the durable accounting, for any number of requests and    *)
(* attempts, any limits, capacity and batch size, any number of crashes.   *)
(***************************************************************************)
EXTENDS RequestAccounting, FiniteSetTheorems, NaturalsInduction, TLAPS

-----------------------------------------------------------------------------
(* Work in progress.                                                       *)

IsSeq(s) == s \in Seq({s[i] : i \in DOMAIN s})

\* The attempts of a request among s, and the last of them.
OfRequest(s, r) == {a \in DOMAIN s : s[a].req = r}
Last(s, r) == Max(OfRequest(s, r))

\* An attempt that is closed and billed.
ClosedAttempt(x) == x.completed /\ x.reservation = "released" /\ x.usage # NoRow

\* A request someone works on has an attempt; the earlier ones are closed, and
\* the last one is billed if it is completed.
Works(s, r) ==
    /\ Last(s, r) \in OfRequest(s, r)
    /\ \A a \in OfRequest(s, r) : a # Last(s, r) => ClosedAttempt(s[a])
    /\ s[Last(s, r)].completed => s[Last(s, r)].usage # NoRow

DataFits(d) ==
    DOMAIN d = {"target", "facts", "usage"} /\ d.target \in TargetStatus /\ d.usage # NoRow

CommandFits(c, m) ==
    /\ DOMAIN c = {"kind", "attempt", "data", "tries"}
    /\ c.attempt = m /\ DataFits(c.data)

Busy == {"published", "sent", "select", "respond"}

\* Where a coordinator and the worker of its request can be together.
Stage(r) ==
    /\ DataFits(pending[r])
    /\ pc[r] = "idle" => OfRequest(attempts, r) = {}
    /\ pc[r] \in Busy \cup {"idle"} => command[r] = NoCommand
    /\ pc[r] \in Busy \cup {"cleanup"} => Works(attempts, r)
    /\ pc[r] = "published" => ~attempts[Last(attempts, r)].completed
    /\ command[r] # NoCommand => CommandFits(command[r], Last(attempts, r)) /\ Works(attempts, r)
    /\ pc[r] # "cleanup" => result[r] = "none"
    /\ result[r] # "none" => command[r] = NoCommand
    /\ phase = "recovering" => pc[r] \in {"idle", "gone"} /\ command[r] = NoCommand

IsAttempts(s) ==
    /\ IsSeq(s)
    /\ \A a \in DOMAIN s : /\ DOMAIN s[a] = {"req", "completed", "facts", "reservation", "usage"}
                           /\ s[a].reservation \in {"active", "released"}

PerRequest == /\ DOMAIN pc = Requests /\ DOMAIN command = Requests
              /\ DOMAIN pending = Requests /\ DOMAIN result = Requests

WorkInv == PerRequest /\ IsAttempts(attempts) /\ \A r \in Requests : Stage(r)

LEMMA AttemptsOfIs ==
  ASSUME NEW r
  PROVE  AttemptsOf(r) = OfRequest(attempts, r) /\ LastAttempt(r) = Last(attempts, r)
BY Zenon DEF AttemptsOf, LastAttempt, OfRequest, Last

LEMMA LastIs ==
  ASSUME NEW s, NEW r, NEW m \in OfRequest(s, r), OfRequest(s, r) \subseteq Int,
         \A a \in OfRequest(s, r) : a <= m
  PROVE  Last(s, r) = m
<1> DEFINE S == OfRequest(s, r)
<1> HIDE DEF S
<1>0. m \in S /\ S \subseteq Int /\ \A a \in S : a <= m
  BY DEF S
<1>1. m \in S /\ \A y \in S : m >= y
  BY <1>0
<1>2. \A x \in S : (\A y \in S : x >= y) => x = m
  BY <1>0
<1>3. Max(S) = m
  BY <1>1, <1>2, Zenon DEF Max
<1>4. QED
  BY <1>3, Zenon DEF Last, S

LEMMA SeqIsSeq ==
  ASSUME NEW S, NEW t \in Seq(S)
  PROVE  IsSeq(t)
<1> DEFINE R == {t[i] : i \in DOMAIN t}
<1>1. \A i \in DOMAIN t : t[i] \in R
  BY Zenon
<1> HIDE DEF R
<1>2. DOMAIN t = 1 .. Len(t) /\ Len(t) \in Nat
  OBVIOUS
<1>3. t \in Seq(R)
  BY <1>1, <1>2
<1>4. QED
  BY <1>3, Zenon DEF R, IsSeq

\* t is s with an open attempt of r appended, and s with x for its attempt m.
Extends(t, s, r) == t = Append(s, OpenAttempt(r))
Replaces(t, s, m, x) == t = [s EXCEPT ![m] = x]

\* What the first leaves, and what the second leaves.
Grown(t, s, r) ==
    /\ IsAttempts(t) /\ \A a \in DOMAIN s : a \in DOMAIN t /\ t[a] = s[a]
    /\ \A q : q # r => OfRequest(t, q) = OfRequest(s, q)
    /\ Last(t, r) \notin DOMAIN s /\ t[Last(t, r)] = OpenAttempt(r)
    /\ OfRequest(t, r) = OfRequest(s, r) \cup {Last(t, r)}

Redone(t, s, m, x) ==
    /\ IsAttempts(t) /\ DOMAIN t = DOMAIN s /\ t[m] = x
    /\ \A a \in DOMAIN s : a # m => t[a] = s[a]
    /\ \A r : OfRequest(t, r) = OfRequest(s, r) /\ Last(t, r) = Last(s, r)

\* A publication appends an open attempt, which is the last of its request.
LEMMA Appended ==
  ASSUME NEW s, IsAttempts(s), NEW r, NEW t, Extends(t, s, r)
  PROVE  Grown(t, s, r)
<1> DEFINE e == OpenAttempt(r)
           S == {s[i] : i \in DOMAIN s} \cup {e}
<1>1. s \in Seq(S)
  BY DEF IsAttempts, IsSeq
<1> HIDE DEF S
<1>2. e \in S
  BY Zenon DEF S
<1>3. /\ DOMAIN e = {"req", "completed", "facts", "reservation", "usage"}
      /\ e.req = r /\ e.reservation \in {"active", "released"}
  BY DEF OpenAttempt
<1>a. t = Append(s, e)
  BY Zenon DEF Extends
<1> HIDE DEF e
<1>4. /\ t \in Seq(S) /\ Len(s) \in Nat /\ DOMAIN t = 1 .. Len(s) + 1 /\ DOMAIN s = 1 .. Len(s)
      /\ \A i \in 1 .. Len(s) : t[i] = s[i]
      /\ t[Len(s) + 1] = e
  BY <1>1, <1>2, <1>a
<1> DEFINE m == Len(s) + 1
<1>5. /\ DOMAIN t = DOMAIN s \cup {m} /\ m \notin DOMAIN s
      /\ \A a \in DOMAIN t : a \in Int /\ a <= m
  BY <1>4
<1>6. t[m] = e /\ \A a \in DOMAIN s : t[a] = s[a]
  BY <1>4, Zenon
<1> HIDE DEF m
<1>7. IsAttempts(t)
  BY <1>3, <1>4, <1>5, <1>6, SeqIsSeq, Zenon DEF IsAttempts
<1>8. OfRequest(t, r) = OfRequest(s, r) \cup {m} /\ \A q : q # r => OfRequest(t, q) = OfRequest(s, q)
  BY <1>3, <1>5, <1>6, Zenon DEF OfRequest
<1>9. Last(t, r) = m
  <2>1. m \in OfRequest(t, r) /\ \A a \in OfRequest(t, r) : a \in Int /\ a <= m
    BY <1>5, <1>8, Zenon DEF OfRequest
  <2>2. OfRequest(t, r) \subseteq Int
    BY <2>1, Zenon
  <2>3. QED
    BY <2>1, <2>2, LastIs, Zenon
<1>10. QED
  BY <1>5, <1>6, <1>7, <1>8, <1>9, Zenon DEF e, Grown

\* Updating attempts in place keeps whose they are.
LEMMA UpdatedInPlace ==
  ASSUME NEW s, NEW t, DOMAIN t = DOMAIN s, \A a \in DOMAIN s : t[a].req = s[a].req
  PROVE  \A r : OfRequest(t, r) = OfRequest(s, r) /\ Last(t, r) = Last(s, r)
<1>1. \A r : OfRequest(t, r) = OfRequest(s, r)
  BY Zenon DEF OfRequest
<1>2. QED
  BY <1>1, Zenon DEF Last

\* Updating one attempt.
LEMMA OneUpdated ==
  ASSUME NEW s, IsAttempts(s), NEW m \in DOMAIN s, NEW x, NEW t, Replaces(t, s, m, x),
         DOMAIN x = DOMAIN s[m], x.req = s[m].req, x.reservation \in {"active", "released"}
  PROVE  Redone(t, s, m, x)
<1>1. DOMAIN t = DOMAIN s /\ t[m] = x /\ \A a \in DOMAIN s : a # m => t[a] = s[a]
  BY Zenon DEF Replaces
<1>2. IsSeq(t)
  <2> DEFINE S == {s[i] : i \in DOMAIN s} \cup {x}
  <2>1. s \in Seq(S)
    BY DEF IsAttempts, IsSeq
  <2> HIDE DEF S
  <2>2. x \in S
    BY Zenon DEF S
  <2>3. t \in Seq(S)
    BY <2>1, <2>2 DEF Replaces
  <2>4. QED
    BY <2>3, SeqIsSeq, Zenon
<1>3. IsAttempts(t)
  BY <1>1, <1>2, Zenon DEF IsAttempts
<1>4. \A a \in DOMAIN s : t[a].req = s[a].req
  BY <1>1, Zenon
<1>5. QED
  BY <1>1, <1>3, <1>4, UpdatedInPlace, Zenon DEF Redone

\* What a step of request r does to the others.
OthersRest(r) ==
    \A q \in Requests : q # r =>
      /\ pc'[q] = pc[q] /\ command'[q] = command[q] /\ pending'[q] = pending[q]
      /\ result'[q] = result[q]

OthersKeepAttempts(r) ==
    \A q \in Requests : q # r =>
      /\ OfRequest(attempts', q) = OfRequest(attempts, q)
      /\ \A a \in OfRequest(attempts, q) : attempts'[a] = attempts[a]

LEMMA WorkFrame ==
  ASSUME WorkInv, NEW r \in Requests, UNCHANGED phase, PerRequest', IsAttempts(attempts'),
         OthersRest(r), OthersKeepAttempts(r), Stage(r)'
  PROVE  WorkInv'
<1>1. ASSUME NEW q \in Requests, q # r PROVE Stage(q)'
  <2>1. /\ pc'[q] = pc[q] /\ command'[q] = command[q] /\ pending'[q] = pending[q]
        /\ result'[q] = result[q] /\ Stage(q)
    BY <1>1, Zenon DEF OthersRest, WorkInv
  <2>2. /\ OfRequest(attempts', q) = OfRequest(attempts, q)
        /\ \A a \in OfRequest(attempts, q) : attempts'[a] = attempts[a]
    BY <1>1, Zenon DEF OthersKeepAttempts
  <2>3. Last(attempts', q) = Last(attempts, q)
    BY <2>2, Zenon DEF Last
  <2>4. /\ Works(attempts, q) => Works(attempts', q)
        /\ Works(attempts, q) => attempts'[Last(attempts, q)] = attempts[Last(attempts, q)]
    BY <2>2, <2>3, Zenon DEF Works
  <2>a. pc'[q] = "published" => ~attempts'[Last(attempts', q)].completed
    <3>1. pc[q] = "published" => Works(attempts, q) /\ ~attempts[Last(attempts, q)].completed
      BY <2>1, Zenon DEF Stage, Busy
    <3>2. QED
      BY <2>1, <2>3, <2>4, <3>1, Zenon
  <2>5. QED
    BY <2>1, <2>2, <2>3, <2>4, <2>a, Zenon DEF Stage, OfRequest, Last, Works, DataFits, CommandFits
<1>2. \A q \in Requests : Stage(q)'
  BY <1>1, Zenon
<1>3. QED
  BY <1>2, Zenon DEF WorkInv, IsAttempts, IsSeq

\* A step of request r that leaves the attempts alone.
Arrives(r, s) ==
    /\ pc'[r] = s /\ s # "published" /\ DataFits(pending'[r])
    /\ s \in Busy => command'[r] = NoCommand
    /\ command'[r] # NoCommand => CommandFits(command'[r], Last(attempts, r))
    /\ s # "cleanup" => result'[r] = "none"
    /\ result'[r] # "none" => command'[r] = NoCommand

LEMMA StepOfOne ==
  ASSUME WorkInv, NEW r \in Requests, UNCHANGED <<attempts, phase>>, phase = "serving",
         PerRequest', OthersRest(r), NEW s \in Busy \cup {"cleanup", "gone"}, Arrives(r, s),
         s # "gone" \/ command'[r] # NoCommand => Works(attempts, r)
  PROVE  WorkInv'
<1>1. OthersKeepAttempts(r) /\ IsAttempts(attempts')
  BY Zenon DEF OthersKeepAttempts, WorkInv
<1>2. s # "idle" /\ s \in Busy \cup {"cleanup"} => s # "gone"
  BY Zenon DEF Busy
<1>3. Stage(r)'
  BY <1>2, Zenon DEF Stage, Arrives, OfRequest, Last, Works, DataFits, CommandFits, Busy
<1>4. QED
  BY <1>1, <1>3, WorkFrame, Zenon

\* The coordinator of r moves and touches nothing a worker has.
LEMMA CoordinatorMoves ==
  ASSUME WorkInv, NEW r \in Requests, UNCHANGED <<attempts, phase, command, pending>>,
         phase = "serving", NEW s \in Busy \cup {"gone"}, pc' = [pc EXCEPT ![r] = s],
         s # "published",
         result' = result \/ result' = [result EXCEPT ![r] = "none"],
         pc[r] # "cleanup" \/ result' = [result EXCEPT ![r] = "none"],
         s # "gone" => Works(attempts, r) /\ command[r] = NoCommand
  PROVE  WorkInv'
<1>0. PerRequest /\ Stage(r)
  BY Zenon DEF WorkInv
<1>1. /\ DOMAIN pc' = Requests /\ pc'[r] = s /\ \A q \in Requests : q # r => pc'[q] = pc[q]
  BY <1>0, Zenon DEF PerRequest
<1>2. /\ DOMAIN result' = Requests /\ result'[r] = "none"
      /\ \A q \in Requests : q # r => result'[q] = result[q]
  BY <1>0, Zenon DEF PerRequest, Stage
<1>3. PerRequest' /\ OthersRest(r)
  BY <1>0, <1>1, <1>2, Zenon DEF PerRequest, OthersRest
<1>4. Arrives(r, s)
  BY <1>0, <1>1, <1>2, Zenon DEF Arrives, Stage, Busy
<1>5. s # "gone" \/ command'[r] # NoCommand => Works(attempts, r)
  BY <1>0, Zenon DEF Stage
<1>6. QED
  BY <1>3, <1>4, <1>5, StepOfOne, Zenon

\* A worker is given a command, or there is no room for it.
LEMMA RegisterKeeps ==
  ASSUME WorkInv, NEW r \in Requests, UNCHANGED <<attempts, phase>>, phase = "serving",
         pc[r] \in Busy, NEW s \in {"cleanup", "gone"}, pc' = [pc EXCEPT ![r] = s],
         pending' = pending \/ pending' = [pending EXCEPT ![r] = NoData],
         NEW kind, NEW data, DataFits(data), Register(r, kind, data) \/ UNCHANGED supervisor
  PROVE  WorkInv'
<1>0. PerRequest /\ Stage(r) /\ Works(attempts, r) /\ command[r] = NoCommand /\ result[r] = "none"
  <2>1. PerRequest /\ Stage(r)
    BY Zenon DEF WorkInv
  <2>2. QED
    BY <2>1, Zenon DEF Stage, Busy
<1>1. DOMAIN pc' = Requests /\ pc'[r] = s /\ \A q \in Requests : q # r => pc'[q] = pc[q]
  BY <1>0, Zenon DEF PerRequest
<1>2. DataFits(NoData)
  BY DEF DataFits, NoData, TargetStatus, Unknown, NoRow
<1>3. /\ DOMAIN pending' = Requests /\ DataFits(pending'[r])
      /\ \A q \in Requests : q # r => pending'[q] = pending[q]
  BY <1>0, <1>2, Zenon DEF PerRequest, Stage
<1> DEFINE c == [kind |-> kind, attempt |-> LastAttempt(r), data |-> data, tries |-> 0]
<1>4. CommandFits(c, Last(attempts, r))
  <2>1. /\ DOMAIN c = {"kind", "attempt", "data", "tries"}
        /\ c.attempt = LastAttempt(r) /\ c.data = data
    OBVIOUS
  <2>2. QED
    BY <2>1, AttemptsOfIs, Zenon DEF CommandFits
<1>5. command' = command \/ command' = [command EXCEPT ![r] = c]
  BY Zenon DEF Register, supervisor
<1> HIDE DEF c
<1>6. /\ DOMAIN command' = Requests /\ command'[r] \in {NoCommand, c}
      /\ \A q \in Requests : q # r => command'[q] = command[q]
  BY <1>0, <1>5, Zenon DEF PerRequest
<1>7. UNCHANGED result
  BY Zenon DEF Register, supervisor
<1>8. PerRequest' /\ OthersRest(r)
  BY <1>0, <1>1, <1>3, <1>6, <1>7, Zenon DEF PerRequest, OthersRest
<1>9. Arrives(r, s)
  BY <1>0, <1>1, <1>3, <1>4, <1>6, <1>7, Zenon DEF Arrives, Busy
<1>10. QED
  BY <1>0, <1>8, <1>9, StepOfOne, Zenon

\* A step of request r that updates its last attempt.
LEMMA LastUpdated ==
  ASSUME WorkInv, NEW r \in Requests, Works(attempts, r), NEW x,
         attempts' = [attempts EXCEPT ![Last(attempts, r)] = x],
         DOMAIN x = DOMAIN attempts[Last(attempts, r)], x.req = r,
         x.reservation \in {"active", "released"}
  PROVE  /\ IsAttempts(attempts') /\ OthersKeepAttempts(r)
         /\ OfRequest(attempts', r) = OfRequest(attempts, r)
         /\ Last(attempts', r) = Last(attempts, r) /\ attempts'[Last(attempts, r)] = x
         /\ DOMAIN attempts' = DOMAIN attempts
         /\ \A a \in DOMAIN attempts : a # Last(attempts, r) => attempts'[a] = attempts[a]
         /\ (x.completed => x.usage # NoRow) => Works(attempts', r)
<1> DEFINE m == Last(attempts, r)
<1>1. m \in DOMAIN attempts /\ attempts[m].req = r /\ IsAttempts(attempts)
  BY Zenon DEF Works, OfRequest, WorkInv
<1>2. /\ IsAttempts(attempts') /\ DOMAIN attempts' = DOMAIN attempts /\ attempts'[m] = x
      /\ \A a \in DOMAIN attempts : a # m => attempts'[a] = attempts[a]
      /\ \A q : OfRequest(attempts', q) = OfRequest(attempts, q)
      /\ \A q : Last(attempts', q) = Last(attempts, q)
  <2> HIDE DEF m
  <2>1. Replaces(attempts', attempts, m, x) /\ DOMAIN x = DOMAIN attempts[m]
    BY Zenon DEF m, Replaces
  <2>2. DOMAIN x = DOMAIN attempts[m] /\ x.req = attempts[m].req
    BY <1>1, <2>1, Zenon
  <2>3. Redone(attempts', attempts, m, x)
    BY <1>1, <2>1, <2>2, OneUpdated, Zenon
  <2>4. QED
    BY <2>3, Zenon DEF Redone
<1>3. OthersKeepAttempts(r)
  <2>1. \A q \in Requests : \A a \in OfRequest(attempts, q) : q # r => a # m /\ a \in DOMAIN attempts
    BY <1>1, Zenon DEF OfRequest
  <2> HIDE DEF m
  <2>2. QED
    BY <1>2, <2>1, Zenon DEF OthersKeepAttempts
<1>4. \A a \in OfRequest(attempts, r) : a # m => attempts'[a] = attempts[a]
  BY <1>2, Zenon DEF OfRequest
<1>5. ASSUME x.completed => x.usage # NoRow PROVE Works(attempts', r)
  <2>1. /\ m \in OfRequest(attempts, r)
        /\ \A a \in OfRequest(attempts, r) : a # m => ClosedAttempt(attempts[a])
    BY Zenon DEF Works
  <2>2. \A a \in OfRequest(attempts, r) : a # m => ClosedAttempt(attempts'[a])
    BY <1>4, <2>1, Zenon
  <2> HIDE DEF m
  <2>3. Last(attempts', r) = m /\ OfRequest(attempts', r) = OfRequest(attempts, r)
    BY <1>2, Zenon DEF m
  <2>4. QED
    BY <1>2, <1>5, <2>1, <2>2, <2>3, Zenon DEF Works
<1>6. QED
  BY <1>2, <1>3, <1>5, Zenon

LEMMA LostDeliveryWorks ==
  ASSUME WorkInv, NEW r \in Requests, LostDelivery(r)
  PROVE  WorkInv'
<1>0. PerRequest /\ Stage(r)
  BY Zenon DEF WorkInv
<1>1. /\ Works(attempts, r) /\ pc[r] = "published" /\ command[r] = NoCommand /\ result[r] = "none"
      /\ DataFits(pending[r]) /\ phase = "serving"
  BY <1>0, Zenon DEF Stage, Busy, LostDelivery
<1>2. CASE UNCHANGED attempts
  BY <1>1, <1>2, CoordinatorMoves, Zenon DEF LostDelivery, supervisor
<1>3. CASE attempts' # attempts
  <2> DEFINE m == Last(attempts, r)
             x == [attempts[m] EXCEPT !.facts = "PublicationInterrupted",
                                      !.completed = TRUE, !.reservation = "released"]
  <2>1. attempts' = [attempts EXCEPT ![m] = x]
    BY <1>3, AttemptsOfIs, Zenon DEF LostDelivery
  <2>2. /\ m \in DOMAIN attempts /\ attempts[m].req = r
        /\ DOMAIN attempts[m] = {"req", "completed", "facts", "reservation", "usage"}
    BY <1>1, Zenon DEF Works, OfRequest, WorkInv, IsAttempts
  <2>3. DOMAIN x = DOMAIN attempts[m] /\ x.req = r /\ x.reservation \in {"active", "released"}
    <3> HIDE DEF m
    <3>1. QED
      BY <2>2
  <2> HIDE DEF x
  <2>4. IsAttempts(attempts') /\ OthersKeepAttempts(r)
    BY <1>1, <2>1, <2>3, LastUpdated, Zenon
  <2>5. /\ UNCHANGED <<command, pending, result, phase>> /\ pc' = [pc EXCEPT ![r] = "gone"]
    BY Zenon DEF LostDelivery, supervisor
  <2>6. DOMAIN pc' = Requests /\ pc'[r] = "gone" /\ \A q \in Requests : q # r => pc'[q] = pc[q]
    BY <1>0, <2>5, Zenon DEF PerRequest
  <2>7. PerRequest' /\ OthersRest(r)
    BY <1>0, <2>5, <2>6, Zenon DEF PerRequest, OthersRest
  <2>8. Stage(r)'
    BY <1>1, <2>5, <2>6, Zenon DEF Stage, Busy, DataFits
  <2>9. QED
    BY <2>4, <2>5, <2>7, <2>8, WorkFrame, Zenon
<1>4. QED
  BY <1>2, <1>3

LEMMA PublishWorks ==
  ASSUME WorkInv, NEW r \in Requests, PublishInitial(r) \/ PublishRetry(r)
  PROVE  WorkInv'
<1>0. PerRequest /\ Stage(r) /\ IsAttempts(attempts)
  BY Zenon DEF WorkInv
<1>1. /\ attempts' = Append(attempts, OpenAttempt(r)) /\ pc' = [pc EXCEPT ![r] = "published"]
      /\ UNCHANGED <<command, pending, result, phase>> /\ phase = "serving"
  BY Zenon DEF PublishInitial, PublishRetry, RetryReady, supervisor
<1>2. command[r] = NoCommand /\ result[r] = "none" /\ DataFits(pending[r])
  BY <1>0, Zenon DEF Stage, Busy, PublishInitial, PublishRetry, RetryReady
<1>3. \A a \in OfRequest(attempts, r) : a \in DOMAIN attempts /\ ClosedAttempt(attempts[a])
  <2>1. CASE PublishInitial(r)
    BY <1>0, <2>1, Zenon DEF Stage, PublishInitial
  <2>2. CASE PublishRetry(r)
    <3>1. Works(attempts, r)
      BY <1>0, <2>2, Zenon DEF Stage, Busy, PublishRetry, RetryReady
    <3>2. attempts[Last(attempts, r)].completed /\ attempts[Last(attempts, r)].reservation # "active"
      BY <2>2, AttemptsOfIs, Zenon DEF PublishRetry, RetryReady, PriorAttemptFinalized
    <3>3. QED
      BY <1>0, <3>1, <3>2, Zenon DEF Works, ClosedAttempt, IsAttempts, OfRequest
  <2>3. QED
    BY <2>1, <2>2
<1> DEFINE m == Last(attempts', r)
<1>4. /\ IsAttempts(attempts') /\ \A a \in DOMAIN attempts : attempts'[a] = attempts[a]
      /\ \A q : q # r => OfRequest(attempts', q) = OfRequest(attempts, q)
      /\ attempts'[m] = OpenAttempt(r)
      /\ OfRequest(attempts', r) = OfRequest(attempts, r) \cup {m}
  <2>1. Extends(attempts', attempts, r)
    BY <1>1, Zenon DEF Extends
  <2>2. Grown(attempts', attempts, r)
    BY <1>0, <2>1, Appended, Zenon
  <2>3. QED
    BY <2>2, Zenon DEF Grown
<1>5. ~OpenAttempt(r).completed
  BY DEF OpenAttempt
<1>6. Works(attempts', r)
  BY <1>3, <1>4, <1>5, Zenon DEF Works
<1>7. OthersKeepAttempts(r)
  BY <1>4, Zenon DEF OthersKeepAttempts, OfRequest
<1>8. DOMAIN pc' = Requests /\ pc'[r] = "published" /\ \A q \in Requests : q # r => pc'[q] = pc[q]
  BY <1>0, <1>1, Zenon DEF PerRequest
<1>9. PerRequest' /\ OthersRest(r)
  BY <1>0, <1>1, <1>8, Zenon DEF PerRequest, OthersRest
<1>10. Stage(r)'
  <2>1. ~attempts'[Last(attempts', r)].completed
    BY <1>4, <1>5, Zenon
  <2> HIDE DEF m
  <2>2. QED
    BY <1>1, <1>2, <1>6, <1>8, <2>1, Zenon DEF Stage, Busy, DataFits, Works, OfRequest, Last,
       ClosedAttempt
<1>11. QED
  BY <1>1, <1>4, <1>7, <1>9, <1>10, WorkFrame, Zenon

\* What finalize_durable makes of an attempt is closed.
LEMMA FinalizedIsClosed ==
  ASSUME NEW x, DOMAIN x = {"req", "completed", "facts", "reservation", "usage"},
         x.completed => x.usage # NoRow, NEW d, DataFits(d)
  PROVE  /\ DOMAIN FinalizedAttempt(x, d) = DOMAIN x /\ FinalizedAttempt(x, d).req = x.req
         /\ FinalizedAttempt(x, d).reservation = "released"
         /\ ClosedAttempt(FinalizedAttempt(x, d))
<1> DEFINE y == FinalizedAttempt(x, d)
<1>1. d.usage # NoRow
  BY Zenon DEF DataFits
<1>2. CASE x.completed
  <2>1. y = [x EXCEPT !.reservation = "released"]
    BY <1>2, Zenon DEF FinalizedAttempt
  <2> HIDE DEF y
  <2>2. DOMAIN y = DOMAIN x /\ y.req = x.req /\ y.reservation = "released" /\ y.usage = x.usage
    BY <2>1
  <2>3. y.completed = x.completed
    BY <2>1, Zenon
  <2>4. QED
    BY <1>2, <2>2, <2>3, Zenon DEF ClosedAttempt, y
<1>3. CASE ~x.completed
  <2>1. y = [x EXCEPT !.completed = TRUE, !.facts = d.facts,
                      !.reservation = "released", !.usage = d.usage]
    BY <1>3, Zenon DEF FinalizedAttempt
  <2> HIDE DEF y
  <2>2. /\ DOMAIN y = DOMAIN x /\ y.req = x.req /\ y.reservation = "released"
        /\ y.usage = d.usage /\ y.completed = TRUE
    BY <2>1
  <2>3. QED
    BY <1>1, <2>2, Zenon DEF ClosedAttempt, y
<1>4. QED
  BY <1>2, <1>3

\* The last attempt of r is closed and nothing else happens to the attempts.
ClosesLast(r) ==
    /\ IsAttempts(attempts') /\ OthersKeepAttempts(r) /\ Works(attempts', r)
    /\ OfRequest(attempts', r) = OfRequest(attempts, r)
    /\ Last(attempts', r) = Last(attempts, r)
    /\ DOMAIN attempts' = DOMAIN attempts
    /\ \A a \in DOMAIN attempts : a # Last(attempts, r) => attempts'[a] = attempts[a]
    /\ \A a \in OfRequest(attempts, r) : ClosedAttempt(attempts'[a])

Running(r) == CommandFits(command[r], Last(attempts, r)) /\ Works(attempts, r)

LEMMA ConvergeCloses ==
  ASSUME WorkInv, NEW r \in Requests, Running(r),
         NEW t, ConvergeAttempt(r, command[r], t)
  PROVE  /\ ClosesLast(r)
         /\ attempts'[Last(attempts, r)] =
              FinalizedAttempt(attempts[Last(attempts, r)], command[r].data)
<1> DEFINE m == Last(attempts, r)
           y == FinalizedAttempt(attempts[m], command[r].data)
<1>1. command[r].attempt = m /\ DataFits(command[r].data) /\ Works(attempts, r)
  BY Zenon DEF Running, CommandFits
<1>2. attempts' = [attempts EXCEPT ![m] = y]
  BY <1>1, Zenon DEF ConvergeAttempt
<1>3. /\ m \in OfRequest(attempts, r) /\ m \in DOMAIN attempts /\ attempts[m].req = r
      /\ DOMAIN attempts[m] = {"req", "completed", "facts", "reservation", "usage"}
      /\ attempts[m].completed => attempts[m].usage # NoRow
  BY <1>1, Zenon DEF Works, OfRequest, WorkInv, IsAttempts
<1>4. DOMAIN y = DOMAIN attempts[m] /\ y.req = r /\ y.reservation = "released" /\ ClosedAttempt(y)
  BY <1>1, <1>3, FinalizedIsClosed, Zenon
<1> HIDE DEF y
<1>5. (y.completed => y.usage # NoRow) /\ y.reservation \in {"active", "released"}
  BY <1>4, Zenon DEF ClosedAttempt
<1>6. /\ IsAttempts(attempts') /\ OthersKeepAttempts(r)
      /\ OfRequest(attempts', r) = OfRequest(attempts, r) /\ Last(attempts', r) = m
      /\ attempts'[m] = y /\ Works(attempts', r) /\ DOMAIN attempts' = DOMAIN attempts
      /\ \A a \in DOMAIN attempts : a # m => attempts'[a] = attempts[a]
  BY <1>1, <1>2, <1>4, <1>5, LastUpdated, Zenon
<1>7. \A a \in OfRequest(attempts, r) : ClosedAttempt(attempts'[a])
  <2> TAKE a \in OfRequest(attempts, r)
  <2>1. CASE a = m
    BY <1>4, <1>6, <2>1, Zenon
  <2>2. CASE a # m
    <3>1. ClosedAttempt(attempts[a])
      BY <1>1, <2>2, Zenon DEF Works
    <3>2. QED
      BY <1>6, <2>2, <3>1, Zenon DEF OfRequest
  <2>3. QED
    BY <2>1, <2>2
<1>8. QED
  BY <1>6, <1>7, Zenon DEF ClosesLast, y

LEMMA FinalizeCloses ==
  ASSUME WorkInv, NEW r \in Requests, Running(r), FinalizeDurable(r, command[r])
  PROVE  UNCHANGED attempts \/ ClosesLast(r)
<1>1. CASE Refused(r, command[r]) \/ FactsConflict(attempts[command[r].attempt], command[r].data)
  BY <1>1, Zenon DEF FinalizeDurable, durable
<1>2. CASE ~Refused(r, command[r]) /\ ~FactsConflict(attempts[command[r].attempt], command[r].data)
  <2>1. ConvergeAttempt(r, command[r], command[r].kind = "Request")
    BY <1>2, Zenon DEF FinalizeDurable
  <2>2. QED
    BY <2>1, ConvergeCloses, Zenon
<1>3. QED
  BY <1>1, <1>2

\* The worker of r ends its command, or counts a failed try of it.
LEMMA WorkerWorks ==
  ASSUME WorkInv, NEW r \in Requests, command[r] # NoCommand, phase = "serving",
         UNCHANGED attempts \/ ClosesLast(r), UNCHANGED <<pc, pending, phase>>,
         NEW o, \/ FinishCommand(r, o)
                \/ command' = [command EXCEPT ![r].tries = @ + 1] /\ UNCHANGED result
  PROVE  WorkInv'
<1>0. PerRequest /\ Stage(r) /\ CommandFits(command[r], Last(attempts, r)) /\ Works(attempts, r)
  <2>1. PerRequest /\ Stage(r)
    BY Zenon DEF WorkInv
  <2>2. QED
    BY <2>1, Zenon DEF Stage
<1>1. /\ IsAttempts(attempts') /\ OthersKeepAttempts(r) /\ Works(attempts', r)
      /\ OfRequest(attempts', r) = OfRequest(attempts, r)
      /\ Last(attempts', r) = Last(attempts, r)
  <2>1. CASE UNCHANGED attempts
    BY <1>0, <2>1, Zenon DEF WorkInv, OthersKeepAttempts
  <2>2. CASE ClosesLast(r)
    BY <2>2, Zenon DEF ClosesLast
  <2>3. QED
    BY <2>1, <2>2
<1>2. /\ DOMAIN command' = Requests /\ DOMAIN result' = Requests
      /\ \A q \in Requests : q # r => command'[q] = command[q] /\ result'[q] = result[q]
  BY <1>0, Zenon DEF PerRequest, FinishCommand
<1>3. command'[r] # NoCommand =>
        result'[r] = result[r] /\ CommandFits(command'[r], Last(attempts, r))
  <2>1. CASE FinishCommand(r, o)
    BY <1>0, <2>1, Zenon DEF PerRequest, FinishCommand
  <2>2. CASE command' = [command EXCEPT ![r].tries = @ + 1] /\ UNCHANGED result
    <3> DEFINE c == command[r]
               d == command'[r]
    <3>0. d = [c EXCEPT !.tries = @ + 1]
      BY <1>0, <2>2, Zenon DEF PerRequest
    <3>1. DOMAIN c = {"kind", "attempt", "data", "tries"}
      BY <1>0, Zenon DEF CommandFits
    <3> HIDE DEF c, d
    <3>2. DOMAIN d = DOMAIN c /\ d.attempt = c.attempt /\ d.data = c.data
      BY <3>0, <3>1
    <3>3. QED
      BY <1>0, <2>2, <3>2, Zenon DEF CommandFits, c, d
  <2>3. QED
    BY <2>1, <2>2
<1>4. result'[r] # "none" => command'[r] = NoCommand /\ pc[r] = "cleanup"
  <2>1. CASE FinishCommand(r, o)
    BY <1>0, <2>1, Zenon DEF PerRequest, FinishCommand
  <2>2. CASE command' = [command EXCEPT ![r].tries = @ + 1] /\ UNCHANGED result
    BY <1>0, <2>2, Zenon DEF Stage
  <2>3. QED
    BY <2>1, <2>2
<1>5. PerRequest' /\ OthersRest(r)
  BY <1>0, <1>2, Zenon DEF PerRequest, OthersRest
<1>6. DataFits(pending'[r]) /\ pc[r] \notin Busy \cup {"idle"}
  BY <1>0, Zenon DEF Stage
<1>7. Stage(r)'
  BY <1>1, <1>3, <1>4, <1>6, Zenon DEF Stage, Busy, DataFits, CommandFits, Works, Last,
     OfRequest, ClosedAttempt
<1>8. QED
  BY <1>1, <1>5, <1>7, WorkFrame, Zenon

LEMMA RespondWorks ==
  ASSUME WorkInv, NEW r \in Requests, phase = "serving", pc[r] \in Busy,
         NEW data, DataFits(data), Respond(r, data)
  PROVE  WorkInv'
<1>0. PerRequest /\ Stage(r) /\ Works(attempts, r) /\ command[r] = NoCommand /\ result[r] = "none"
  <2>1. PerRequest /\ Stage(r)
    BY Zenon DEF WorkInv
  <2>2. QED
    BY <2>1, Zenon DEF Stage, Busy
<1>1. /\ UNCHANGED <<attempts, phase, command, result>>
      /\ pc' = [pc EXCEPT ![r] = "respond"] /\ pending' = [pending EXCEPT ![r] = data]
  BY Zenon DEF Respond, durable, supervisor
<1>2. /\ DOMAIN pc' = Requests /\ pc'[r] = "respond" /\ \A q \in Requests : q # r => pc'[q] = pc[q]
      /\ DOMAIN pending' = Requests /\ pending'[r] = data
      /\ \A q \in Requests : q # r => pending'[q] = pending[q]
  BY <1>0, <1>1, Zenon DEF PerRequest
<1>3. PerRequest' /\ OthersRest(r)
  BY <1>0, <1>1, <1>2, Zenon DEF PerRequest, OthersRest
<1>4. Arrives(r, "respond")
  BY <1>0, <1>1, <1>2, Zenon DEF Arrives
<1>5. "respond" \in Busy \cup {"cleanup", "gone"}
  BY Zenon DEF Busy
<1>6. QED
  BY <1>0, <1>1, <1>3, <1>4, <1>5, StepOfOne, Zenon

\* What the coordinator reports fits.
LEMMA ReportsFit ==
  /\ \A f : DataFits([target |-> "error", facts |-> f, usage |-> Unknown])
  /\ \A f : DataFits([target |-> "error", usage |-> Unknown, facts |-> f])
  /\ \A u \in Unknown .. Single : DataFits([target |-> "completed", facts |-> "ok", usage |-> u])
  /\ \A d : DataFits(d) => \A e \in {d} \cup Undelivered(d) : DataFits(e)
<1>1. \A u \in Unknown .. Single : u # NoRow
  BY AccountingAssumption DEF Unknown, NoRow
<1>2. Unknown # NoRow
  BY DEF Unknown, NoRow
<1>3. \A f : DataFits([target |-> "error", facts |-> f, usage |-> Unknown])
  BY <1>2 DEF DataFits, TargetStatus
<1>4. \A f : DataFits([target |-> "error", usage |-> Unknown, facts |-> f])
  BY <1>2 DEF DataFits, TargetStatus
<1>5. \A u \in Unknown .. Single : DataFits([target |-> "completed", facts |-> "ok", usage |-> u])
  <2> TAKE u \in Unknown .. Single
  <2> DEFINE d == [target |-> "completed", facts |-> "ok", usage |-> u]
  <2>1. DOMAIN d = {"target", "facts", "usage"} /\ d.target = "completed" /\ d.usage = u
    OBVIOUS
  <2>2. QED
    BY <1>1, <2>1, Zenon DEF DataFits, TargetStatus
<1>6. ASSUME NEW d, DataFits(d), NEW e \in {d} \cup Undelivered(d) PROVE DataFits(e)
  <2>1. DOMAIN d = {"target", "facts", "usage"} /\ d.target \in TargetStatus
    BY <1>6, Zenon DEF DataFits
  <2>2. DOMAIN e = DOMAIN d /\ e.target \in {d.target, "cancelled", "error"} /\ e.usage = d.usage
    BY <2>1, <1>6, Zenon DEF Undelivered
  <2>3. QED
    BY <1>6, <2>1, <2>2, Zenon DEF DataFits, TargetStatus
<1>7. QED
  BY <1>3, <1>4, <1>5, <1>6, Zenon

LEMMA RequestWorks ==
  ASSUME WorkInv, NEW r \in Requests, RequestNext(r)
  PROVE  WorkInv'
<1>0. Stage(r)
  BY Zenon DEF WorkInv
<1>a. pc[r] \in Busy => Works(attempts, r) /\ command[r] = NoCommand
  BY <1>0, Zenon DEF Stage
<1>b. {"published", "sent", "select", "respond"} \subseteq Busy
  BY Zenon DEF Busy
<1>1. CASE PublishInitial(r) \/ PublishRetry(r)
  BY <1>1, PublishWorks, Zenon
<1>2. CASE PublicationRefused(r) \/ RetryFails(r) \/ DeliveryInterrupted(r)
  BY <1>2, CoordinatorMoves, Zenon DEF PublicationRefused, RetryFails, DeliveryInterrupted,
     durable, supervisor
<1>3. CASE RetryOverInstance(r)
  BY <1>3, CoordinatorMoves, Zenon DEF RetryOverInstance, RetryReady, supervisor
<1>4. CASE Deliver(r)
  <2>1. /\ UNCHANGED <<attempts, phase, command, pending, result>> /\ phase = "serving"
        /\ pc[r] = "published" /\ pc' = [pc EXCEPT ![r] = "sent"]
    BY <1>4, Zenon DEF Deliver, durable, supervisor
  <2>2. "sent" \in Busy \cup {"gone"} /\ pc[r] # "cleanup"
    BY <1>b, <2>1, Zenon
  <2>3. Works(attempts, r) /\ command[r] = NoCommand
    BY <1>a, <1>b, <2>1, Zenon
  <2>4. QED
    BY <2>1, <2>2, <2>3, CoordinatorMoves, Zenon
<1>5. CASE LostDelivery(r)
  BY <1>5, LostDeliveryWorks, Zenon
<1>6. CASE CallerGone(r)
  BY <1>6, CoordinatorMoves, Zenon DEF CallerGone, durable
<1>7. ASSUME NEW facts \in {"response", "transport"}, AttemptRetryable(r, facts) PROVE WorkInv'
  <2> DEFINE data == [target |-> "error", facts |-> facts, usage |-> Unknown]
  <2>1. DataFits(data)
    BY ReportsFit, Zenon
  <2> HIDE DEF data
  <2>2. /\ UNCHANGED <<attempts, phase, pending>> /\ phase = "serving" /\ pc[r] \in Busy
    BY <1>7, Zenon DEF AttemptRetryable, durable, Busy
  <2>3. CASE CanRegister(r)
    <3>1. Register(r, "FailedAttempt", data) /\ pc' = [pc EXCEPT ![r] = "cleanup"]
      BY <1>7, <2>3, Zenon DEF AttemptRetryable, data
    <3>2. QED
      BY <2>1, <2>2, <3>1, RegisterKeeps, Zenon
  <2>4. CASE ~CanRegister(r)
    <3>1. UNCHANGED supervisor /\ pc' = [pc EXCEPT ![r] = "gone"]
      BY <1>7, <2>4, Zenon DEF AttemptRetryable
    <3>2. QED
      BY <2>1, <2>2, <3>1, RegisterKeeps, Zenon
  <2>5. QED
    BY <2>3, <2>4
<1>8. ASSUME NEW facts \in {"response", "transport"}, AttemptFails(r, facts) PROVE WorkInv'
  BY <1>8, <1>b, ReportsFit, RespondWorks, Zenon DEF AttemptFails
<1>9. ASSUME NEW usage \in Unknown .. Single, AttemptSucceeds(r, usage) PROVE WorkInv'
  BY <1>9, <1>b, ReportsFit, RespondWorks, Zenon DEF AttemptSucceeds
<1>10. CASE CleanupWaited(r)
  <2>1. Works(attempts, r) /\ command[r] = NoCommand
    BY <1>0, <1>10, Zenon DEF Stage, CleanupWaited
  <2> DEFINE s == IF result[r] = "ok" THEN "select" ELSE "gone"
  <2>2. s \in Busy \cup {"gone"} /\ s # "published"
    BY <1>b, Zenon
  <2>3. /\ UNCHANGED <<attempts, phase, command, pending>> /\ phase = "serving"
        /\ pc' = [pc EXCEPT ![r] = s] /\ result' = [result EXCEPT ![r] = "none"]
    BY <1>10, Zenon DEF CleanupWaited, durable
  <2> HIDE DEF s
  <2>4. QED
    BY <2>1, <2>2, <2>3, CoordinatorMoves, Zenon
<1>11. CASE NoEligibleRoute(r)
  BY <1>11, <1>b, ReportsFit, RespondWorks, Zenon DEF NoEligibleRoute
<1>12. CASE Complete(r)
  <2>1. DataFits(pending[r]) /\ pc[r] \in Busy /\ phase = "serving"
    BY <1>0, <1>b, <1>12, Zenon DEF Stage, Complete
  <2>2. PICK data \in {pending[r]} \cup Undelivered(pending[r]) :
          Register(r, "Request", data) \/ UNCHANGED supervisor
    BY <1>12, Zenon DEF Complete
  <2>3. DataFits(data)
    BY <2>1, ReportsFit, Zenon
  <2>4. /\ UNCHANGED <<attempts, phase>> /\ pc' = [pc EXCEPT ![r] = "gone"]
        /\ pending' = [pending EXCEPT ![r] = NoData]
    BY <1>12, Zenon DEF Complete, durable
  <2>5. QED
    BY <2>1, <2>2, <2>3, <2>4, RegisterKeeps, Zenon
<1>13. QED
  BY <1>1, <1>2, <1>3, <1>4, <1>5, <1>6, <1>7, <1>8, <1>9, <1>10, <1>11, <1>12, Zenon
     DEF RequestNext

LEMMA NothingMoves ==
  ASSUME WorkInv, UNCHANGED <<attempts, pc, pending, command, result, phase>>
  PROVE  WorkInv'
<1>1. ASSUME NEW r \in Requests PROVE Stage(r)'
  <2>1. Stage(r)
    BY Zenon DEF WorkInv
  <2>2. /\ OfRequest(attempts', r) = OfRequest(attempts, r)
        /\ Last(attempts', r) = Last(attempts, r) /\ (Works(attempts, r) => Works(attempts', r))
    BY Zenon
  <2>3. QED
    BY <2>1, <2>2, Zenon DEF Stage, OfRequest, Last, Works, DataFits, CommandFits
<1>2. IsAttempts(attempts') /\ PerRequest'
  BY Zenon DEF WorkInv, PerRequest
<1>3. QED
  BY <1>1, <1>2, Zenon DEF WorkInv, IsAttempts, IsSeq

LEMMA WorkerStepWorks ==
  ASSUME WorkInv, NEW r \in Requests, WorkerNext(r)
  PROVE  WorkInv'
<1>0. command[r] # NoCommand => Running(r)
  BY Zenon DEF WorkInv, Stage, Running
<1>1. ASSUME NEW kind, RunCommand(r, kind) PROVE WorkInv'
  <2>1. /\ command[r] # NoCommand /\ phase = "serving" /\ FinalizeDurable(r, command[r])
        /\ \E o : FinishCommand(r, o)
    BY <1>1, Zenon DEF RunCommand
  <2>2. UNCHANGED <<pc, pending, phase>>
    BY <2>1, Zenon DEF FinishCommand
  <2>3. UNCHANGED attempts \/ ClosesLast(r)
    BY <1>0, <2>1, FinalizeCloses, Zenon
  <2>4. QED
    BY <2>1, <2>2, <2>3, WorkerWorks, Zenon
<1>2. CASE TryFails(r)
  <2>1. /\ command[r] # NoCommand /\ phase = "serving"
        /\ UNCHANGED attempts \/ FinalizeDurable(r, command[r])
        /\ \/ FinishCommand(r, "err")
           \/ command' = [command EXCEPT ![r].tries = @ + 1] /\ UNCHANGED result
    BY <1>2, Zenon DEF TryFails, durable
  <2>2. UNCHANGED <<pc, pending, phase>>
    BY <1>2, Zenon DEF TryFails, FinishCommand
  <2>3. UNCHANGED attempts \/ ClosesLast(r)
    BY <1>0, <2>1, FinalizeCloses, Zenon
  <2>4. QED
    BY <2>1, <2>2, <2>3, WorkerWorks, Zenon
<1>3. ASSUME NEW a \in DOMAIN attempts, RemoveJob(r, a) PROVE WorkInv'
  <2>1. UNCHANGED <<attempts, pc, pending, command, result, phase>>
    BY <1>3, Zenon DEF RemoveJob, durable
  <2>2. QED
    BY <2>1, NothingMoves, Zenon
<1>4. QED
  BY <1>1, <1>2, <1>3, Zenon DEF WorkerNext, FinalizeRequest, FinalizeFailedAttempt

LEMMA CrashWorks ==
  ASSUME WorkInv, Crash
  PROVE  WorkInv'
<1>1. /\ UNCHANGED attempts
      /\ pc' = [r \in Requests |-> IF pc[r] = "idle" THEN "idle" ELSE "gone"]
      /\ pending' = [r \in Requests |-> NoData]
      /\ command' = [r \in Requests |-> NoCommand]
      /\ result' = [r \in Requests |-> "none"]
  BY Zenon DEF Crash, durable
<1>2. /\ DOMAIN pc' = Requests /\ DOMAIN pending' = Requests /\ DOMAIN command' = Requests
      /\ DOMAIN result' = Requests
  BY <1>1, Zenon
<1>3. \A r \in Requests : /\ pending'[r] = NoData /\ command'[r] = NoCommand /\ result'[r] = "none"
                          /\ pc'[r] \in {"idle", "gone"} /\ (pc'[r] = "idle" => pc[r] = "idle")
  BY <1>1, Zenon
<1>4. DataFits(NoData)
  BY DEF DataFits, NoData, TargetStatus, Unknown, NoRow
<1>5. ASSUME NEW r \in Requests PROVE Stage(r)'
  <2>1. Stage(r)
    BY Zenon DEF WorkInv
  <2>2. OfRequest(attempts', r) = OfRequest(attempts, r)
    BY <1>1, Zenon
  <2>3. QED
    BY <1>3, <1>4, <2>1, <2>2, Zenon DEF Stage, Busy, DataFits, OfRequest
<1>6. PerRequest'
  BY <1>2, Zenon DEF PerRequest
<1>7. IsAttempts(attempts')
  BY <1>1, Zenon DEF WorkInv
<1>8. QED
  BY <1>5, <1>6, <1>7, Zenon DEF WorkInv, IsAttempts, IsSeq

\* What a reconciliation pass does to an attempt.
LEMMA PassCloses ==
  ASSUME IsAttempts(attempts), ReconcilePass
  PROVE  /\ IsAttempts(attempts') /\ DOMAIN attempts' = DOMAIN attempts
         /\ \A a \in DOMAIN attempts :
              /\ attempts'[a].req = attempts[a].req /\ attempts'[a].usage = attempts[a].usage
              /\ attempts[a].completed => attempts'[a].completed
              /\ a \notin OpenAttempts => attempts'[a].facts = attempts[a].facts
              /\ attempts[a].reservation = "released" => attempts'[a].reservation = "released"
<1> DEFINE S == DOMAIN attempts
           new(a) == [attempts[a] EXCEPT
                        !.reservation = IF a \in ActiveReservations THEN "released" ELSE @,
                        !.completed = @ \/ a \in OpenAttempts,
                        !.facts = IF a \in OpenAttempts THEN "process_interrupted" ELSE @]
<1>1. attempts' = [a \in S |-> new(a)]
  BY Zenon DEF ReconcilePass
<1>2. \A a \in S : DOMAIN attempts[a] = {"req", "completed", "facts", "reservation", "usage"}
  BY Zenon DEF IsAttempts
<1>3. \A a \in S : attempts[a].reservation \in {"active", "released"}
  BY Zenon DEF IsAttempts
<1>4. ASSUME NEW a \in S
      PROVE  /\ DOMAIN new(a) = {"req", "completed", "facts", "reservation", "usage"}
             /\ new(a).req = attempts[a].req /\ new(a).usage = attempts[a].usage
             /\ attempts[a].completed => new(a).completed
             /\ a \notin OpenAttempts => new(a).facts = attempts[a].facts
             /\ new(a).reservation \in {"released", attempts[a].reservation}
  <2> DEFINE x == attempts[a]
             y == new(a)
             v == IF a \in ActiveReservations THEN "released" ELSE x.reservation
             c == x.completed \/ a \in OpenAttempts
             f == IF a \in OpenAttempts THEN "process_interrupted" ELSE x.facts
  <2>1. y = [x EXCEPT !.reservation = v, !.completed = c, !.facts = f]
    BY Zenon
  <2>2. /\ v \in {"released", x.reservation} /\ (x.completed => c)
        /\ a \notin OpenAttempts => f = x.facts
    BY Zenon
  <2>3. DOMAIN x = {"req", "completed", "facts", "reservation", "usage"}
    BY <1>2, Zenon
  <2> HIDE DEF x, y, v, c, f
  <2>4. /\ DOMAIN y = DOMAIN x /\ y.req = x.req /\ y.usage = x.usage
        /\ y.reservation = v /\ y.facts = f
    BY <2>1, <2>3
  <2>5. y.completed = c
    BY <2>1, <2>3, Zenon
  <2>6. QED
    BY <2>2, <2>3, <2>4, <2>5, Zenon DEF x, y
<1> HIDE DEF new, S
<1>5. DOMAIN attempts' = S /\ \A a \in S : attempts'[a] = new(a)
  BY <1>1, Zenon
<1>6. IsSeq(attempts')
  <2> DEFINE R == {new(a) : a \in S}
             T == {attempts[i] : i \in DOMAIN attempts}
  <2>1. attempts \in Seq(T)
    BY Zenon DEF IsAttempts, IsSeq
  <2>2. \A a \in S : new(a) \in R
    BY Zenon
  <2> HIDE DEF R, T
  <2>3. S = 1 .. Len(attempts) /\ Len(attempts) \in Nat
    BY <2>1 DEF S
  <2>4. attempts' \in Seq(R)
    BY <1>1, <2>2, <2>3
  <2>5. QED
    BY <2>4, SeqIsSeq, Zenon
<1>7. IsAttempts(attempts')
  <2>1. \A a \in S : /\ DOMAIN attempts'[a] = {"req", "completed", "facts", "reservation", "usage"}
                     /\ attempts'[a].reservation \in {"active", "released"}
    <3> TAKE a \in S
    <3>1. attempts'[a] = new(a) /\ attempts[a].reservation \in {"active", "released"}
      BY <1>3, <1>5, Zenon
    <3>2. QED
      BY <1>4, <3>1, Zenon
  <2>2. QED
    BY <1>5, <1>6, <2>1, Zenon DEF IsAttempts
<1>8. QED
  BY <1>4, <1>5, <1>7, Zenon DEF S

LEMMA PassWorks ==
  ASSUME WorkInv, ReconcilePass
  PROVE  WorkInv'
<1>0. PerRequest /\ IsAttempts(attempts)
  BY Zenon DEF WorkInv
<1>1. UNCHANGED <<pc, pending, command, result>> /\ phase = "recovering"
  BY Zenon DEF ReconcilePass, supervisor
<1>2. /\ IsAttempts(attempts') /\ DOMAIN attempts' = DOMAIN attempts
      /\ \A a \in DOMAIN attempts : attempts'[a].req = attempts[a].req
  BY <1>0, PassCloses, Zenon
<1>3. \A r : OfRequest(attempts', r) = OfRequest(attempts, r)
  BY <1>2, UpdatedInPlace, Zenon
<1>4. ASSUME NEW r \in Requests PROVE Stage(r)'
  <2>1. Stage(r)
    BY Zenon DEF WorkInv
  <2>2. QED
    BY <1>1, <1>3, <2>1, Zenon DEF Stage, Busy, DataFits, OfRequest
<1>5. PerRequest'
  BY <1>0, <1>1, Zenon DEF PerRequest
<1>6. QED
  BY <1>2, <1>4, <1>5, Zenon DEF WorkInv, IsAttempts, IsSeq

LEMMA WorkStep ==
  ASSUME WorkInv, [Next]_vars
  PROVE  WorkInv'
<1>1. CASE NewDay \/ Quiescent \/ UNCHANGED vars
  <2>1. UNCHANGED <<attempts, pc, pending, command, result, phase>>
    BY <1>1, Zenon DEF NewDay, Quiescent, vars, durable, supervisor
  <2>2. QED
    BY <2>1, NothingMoves, Zenon
<1>2. QED
  BY <1>1, RequestWorks, WorkerStepWorks, CrashWorks, PassWorks, Zenon DEF Next

LEMMA WorkInit ==
  ASSUME Init
  PROVE  WorkInv
<1>1. DataFits(NoData)
  BY DEF DataFits, NoData, TargetStatus, Unknown, NoRow
<1>2. attempts = << >> /\ DOMAIN attempts = {}
  BY DEF Init
<1>3. IsAttempts(attempts)
  <2>1. attempts \in Seq({})
    BY <1>2
  <2>2. QED
    BY <1>2, <2>1, SeqIsSeq, Zenon DEF IsAttempts
<1>4. /\ PerRequest /\ phase = "serving"
      /\ \A r \in Requests : /\ pc[r] = "idle" /\ pending[r] = NoData /\ command[r] = NoCommand
                             /\ result[r] = "none"
  BY Zenon DEF Init, PerRequest
<1>5. \A r : OfRequest(attempts, r) = {}
  BY <1>2, Zenon DEF OfRequest
<1>6. \A r \in Requests : Stage(r)
  BY <1>1, <1>4, <1>5, Zenon DEF Stage, Busy
<1>7. QED
  BY <1>3, <1>4, <1>6, Zenon DEF WorkInv

-----------------------------------------------------------------------------
(* What a step does to the durable rows.                                   *)

Rests == UNCHANGED durable /\ (UNCHANGED day \/ (day < Days /\ day' = day + 1))

Finalizes(r) ==
    /\ command[r] # NoCommand /\ FinalizeDurable(r, command[r]) /\ UNCHANGED day

LEMMA DurableSteps ==
  ASSUME [Next]_vars
  PROVE  \/ Rests \/ ReconcilePass
         \/ \E r \in Requests : \/ PublishInitial(r) \/ PublishRetry(r) \/ RetryOverInstance(r)
                                \/ LostDelivery(r) \/ Finalizes(r)
<1>1. CASE Crash \/ NewDay \/ Quiescent \/ UNCHANGED vars
  BY <1>1, Zenon DEF Crash, NewDay, Quiescent, vars, durable, Rests
<1>2. ASSUME NEW r \in Requests, RequestNext(r)
      PROVE  \/ Rests \/ PublishInitial(r) \/ PublishRetry(r) \/ RetryOverInstance(r)
             \/ LostDelivery(r)
  <2>1. CASE PublicationRefused(r) \/ RetryFails(r) \/ Deliver(r) \/ DeliveryInterrupted(r)
    BY <2>1, Zenon DEF PublicationRefused, RetryFails, Deliver, DeliveryInterrupted, durable, Rests
  <2>2. CASE CallerGone(r) \/ CleanupWaited(r) \/ NoEligibleRoute(r) \/ Complete(r)
    BY <2>2, Zenon DEF CallerGone, CleanupWaited, NoEligibleRoute, Respond, Complete, durable, Rests
  <2>3. ASSUME NEW f, AttemptRetryable(r, f) \/ AttemptFails(r, f) \/ AttemptSucceeds(r, f)
        PROVE  Rests
    BY <2>3, Zenon DEF AttemptRetryable, AttemptFails, AttemptSucceeds, Respond, durable, Rests
  <2>4. QED
    BY <1>2, <2>1, <2>2, <2>3, Zenon DEF RequestNext
<1>3. ASSUME NEW r \in Requests, WorkerNext(r) PROVE Rests \/ Finalizes(r)
  BY <1>3, Zenon DEF WorkerNext, FinalizeRequest, FinalizeFailedAttempt, RunCommand, TryFails,
     FinishCommand, RemoveJob, durable, Rests, Finalizes
<1>4. QED
  BY <1>1, <1>2, <1>3, Zenon DEF Next

\* finalize_durable settles the holds of r, or leaves them alone.
Settling(r) ==
    /\ status' = [status EXCEPT ![r] = command[r].data.target]
    /\ command[r].data.target \in TargetStatus
    /\ userHold' = SettleHold(userHold, r) /\ instHold' = SettleHold(instHold, r)
    /\ \E atts : userUsed' = FoldUsage(userUsed, userHold, r, atts)
    /\ \E atts : instUsed' = FoldUsage(instUsed, instHold, r, atts)
    /\ \A a \in OfRequest(attempts', r) : ClosedAttempt(attempts'[a])

Unsettling(r) ==
    /\ UNCHANGED <<userHold, instHold, userUsed, instUsed>>
    /\ \/ UNCHANGED status
       \/ /\ status' = [status EXCEPT ![r] = command[r].data.target]
          /\ command[r].data.target \in TargetStatus

\* A command that is not refused respects what is terminal.
Respects(r) == status[r] \in Terminal => status[r] = command[r].data.target

KeepsCompleted(r) ==
    \A a \in OfRequest(attempts, r) : attempts[a].completed =>
      /\ attempts'[a].facts = attempts[a].facts /\ attempts'[a].usage = attempts[a].usage

LEMMA FinalizeEffect ==
  ASSUME WorkInv, NEW r \in Requests, Finalizes(r)
  PROVE  /\ (Settling(r) /\ Respects(r)) \/ (Unsettling(r) /\ (UNCHANGED status \/ Respects(r)))
         /\ UNCHANGED attempts \/ (ClosesLast(r) /\ KeepsCompleted(r))
<1> DEFINE c == command[r]
           x == attempts[c.attempt]
<1>0. Running(r) /\ c.data.target \in TargetStatus
  BY Zenon DEF WorkInv, Stage, Running, CommandFits, DataFits, Finalizes
<1>1. FinalizeDurable(r, c)
  BY Zenon DEF Finalizes
<1>2. CASE Refused(r, c)
  BY <1>1, <1>2, Zenon DEF FinalizeDurable, durable, Unsettling
<1>3. CASE ~Refused(r, c)
  <2>1. /\ status' = IF c.kind = "Request" THEN [status EXCEPT ![r] = c.data.target] ELSE status
        /\ c.kind = "Request" => Respects(r)
    BY <1>1, <1>3, Zenon DEF FinalizeDurable, Refused, Respects
  <2>2. CASE FactsConflict(x, c.data)
    <3>1. UNCHANGED <<attempts, userHold, instHold, userUsed, instUsed>>
      BY <1>1, <1>3, <2>2, Zenon DEF FinalizeDurable
    <3>2. QED
      BY <1>0, <2>1, <3>1, Zenon DEF Unsettling
  <2>3. CASE ~FactsConflict(x, c.data)
    <3>1. ConvergeAttempt(r, c, c.kind = "Request")
      BY <1>1, <1>3, <2>3, Zenon DEF FinalizeDurable
    <3>2. /\ ClosesLast(r)
          /\ attempts'[Last(attempts, r)] = FinalizedAttempt(attempts[Last(attempts, r)], c.data)
      BY <1>0, <3>1, ConvergeCloses, Zenon
    <3>3. KeepsCompleted(r)
      <4> SUFFICES ASSUME NEW a \in OfRequest(attempts, r), attempts[a].completed
                   PROVE  /\ attempts'[a].facts = attempts[a].facts
                          /\ attempts'[a].usage = attempts[a].usage
        BY Zenon DEF KeepsCompleted
      <4>1. CASE a # Last(attempts, r)
        BY <3>2, <4>1, Zenon DEF ClosesLast, OfRequest
      <4>2. CASE a = Last(attempts, r)
        <5> DEFINE y == attempts[a]
                   z == attempts'[a]
        <5>1. z = [y EXCEPT !.reservation = "released"]
          BY <3>2, <4>2, Zenon DEF FinalizedAttempt
        <5>2. DOMAIN y = {"req", "completed", "facts", "reservation", "usage"}
          BY Zenon DEF WorkInv, IsAttempts, OfRequest
        <5> HIDE DEF y, z
        <5>3. z.facts = y.facts /\ z.usage = y.usage
          BY <5>1, <5>2
        <5>4. QED
          BY <5>3, Zenon DEF y, z
      <4>3. QED
        BY <4>1, <4>2
    <3>4. CASE c.kind = "Request"
      <4>1. \A a \in OfRequest(attempts', r) : ClosedAttempt(attempts'[a])
        BY <3>2, Zenon DEF ClosesLast
      <4>2. /\ userHold' = SettleHold(userHold, r) /\ instHold' = SettleHold(instHold, r)
            /\ \E atts : userUsed' = FoldUsage(userUsed, userHold, r, atts)
            /\ \E atts : instUsed' = FoldUsage(instUsed, instHold, r, atts)
        BY <3>1, <3>4, Zenon DEF ConvergeAttempt
      <4>3. Settling(r)
        BY <1>0, <2>1, <3>4, <4>1, <4>2, Zenon DEF Settling
      <4>4. QED
        BY <2>1, <3>2, <3>3, <3>4, <4>3, Zenon
    <3>5. CASE c.kind # "Request"
      <4>1. UNCHANGED <<status, userHold, instHold, userUsed, instUsed>>
        BY <2>1, <3>1, <3>5, Zenon DEF ConvergeAttempt
      <4>2. QED
        BY <3>2, <3>3, <4>1, Zenon DEF Unsettling
    <3>6. QED
      BY <3>4, <3>5
  <2>4. QED
    BY <2>2, <2>3
<1>4. QED
  BY <1>2, <1>3

-----------------------------------------------------------------------------
(* Folding.                                                                *)

IsHolds(h) ==
    /\ DOMAIN h = Requests
    /\ \A r \in Requests : DOMAIN h[r] = {"status", "held", "day"} /\ h[r].day \in 1 .. Days

IsUsage(u) ==
    /\ DOMAIN u = 1 .. Days
    /\ \A d \in 1 .. Days : DOMAIN u[d] = {"requests", "tokens"}

Folded(u, h) == \A d \in 1 .. Days : u[d].requests = Cardinality(SettledOn(h, d))

Books(u, h) == IsHolds(h) /\ IsUsage(u) /\ Folded(u, h)

\* Both books are in order, and a request without a row holds nothing.
FoldInv ==
    /\ day \in 1 .. Days /\ DOMAIN status = Requests
    /\ Books(userUsed, userHold) /\ Books(instUsed, instHold)
    /\ \A r \in Requests : status[r] = "absent" =>
          userHold[r].status = "none" /\ instHold[r].status = "none"

LEMMA SettledIsFinite ==
  ASSUME NEW h, NEW d
  PROVE  IsFiniteSet(SettledOn(h, d))
<1>1. SettledOn(h, d) \subseteq 1 .. NumRequests
  BY Zenon DEF SettledOn, Requests
<1>2. IsFiniteSet(1 .. NumRequests)
  BY FS_Interval, AccountingAssumption
<1>3. QED
  BY <1>1, <1>2, FS_Subset, Zenon

\* Holds that change without one being settled leave the books in order.
LEMMA QuietHolds ==
  ASSUME NEW u, NEW h, NEW g, Books(u, h), IsHolds(g),
         \A q \in Requests : \/ g[q] = h[q]
                             \/ g[q].status # "settled" /\ h[q].status # "settled"
  PROVE  Books(u, g)
<1>1. \A d \in 1 .. Days : SettledOn(g, d) = SettledOn(h, d)
  BY Zenon DEF SettledOn
<1>2. QED
  BY <1>1, Zenon DEF Books, Folded

\* Settling a hold counts its request once, on the day of the hold.
LEMMA SettleFolds ==
  ASSUME NEW u, NEW h, Books(u, h), NEW r \in Requests, NEW atts
  PROVE  Books(FoldUsage(u, h, r, atts), SettleHold(h, r))
<1>1. CASE ~Settles(h, r)
  BY <1>1, Zenon DEF FoldUsage, SettleHold
<1>2. CASE Settles(h, r)
  <2> DEFINE g == SettleHold(h, r)
             v == FoldUsage(u, h, r, atts)
             e == h[r].day
  <2>0. /\ e \in 1 .. Days /\ h[r].status = "active" /\ DOMAIN h = Requests
        /\ DOMAIN u = 1 .. Days /\ DOMAIN u[e] = {"requests", "tokens"}
        /\ DOMAIN h[r] = {"status", "held", "day"}
    BY <1>2, Zenon DEF Books, IsHolds, IsUsage, Settles
  <2>1. g = [h EXCEPT ![r].status = "settled"]
    BY <1>2, Zenon DEF SettleHold
  <2>2. /\ DOMAIN g = Requests /\ \A q \in Requests : q # r => g[q] = h[q]
        /\ DOMAIN g[r] = {"status", "held", "day"}
        /\ g[r].status = "settled" /\ g[r].day = e
    BY <2>0, <2>1
  <2>3. PICK t : v = [u EXCEPT ![e].requests = @ + 1, ![e].tokens = t]
    BY <1>2, Zenon DEF FoldUsage
  <2>4. /\ DOMAIN v = 1 .. Days /\ \A d \in 1 .. Days : d # e => v[d] = u[d]
        /\ DOMAIN v[e] = {"requests", "tokens"} /\ v[e].requests = u[e].requests + 1
    BY <2>0, <2>3
  <2> HIDE DEF g, v, e
  <2>5. IsHolds(g) /\ IsUsage(v)
    <3>1. IsHolds(h) /\ IsUsage(u)
      BY Zenon DEF Books
    <3>2. IsHolds(g)
      BY <2>0, <2>2, <3>1, Zenon DEF IsHolds
    <3>3. IsUsage(v)
      BY <2>4, <3>1, Zenon DEF IsUsage
    <3>4. QED
      BY <3>2, <3>3, Zenon
  <2>6. SettledOn(g, e) = SettledOn(h, e) \cup {r} /\ r \notin SettledOn(h, e)
    BY <2>0, <2>2, Zenon DEF SettledOn
  <2>7. \A d \in 1 .. Days : d # e => SettledOn(g, d) = SettledOn(h, d)
    BY <2>0, <2>2, Zenon DEF SettledOn
  <2>8. Cardinality(SettledOn(g, e)) = Cardinality(SettledOn(h, e)) + 1
    BY <2>6, SettledIsFinite, FS_AddElement, Zenon
  <2>9. Folded(v, g)
    BY <2>0, <2>4, <2>7, <2>8, Zenon DEF Books, Folded
  <2>10. QED
    BY <2>5, <2>9, Zenon DEF Books, g, v
<1>3. QED
  BY <1>1, <1>2

\* The hold a publication makes, and the one a retry extends.
LEMMA HoldBegins ==
  ASSUME NEW u, NEW h, Books(u, h), NEW r \in Requests, h[r].status # "settled", day \in 1 .. Days
  PROVE  Books(u, [h EXCEPT ![r] = NewHold])
<1> DEFINE g == [h EXCEPT ![r] = NewHold]
<1>1. /\ DOMAIN NewHold = {"status", "held", "day"} /\ NewHold.status = "active"
      /\ NewHold.day = day
  BY DEF NewHold
<1>2. IsHolds(h)
  BY Zenon DEF Books
<1>3. DOMAIN g = Requests /\ g[r] = NewHold /\ \A q \in Requests : q # r => g[q] = h[q]
  BY <1>2, Zenon DEF IsHolds
<1> HIDE DEF g
<1>4. IsHolds(g)
  BY <1>1, <1>2, <1>3, Zenon DEF IsHolds
<1>5. \A q \in Requests : g[q] = h[q] \/ (g[q].status # "settled" /\ h[q].status # "settled")
  BY <1>1, <1>3, Zenon
<1>6. Books(u, g)
  BY <1>4, <1>5, QuietHolds, Zenon
<1>7. QED
  BY <1>6, Zenon DEF g

SameStatuses(g, h) == \A q \in Requests : g[q].status = h[q].status

LEMMA HoldExtends ==
  ASSUME NEW u, NEW h, Books(u, h), NEW r \in Requests
  PROVE  /\ Books(u, Extend(h, r))
         /\ SameStatuses(Extend(h, r), h)
<1> DEFINE g == Extend(h, r)
<1>1. IsHolds(h)
  BY Zenon DEF Books
<1>2. CASE h[r].status # "active"
  BY <1>2, Zenon DEF Extend, SameStatuses
<1>3. CASE h[r].status = "active"
  <2>1. PICK t : g = [h EXCEPT ![r].held = t]
    BY <1>3, Zenon DEF Extend
  <2>2. /\ DOMAIN g = Requests /\ \A q \in Requests : q # r => g[q] = h[q]
        /\ DOMAIN g[r] = {"status", "held", "day"}
        /\ g[r].status = h[r].status /\ g[r].day = h[r].day
    BY <1>1, <2>1 DEF IsHolds
  <2> HIDE DEF g
  <2>3. IsHolds(g)
    BY <1>1, <2>2, Zenon DEF IsHolds
  <2>4. \A q \in Requests : g[q] = h[q] \/ (g[q].status # "settled" /\ h[q].status # "settled")
    BY <1>3, <2>2, Zenon
  <2>5. Books(u, g)
    BY <2>3, <2>4, QuietHolds, Zenon
  <2>6. QED
    BY <2>2, <2>5, Zenon DEF g, SameStatuses
<1>4. QED
  BY <1>2, <1>3

SomeReleased(g, h) ==
    \A q \in Requests : g[q] = h[q] \/ (g[q].status = "released" /\ h[q].status = "active")

\* Reconciliation releases holds that are active.
LEMMA HoldsReleased ==
  ASSUME NEW u, NEW h, Books(u, h), NEW st
  PROVE  /\ Books(u, Release(h, HoldsToRelease(h, st)))
         /\ SomeReleased(Release(h, HoldsToRelease(h, st)), h)
<1> DEFINE ids == HoldsToRelease(h, st)
           g == Release(h, ids)
<1>1. IsHolds(h)
  BY Zenon DEF Books
<1>2. \A q \in ids : h[q].status = "active"
  BY Zenon DEF HoldsToRelease
<1> HIDE DEF ids
<1>3. /\ DOMAIN g = Requests /\ \A q \in Requests \ ids : g[q] = h[q]
      /\ \A q \in Requests \cap ids : g[q] = [h[q] EXCEPT !.status = "released"]
  BY Zenon DEF Release
<1> HIDE DEF g
<1>4. \A q \in Requests \cap ids : /\ DOMAIN g[q] = {"status", "held", "day"}
                                   /\ g[q].status = "released" /\ g[q].day = h[q].day
  BY <1>1, <1>3 DEF IsHolds
<1>5. \A q \in Requests : g[q] = h[q] \/ (g[q].status = "released" /\ h[q].status = "active")
  BY <1>2, <1>3, <1>4, Zenon
<1>6. IsHolds(g)
  <2>1. \A q \in Requests : DOMAIN g[q] = {"status", "held", "day"} /\ g[q].day \in 1 .. Days
    <3> TAKE q \in Requests
    <3>1. CASE q \in ids
      BY <1>1, <1>4, <3>1, Zenon DEF IsHolds
    <3>2. CASE q \notin ids
      BY <1>1, <1>3, <3>2, Zenon DEF IsHolds
    <3>3. QED
      BY <3>1, <3>2
  <2>2. QED
    BY <1>3, <2>1, Zenon DEF IsHolds
<1>7. Books(u, g)
  BY <1>5, <1>6, QuietHolds, Zenon
<1>8. QED
  BY <1>5, <1>7, Zenon DEF g, ids, SomeReleased

-----------------------------------------------------------------------------
(* Every request is folded once.                                           *)

LEMMA FoldInvNext ==
  ASSUME day' \in 1 .. Days, DOMAIN status' = Requests,
         Books(userUsed', userHold'), Books(instUsed', instHold'),
         \A r \in Requests : status'[r] = "absent" =>
           userHold'[r].status = "none" /\ instHold'[r].status = "none"
  PROVE  FoldInv'
BY Zenon DEF FoldInv, Books, IsHolds, IsUsage, Folded, SettledOn

LEMMA FoldFrame ==
  ASSUME FoldInv, UNCHANGED <<status, userHold, instHold, userUsed, instUsed>>,
         day' \in 1 .. Days
  PROVE  FoldInv'
<1>1. /\ Books(userUsed', userHold') /\ Books(instUsed', instHold') /\ DOMAIN status' = Requests
      /\ \A r \in Requests : status'[r] = "absent" =>
           userHold'[r].status = "none" /\ instHold'[r].status = "none"
  BY Zenon DEF FoldInv
<1>2. QED
  BY <1>1, FoldInvNext, Zenon

LEMMA SettleOnly ==
  ASSUME NEW h, IsHolds(h), NEW r \in Requests
  PROVE  \A q \in Requests : q # r => SettleHold(h, r)[q] = h[q]
BY Zenon DEF SettleHold, IsHolds

LEMMA FoldStep ==
  ASSUME WorkInv, FoldInv, [Next]_vars
  PROVE  FoldInv'
<1>0. /\ day \in 1 .. Days /\ DOMAIN status = Requests
      /\ Books(userUsed, userHold) /\ Books(instUsed, instHold)
      /\ \A r \in Requests : status[r] = "absent" =>
           userHold[r].status = "none" /\ instHold[r].status = "none"
  BY Zenon DEF FoldInv
<1>1. CASE Rests
  <2>1. day' \in 1 .. Days
    BY <1>0, <1>1, AccountingAssumption DEF Rests
  <2>2. UNCHANGED <<status, userHold, instHold, userUsed, instUsed>>
    BY <1>1, Zenon DEF Rests, durable
  <2>3. QED
    BY <2>1, <2>2, FoldFrame, Zenon
<1>2. ASSUME NEW r \in Requests, PublishInitial(r) PROVE FoldInv'
  <2>1. /\ UNCHANGED <<userUsed, instUsed, day>> /\ status[r] = "absent"
        /\ status' = [status EXCEPT ![r] = "pending"]
        /\ userHold' = userHold \/ userHold' = [userHold EXCEPT ![r] = NewHold]
        /\ instHold' = [instHold EXCEPT ![r] = NewHold]
    BY <1>2, Zenon DEF PublishInitial
  <2>2. /\ Books(userUsed, [userHold EXCEPT ![r] = NewHold])
        /\ Books(instUsed, [instHold EXCEPT ![r] = NewHold])
    <3>1. userHold[r].status # "settled" /\ instHold[r].status # "settled"
      BY <1>0, <2>1, Zenon
    <3>2. QED
      BY <1>0, <3>1, HoldBegins, Zenon
  <2>3. Books(userUsed', userHold') /\ Books(instUsed', instHold')
    BY <1>0, <2>1, <2>2, Zenon
  <2>4. /\ DOMAIN status' = Requests /\ status'[r] # "absent"
        /\ \A q \in Requests : q # r => status'[q] = status[q]
    BY <1>0, <2>1, Zenon
  <2>5. \A q \in Requests : q # r => userHold'[q] = userHold[q] /\ instHold'[q] = instHold[q]
    BY <1>0, <2>1, Zenon DEF Books, IsHolds
  <2>6. \A q \in Requests : status'[q] = "absent" =>
          userHold'[q].status = "none" /\ instHold'[q].status = "none"
    BY <1>0, <2>4, <2>5, Zenon
  <2>7. QED
    BY <1>0, <2>1, <2>3, <2>4, <2>6, FoldInvNext, Zenon
<1>3. ASSUME NEW r \in Requests, PublishRetry(r) \/ RetryOverInstance(r) PROVE FoldInv'
  <2>1. /\ UNCHANGED <<status, userUsed, instUsed, day>> /\ userHold' = Extend(userHold, r)
        /\ instHold' = instHold \/ instHold' = Extend(instHold, r)
    BY <1>3, Zenon DEF PublishRetry, RetryOverInstance
  <2>2. /\ Books(userUsed, Extend(userHold, r)) /\ Books(instUsed, Extend(instHold, r))
        /\ SameStatuses(Extend(userHold, r), userHold) /\ SameStatuses(Extend(instHold, r), instHold)
    BY <1>0, HoldExtends, Zenon
  <2>a. \A q \in Requests : /\ userHold'[q].status = userHold[q].status
                            /\ instHold'[q].status = instHold[q].status
    BY <2>1, <2>2, Zenon DEF SameStatuses
  <2>3. Books(userUsed', userHold') /\ Books(instUsed', instHold')
    BY <1>0, <2>1, <2>2, Zenon
  <2>4. \A q \in Requests : status'[q] = "absent" =>
          userHold'[q].status = "none" /\ instHold'[q].status = "none"
    <3> TAKE q \in Requests
    <3>1. userHold'[q].status = userHold[q].status /\ instHold'[q].status = instHold[q].status
      BY <2>a, Zenon
    <3>2. QED
      BY <1>0, <2>1, <3>1, Zenon
  <2>5. QED
    BY <1>0, <2>1, <2>3, <2>4, FoldInvNext, Zenon
<1>4. ASSUME NEW r \in Requests, LostDelivery(r) PROVE FoldInv'
  BY <1>0, <1>4, FoldFrame, Zenon DEF LostDelivery
<1>5. ASSUME NEW r \in Requests, Finalizes(r) PROVE FoldInv'
  <2>1. UNCHANGED day
    BY <1>5, Zenon DEF Finalizes
  <2> DEFINE target == command[r].data.target
  <2>2. \/ UNCHANGED status
        \/ status' = [status EXCEPT ![r] = target] /\ target \in TargetStatus
    BY <1>5, FinalizeEffect, Zenon DEF Settling, Unsettling
  <2> HIDE DEF target
  <2>3. /\ DOMAIN status' = Requests /\ \A q \in Requests : q # r => status'[q] = status[q]
        /\ status'[r] = "absent" => UNCHANGED status
    BY <1>0, <2>2, Zenon DEF TargetStatus
  <2>4. CASE Unsettling(r)
    <3>1. UNCHANGED <<userHold, instHold, userUsed, instUsed>>
      BY <2>4, Zenon DEF Unsettling
    <3>2. Books(userUsed', userHold') /\ Books(instUsed', instHold')
      BY <1>0, <3>1, Zenon
    <3>3. \A q \in Requests : status'[q] = "absent" =>
            userHold'[q].status = "none" /\ instHold'[q].status = "none"
      BY <1>0, <2>3, <3>1, Zenon
    <3>4. QED
      BY <1>0, <2>1, <2>3, <3>2, <3>3, FoldInvNext, Zenon
  <2>5. CASE Settling(r)
    <3>1. /\ userHold' = SettleHold(userHold, r) /\ instHold' = SettleHold(instHold, r)
          /\ \E atts : userUsed' = FoldUsage(userUsed, userHold, r, atts)
          /\ \E atts : instUsed' = FoldUsage(instUsed, instHold, r, atts)
          /\ status' = [status EXCEPT ![r] = target] /\ target \in TargetStatus
      BY <2>5, Zenon DEF Settling, target
    <3>2. Books(userUsed', userHold') /\ Books(instUsed', instHold')
      BY <1>0, <3>1, SettleFolds, Zenon
    <3>3. \A q \in Requests : q # r => userHold'[q] = userHold[q] /\ instHold'[q] = instHold[q]
      BY <1>0, <3>1, SettleOnly, Zenon DEF Books
    <3>4. status'[r] # "absent"
      BY <1>0, <3>1, Zenon DEF TargetStatus
    <3>5. \A q \in Requests : status'[q] = "absent" =>
            userHold'[q].status = "none" /\ instHold'[q].status = "none"
      BY <1>0, <2>3, <3>3, <3>4, Zenon
    <3>6. QED
      BY <1>0, <2>1, <2>3, <3>2, <3>5, FoldInvNext, Zenon
  <2>6. QED
    BY <1>5, <2>4, <2>5, FinalizeEffect, Zenon
<1>6. CASE ReconcilePass
  <2>1. /\ UNCHANGED <<userUsed, instUsed, day>>
        /\ userHold' = Release(userHold, HoldsToRelease(userHold, status'))
        /\ instHold' = Release(instHold, HoldsToRelease(instHold, status'))
        /\ status' = [r \in Requests |->
              IF r \in PendingRequests THEN "interrupted" ELSE status[r]]
    BY <1>6, Zenon DEF ReconcilePass
  <2>2. /\ Books(userUsed, Release(userHold, HoldsToRelease(userHold, status')))
        /\ Books(instUsed, Release(instHold, HoldsToRelease(instHold, status')))
        /\ SomeReleased(Release(userHold, HoldsToRelease(userHold, status')), userHold)
        /\ SomeReleased(Release(instHold, HoldsToRelease(instHold, status')), instHold)
    BY <1>0, HoldsReleased, Zenon
  <2>a. Books(userUsed', userHold') /\ Books(instUsed', instHold')
    BY <2>1, <2>2, Zenon
  <2>3. \A q \in Requests : /\ userHold'[q] = userHold[q] \/ userHold[q].status = "active"
                            /\ instHold'[q] = instHold[q] \/ instHold[q].status = "active"
    BY <2>1, <2>2, Zenon DEF SomeReleased
  <2>4. /\ DOMAIN status' = Requests
        /\ \A q \in Requests : status'[q] = "absent" => status[q] = "absent"
    BY <2>1, Zenon
  <2>5. \A q \in Requests : status'[q] = "absent" =>
          userHold'[q].status = "none" /\ instHold'[q].status = "none"
    BY <1>0, <2>3, <2>4, Zenon
  <2>6. QED
    BY <1>0, <2>1, <2>a, <2>4, <2>5, FoldInvNext, Zenon
<1>7. QED
  BY <1>1, <1>2, <1>3, <1>4, <1>5, <1>6, DurableSteps, Zenon

-----------------------------------------------------------------------------
(* Durable history is final.                                               *)

LEMMA StatusIsFinal ==
  ASSUME WorkInv, FoldInv, [Next]_vars, NEW q \in Requests, status[q] \in Terminal
  PROVE  status'[q] = status[q]
<1>0. DOMAIN status = Requests /\ status[q] \notin {"absent", "pending"}
  BY Zenon DEF FoldInv, Terminal, TargetStatus
<1>1. CASE Rests
  BY <1>1, Zenon DEF Rests, durable
<1>2. ASSUME NEW r \in Requests, PublishInitial(r) PROVE status'[q] = status[q]
  BY <1>0, <1>2, Zenon DEF PublishInitial
<1>3. ASSUME NEW r \in Requests, PublishRetry(r) \/ RetryOverInstance(r) \/ LostDelivery(r)
      PROVE  status'[q] = status[q]
  BY <1>3, Zenon DEF PublishRetry, RetryOverInstance, LostDelivery
<1>4. ASSUME NEW r \in Requests, Finalizes(r) PROVE status'[q] = status[q]
  <2> DEFINE target == command[r].data.target
  <2>1. \/ UNCHANGED status
        \/ status' = [status EXCEPT ![r] = target] /\ (status[r] \in Terminal => status[r] = target)
    BY <1>4, FinalizeEffect, Zenon DEF Settling, Unsettling, Respects
  <2> HIDE DEF target
  <2>2. QED
    BY <1>0, <2>1, Zenon
<1>5. CASE ReconcilePass
  <2>1. q \notin PendingRequests
    BY <1>0, Zenon DEF PendingRequests, FirstBatch
  <2>2. QED
    BY <1>5, <2>1, Zenon DEF ReconcilePass
<1>6. QED
  BY <1>1, <1>2, <1>3, <1>4, <1>5, DurableSteps, Zenon

\* A hold changes when it is published, extended, settled or released: never
\* once it is settled or released.
LEMMA HoldsAreFinal ==
  ASSUME WorkInv, FoldInv, [Next]_vars, NEW q \in Requests
  PROVE  /\ userHold[q].status \in {"settled", "released"} => userHold'[q] = userHold[q]
         /\ instHold[q].status \in {"settled", "released"} => instHold'[q] = instHold[q]
<1> DEFINE Goal == /\ userHold[q].status \in {"settled", "released"} => userHold'[q] = userHold[q]
                   /\ instHold[q].status \in {"settled", "released"} => instHold'[q] = instHold[q]
<1>0. /\ DOMAIN userHold = Requests /\ DOMAIN instHold = Requests
      /\ Books(userUsed, userHold) /\ Books(instUsed, instHold)
  BY Zenon DEF FoldInv, Books, IsHolds
<1>1. ASSUME Rests PROVE Goal
  BY <1>1, Zenon DEF Rests, durable
<1>2. ASSUME NEW r \in Requests, PublishInitial(r) PROVE Goal
  <2>1. status[r] = "absent" /\ (userHold' = userHold \/ userHold' = [userHold EXCEPT ![r] = NewHold])
        /\ instHold' = [instHold EXCEPT ![r] = NewHold]
    BY <1>2, Zenon DEF PublishInitial
  <2>2. userHold[r].status = "none" /\ instHold[r].status = "none"
    BY <2>1, Zenon DEF FoldInv
  <2>3. q # r => userHold'[q] = userHold[q] /\ instHold'[q] = instHold[q]
    BY <1>0, <2>1, Zenon
  <2>4. QED
    BY <2>2, <2>3, Zenon
<1>3. ASSUME NEW r \in Requests, PublishRetry(r) \/ RetryOverInstance(r) PROVE Goal
  <2>1. /\ userHold' = Extend(userHold, r)
        /\ instHold' = instHold \/ instHold' = Extend(instHold, r)
    BY <1>3, Zenon DEF PublishRetry, RetryOverInstance
  <2>2. ASSUME NEW h, DOMAIN h = Requests, h[q].status \in {"settled", "released"}
        PROVE  Extend(h, r)[q] = h[q]
    BY <2>2, Zenon DEF Extend
  <2>3. QED
    BY <1>0, <2>1, <2>2, Zenon
<1>4. ASSUME NEW r \in Requests, LostDelivery(r) PROVE Goal
  BY <1>4, Zenon DEF LostDelivery
<1>5. ASSUME NEW r \in Requests, Finalizes(r) PROVE Goal
  <2>1. \/ UNCHANGED <<userHold, instHold>>
        \/ userHold' = SettleHold(userHold, r) /\ instHold' = SettleHold(instHold, r)
    BY <1>5, FinalizeEffect, Zenon DEF Settling, Unsettling
  <2>2. ASSUME NEW h, DOMAIN h = Requests, h[q].status \in {"settled", "released"}
        PROVE  SettleHold(h, r)[q] = h[q]
    BY <2>2, Zenon DEF SettleHold, Settles
  <2>3. QED
    BY <1>0, <2>1, <2>2, Zenon
<1>6. ASSUME ReconcilePass PROVE Goal
  <2>1. /\ userHold' = Release(userHold, HoldsToRelease(userHold, status'))
        /\ instHold' = Release(instHold, HoldsToRelease(instHold, status'))
    BY <1>6, Zenon DEF ReconcilePass
  <2>2. /\ SomeReleased(Release(userHold, HoldsToRelease(userHold, status')), userHold)
        /\ SomeReleased(Release(instHold, HoldsToRelease(instHold, status')), instHold)
    BY <1>0, HoldsReleased, Zenon
  <2>3. QED
    BY <2>1, <2>2, Zenon DEF SomeReleased
<1> HIDE DEF Goal
<1>7. Goal
  BY <1>1, <1>2, <1>3, <1>4, <1>5, <1>6, DurableSteps, Zenon
<1>8. QED
  BY <1>7, Zenon DEF Goal

\* What a step keeps of an attempt.
Keeps(a) ==
    /\ a \in DOMAIN attempts' /\ attempts'[a].req = attempts[a].req
    /\ attempts[a].completed =>
         /\ attempts'[a].completed
         /\ attempts'[a].facts = attempts[a].facts /\ attempts'[a].usage = attempts[a].usage
    /\ ClosedAttempt(attempts[a]) => ClosedAttempt(attempts'[a])

LEMMA AttemptIsKept ==
  ASSUME WorkInv, [Next]_vars, NEW a \in DOMAIN attempts
  PROVE  Keeps(a)
<1>0. IsAttempts(attempts)
  BY Zenon DEF WorkInv
<1>1. ASSUME attempts'[a] = attempts[a], a \in DOMAIN attempts' PROVE Keeps(a)
  BY <1>1, Zenon DEF Keeps
<1>2. CASE UNCHANGED attempts
  BY <1>1, <1>2, Zenon
<1>3. ASSUME NEW r \in Requests, PublishInitial(r) \/ PublishRetry(r) PROVE Keeps(a)
  <2>1. Extends(attempts', attempts, r)
    BY <1>3, Zenon DEF PublishInitial, PublishRetry, Extends
  <2>2. Grown(attempts', attempts, r)
    BY <1>0, <2>1, Appended, Zenon
  <2>3. QED
    BY <1>1, <2>2, Zenon DEF Grown
<1>4. ASSUME NEW r \in Requests, LostDelivery(r), attempts' # attempts PROVE Keeps(a)
  <2> DEFINE m == Last(attempts, r)
             x == [attempts[m] EXCEPT !.facts = "PublicationInterrupted",
                                      !.completed = TRUE, !.reservation = "released"]
  <2>1. attempts' = [attempts EXCEPT ![m] = x]
    BY <1>4, AttemptsOfIs, Zenon DEF LostDelivery
  <2>2. CASE a # m
    BY <1>1, <2>1, <2>2, Zenon
  <2>3. CASE a = m
    <3>1. ~attempts[a].completed
      BY <1>4, <2>3, Zenon DEF WorkInv, Stage, LostDelivery
    <3>2. DOMAIN attempts[a] = {"req", "completed", "facts", "reservation", "usage"}
      BY <1>0, Zenon DEF IsAttempts
    <3>3. x.req = attempts[a].req
      BY <2>3, <3>2
    <3>4. attempts'[a] = x /\ a \in DOMAIN attempts'
      BY <2>1, <2>3, Zenon
    <3> HIDE DEF x
    <3>5. QED
      BY <3>1, <3>3, <3>4, Zenon DEF Keeps, ClosedAttempt
  <2>4. QED
    BY <2>2, <2>3
<1>5. ASSUME NEW r \in Requests, ClosesLast(r), KeepsCompleted(r) PROVE Keeps(a)
  <2>2. CASE a \in OfRequest(attempts, r)
    <3>1. a \in OfRequest(attempts', r) /\ ClosedAttempt(attempts'[a])
      BY <1>5, <2>2, Zenon DEF ClosesLast
    <3>2. a \in DOMAIN attempts' /\ attempts'[a].req = attempts[a].req
      BY <2>2, <3>1, Zenon DEF OfRequest
    <3>3. QED
      BY <1>5, <2>2, <3>1, <3>2, Zenon DEF Keeps, KeepsCompleted, ClosedAttempt
  <2>3. CASE a \notin OfRequest(attempts, r)
    <3>1. Last(attempts, r) \in OfRequest(attempts, r)
      BY <1>5, Zenon DEF ClosesLast, Works
    <3>2. a \in DOMAIN attempts' /\ attempts'[a] = attempts[a]
      BY <1>5, <2>3, <3>1, Zenon DEF ClosesLast
    <3>3. QED
      BY <1>1, <3>2, Zenon
  <2>4. QED
    BY <2>2, <2>3
<1>6. CASE ReconcilePass
  <2>1. attempts[a].completed => a \notin OpenAttempts
    BY Zenon DEF OpenAttempts, FirstBatch
  <2>2. QED
    BY <1>0, <1>6, <2>1, PassCloses, Zenon DEF Keeps, ClosedAttempt
<1>7. CASE \E r \in Requests : Finalizes(r)
  BY <1>2, <1>5, <1>7, FinalizeEffect, Zenon
<1>8. CASE Rests \/ \E r \in Requests : RetryOverInstance(r)
  BY <1>2, <1>8, Zenon DEF Rests, durable, RetryOverInstance
<1>9. QED
  BY <1>2, <1>3, <1>4, <1>6, <1>7, <1>8, DurableSteps, Zenon

-----------------------------------------------------------------------------
(* Nothing is settled early.                                               *)

ClosedRequest(r) ==
    /\ status[r] \in TargetStatus
    /\ \A a \in OfRequest(attempts, r) : ClosedAttempt(attempts[a])

SettledInv ==
    \A r \in Requests : userHold[r].status = "settled" \/ instHold[r].status = "settled" =>
      ClosedRequest(r)

\* Only a publication makes an attempt, and only of a request that is not terminal.
LEMMA NoNewAttempt ==
  ASSUME WorkInv, [Next]_vars, NEW q \in Requests, status[q] \in Terminal
  PROVE  OfRequest(attempts', q) \subseteq DOMAIN attempts
<1>0. IsAttempts(attempts) /\ status[q] \notin {"absent", "pending"}
  BY Zenon DEF WorkInv, Terminal, TargetStatus
<1>1. ASSUME DOMAIN attempts' = DOMAIN attempts PROVE OfRequest(attempts', q) \subseteq DOMAIN attempts
  BY <1>1, Zenon DEF OfRequest
<1>2. CASE \E r \in Requests : PublishInitial(r) \/ PublishRetry(r)
  <2>1. PICK r \in Requests : PublishInitial(r) \/ PublishRetry(r)
    BY <1>2, Zenon
  <2>2. Extends(attempts', attempts, r)
    BY <2>1, Zenon DEF PublishInitial, PublishRetry, Extends
  <2>3. Grown(attempts', attempts, r)
    BY <1>0, <2>2, Appended, Zenon
  <2>4. q # r
    BY <1>0, <2>1, Zenon DEF PublishInitial, PublishRetry, RetryReady
  <2>5. QED
    BY <2>3, <2>4, Zenon DEF Grown, OfRequest
<1>3. CASE \E r \in Requests : Finalizes(r)
  BY <1>1, <1>3, FinalizeEffect, Zenon DEF ClosesLast
<1>4. CASE ReconcilePass
  BY <1>0, <1>1, <1>4, PassCloses, Zenon
<1>5. CASE Rests \/ \E r \in Requests : RetryOverInstance(r) \/ LostDelivery(r)
  BY <1>1, <1>5, Zenon DEF Rests, durable, RetryOverInstance, LostDelivery
<1>6. QED
  BY <1>2, <1>3, <1>4, <1>5, DurableSteps, Zenon

LEMMA StaysClosed ==
  ASSUME WorkInv, FoldInv, [Next]_vars, NEW q \in Requests, ClosedRequest(q)
  PROVE  ClosedRequest(q)'
<1>1. status[q] \in TargetStatus /\ status[q] \in Terminal
  BY Zenon DEF ClosedRequest, Terminal
<1>2. status'[q] = status[q] /\ OfRequest(attempts', q) \subseteq DOMAIN attempts
  BY <1>1, StatusIsFinal, NoNewAttempt, Zenon
<1>3. ASSUME NEW a \in OfRequest(attempts', q) PROVE ClosedAttempt(attempts'[a])
  <2>1. a \in DOMAIN attempts
    BY <1>2, Zenon
  <2>2. Keeps(a)
    BY <2>1, AttemptIsKept, Zenon
  <2>3. a \in OfRequest(attempts, q)
    BY <2>1, <2>2, Zenon DEF OfRequest, Keeps
  <2>4. QED
    BY <2>2, <2>3, Zenon DEF Keeps, ClosedRequest
<1>4. QED
  BY <1>1, <1>2, <1>3, Zenon DEF ClosedRequest, OfRequest, ClosedAttempt

\* A step that settles a hold closes its request.
LEMMA SettlesClosed ==
  ASSUME WorkInv, FoldInv, [Next]_vars, NEW q \in Requests
  PROVE  \/ ClosedRequest(q)'
         \/ /\ userHold'[q].status = "settled" => userHold[q].status = "settled"
            /\ instHold'[q].status = "settled" => instHold[q].status = "settled"
<1> DEFINE Late == /\ userHold'[q].status = "settled" => userHold[q].status = "settled"
                   /\ instHold'[q].status = "settled" => instHold[q].status = "settled"
<1>0. /\ DOMAIN userHold = Requests /\ DOMAIN instHold = Requests /\ DOMAIN status = Requests
      /\ Books(userUsed, userHold) /\ Books(instUsed, instHold)
      /\ IsHolds(userHold) /\ IsHolds(instHold)
  BY Zenon DEF FoldInv, Books, IsHolds
<1>1. ASSUME Rests \/ \E r \in Requests : LostDelivery(r) PROVE Late
  BY <1>1, Zenon DEF Rests, durable, LostDelivery
<1>2. ASSUME NEW r \in Requests, PublishInitial(r) PROVE Late
  <2>1. /\ userHold' = userHold \/ userHold' = [userHold EXCEPT ![r] = NewHold]
        /\ instHold' = [instHold EXCEPT ![r] = NewHold]
    BY <1>2, Zenon DEF PublishInitial
  <2>2. NewHold.status # "settled"
    BY DEF NewHold
  <2>3. QED
    BY <1>0, <2>1, <2>2, Zenon
<1>3. ASSUME NEW r \in Requests, PublishRetry(r) \/ RetryOverInstance(r) PROVE Late
  <2>1. /\ userHold' = Extend(userHold, r)
        /\ instHold' = instHold \/ instHold' = Extend(instHold, r)
    BY <1>3, Zenon DEF PublishRetry, RetryOverInstance
  <2>2. SameStatuses(Extend(userHold, r), userHold) /\ SameStatuses(Extend(instHold, r), instHold)
    BY <1>0, HoldExtends, Zenon
  <2>3. QED
    BY <2>1, <2>2, Zenon DEF SameStatuses
<1>4. ASSUME NEW r \in Requests, Finalizes(r) PROVE ClosedRequest(q)' \/ Late
  <2>1. CASE Unsettling(r)
    BY <2>1, Zenon DEF Unsettling
  <2>2. CASE Settling(r)
    <3>1. CASE q = r
      <4>1. status'[q] \in TargetStatus
        BY <1>0, <2>2, <3>1, Zenon DEF Settling
      <4>2. \A a \in OfRequest(attempts', q) : ClosedAttempt(attempts'[a])
        BY <2>2, <3>1, Zenon DEF Settling
      <4>3. QED
        BY <4>1, <4>2, Zenon DEF ClosedRequest, OfRequest, ClosedAttempt
    <3>2. CASE q # r
      <4>1. userHold'[q] = userHold[q] /\ instHold'[q] = instHold[q]
        BY <1>0, <2>2, <3>2, SettleOnly, Zenon DEF Settling
      <4>2. QED
        BY <4>1, Zenon
    <3>3. QED
      BY <3>1, <3>2
  <2>3. QED
    BY <1>4, <2>1, <2>2, FinalizeEffect, Zenon
<1>5. ASSUME ReconcilePass PROVE Late
  <2>1. /\ userHold' = Release(userHold, HoldsToRelease(userHold, status'))
        /\ instHold' = Release(instHold, HoldsToRelease(instHold, status'))
    BY <1>5, Zenon DEF ReconcilePass
  <2>2. /\ SomeReleased(Release(userHold, HoldsToRelease(userHold, status')), userHold)
        /\ SomeReleased(Release(instHold, HoldsToRelease(instHold, status')), instHold)
    BY <1>0, HoldsReleased, Zenon
  <2>3. QED
    BY <2>1, <2>2, Zenon DEF SomeReleased
<1> HIDE DEF Late
<1>6. ClosedRequest(q)' \/ Late
  BY <1>1, <1>2, <1>3, <1>4, <1>5, DurableSteps, Zenon
<1>7. QED
  BY <1>6, Zenon DEF Late

LEMMA SettledStep ==
  ASSUME WorkInv, FoldInv, SettledInv, [Next]_vars
  PROVE  SettledInv'
<1>1. ASSUME NEW q \in Requests, userHold'[q].status = "settled" \/ instHold'[q].status = "settled"
      PROVE  ClosedRequest(q)'
  <2>1. CASE ~ClosedRequest(q)'
    <3>1. userHold[q].status = "settled" \/ instHold[q].status = "settled"
      BY <1>1, <2>1, SettlesClosed, Zenon
    <3>2. ClosedRequest(q)
      BY <3>1, Zenon DEF SettledInv
    <3>3. QED
      BY <3>2, StaysClosed, Zenon
  <2>2. QED
    BY <2>1
<1>2. QED
  BY <1>1, Zenon DEF SettledInv, ClosedRequest, OfRequest, ClosedAttempt

-----------------------------------------------------------------------------
(* The results.                                                            *)

AccountingInv == WorkInv /\ FoldInv /\ SettledInv

LEMMA AccountingInit ==
  ASSUME Init
  PROVE  AccountingInv
<1>1. WorkInv
  BY WorkInit, Zenon
<1>2. \A r \in Requests : userHold[r] = NoHold /\ instHold[r] = NoHold
  BY Zenon DEF Init
<1>3. /\ DOMAIN NoHold = {"status", "held", "day"} /\ NoHold.status = "none" /\ NoHold.day = 1
  BY DEF NoHold
<1>4. 1 \in 1 .. Days
  BY AccountingAssumption
<1>5. IsHolds(userHold) /\ IsHolds(instHold)
  BY <1>2, <1>3, <1>4, Zenon DEF Init, IsHolds
<1> DEFINE none == [requests |-> 0, tokens |-> 0]
<1>6. DOMAIN none = {"requests", "tokens"} /\ none.requests = 0
  OBVIOUS
<1>7. /\ DOMAIN userUsed = 1 .. Days /\ DOMAIN instUsed = 1 .. Days
      /\ \A d \in 1 .. Days : userUsed[d] = none /\ instUsed[d] = none
  BY Zenon DEF Init
<1> HIDE DEF none
<1>8. IsUsage(userUsed) /\ IsUsage(instUsed)
  BY <1>6, <1>7, Zenon DEF IsUsage
<1>9. \A d : SettledOn(userHold, d) = {} /\ SettledOn(instHold, d) = {}
  BY <1>2, <1>3, Zenon DEF SettledOn
<1>10. Folded(userUsed, userHold) /\ Folded(instUsed, instHold)
  BY <1>6, <1>7, <1>9, FS_EmptySet, Zenon DEF Folded
<1>11. FoldInv
  BY <1>2, <1>3, <1>4, <1>5, <1>8, <1>10, Zenon DEF FoldInv, Books, Init
<1>12. SettledInv
  BY <1>2, <1>3, Zenon DEF SettledInv
<1>13. QED
  BY <1>1, <1>11, <1>12, Zenon DEF AccountingInv

\* Every step of publication, finalization, compensation and reconciliation
\* keeps the work of each request in order (WorkInv), the counted holds those
\* that were settled (FoldInv), and settled requests closed (SettledInv).
THEOREM AccountingIsInductive == Spec => []AccountingInv
<1>1. Init => AccountingInv
  BY AccountingInit, Zenon
<1>2. AccountingInv /\ [Next]_vars => AccountingInv'
  BY WorkStep, FoldStep, SettledStep, Zenon DEF AccountingInv
<1>3. QED
  BY <1>1, <1>2, PTL DEF Spec

\* A day's request count is the number of holds settled on it, however often
\* the finalization supervisor runs a command again whose transaction already
\* committed, and whatever crashes and reconciliation do in between.
THEOREM FoldedOnceHolds == Spec => []FoldedOnce
<1>1. AccountingInv => FoldedOnce
  BY Zenon DEF AccountingInv, FoldInv, Books, Folded, FoldedOnce
<1>2. QED
  BY <1>1, AccountingIsInductive, PTL

\* A request whose hold is settled is terminal, and every attempt it made is
\* closed, released and billed: finalize_durable never settles ahead of an
\* attempt that is still open.
THEOREM SettledIsCompleteHolds == Spec => []SettledIsComplete
<1>1. ASSUME SettledInv PROVE SettledIsComplete
  <2> SUFFICES ASSUME NEW r \in Requests,
                      "settled" \in {userHold[r].status, instHold[r].status}
               PROVE  /\ status[r] \in TargetStatus
                      /\ \A a \in AttemptsOf(r) :
                           /\ attempts[a].completed /\ attempts[a].reservation = "released"
                           /\ attempts[a].usage # NoRow
    BY Zenon DEF SettledIsComplete
  <2>1. ClosedRequest(r)
    BY <1>1, Zenon DEF SettledInv
  <2>2. QED
    BY <2>1, AttemptsOfIs, Zenon DEF ClosedRequest, ClosedAttempt
<1>2. AccountingInv => SettledIsComplete
  BY <1>1, Zenon DEF AccountingInv
<1>3. QED
  BY <1>2, AccountingIsInductive, PTL

\* A terminal request, a completed attempt and a hold that is no longer active
\* are never changed again, by a late command, a lost delivery's compensation
\* or reconciliation.
THEOREM HistoryIsFinalHolds == Spec => HistoryIsFinal
<1> DEFINE Final ==
      /\ \A r \in Requests :
           /\ status[r] \in Terminal => status'[r] = status[r]
           /\ userHold[r].status \in {"settled", "released"} => userHold'[r] = userHold[r]
           /\ instHold[r].status \in {"settled", "released"} => instHold'[r] = instHold[r]
      /\ \A a \in DOMAIN attempts : attempts[a].completed =>
           /\ attempts'[a].completed
           /\ attempts'[a].facts = attempts[a].facts
           /\ attempts'[a].usage = attempts[a].usage
<1>1. ASSUME AccountingInv, [Next]_vars PROVE Final
  <2>1. WorkInv /\ FoldInv
    BY <1>1, Zenon DEF AccountingInv
  <2>2. \A r \in Requests : status[r] \in Terminal => status'[r] = status[r]
    BY <1>1, <2>1, StatusIsFinal, Zenon
  <2>3. \A r \in Requests :
          /\ userHold[r].status \in {"settled", "released"} => userHold'[r] = userHold[r]
          /\ instHold[r].status \in {"settled", "released"} => instHold'[r] = instHold[r]
    BY <1>1, <2>1, HoldsAreFinal, Zenon
  <2>4. \A a \in DOMAIN attempts : Keeps(a)
    BY <1>1, <2>1, AttemptIsKept, Zenon
  <2>5. QED
    BY <2>2, <2>3, <2>4, Zenon DEF Keeps
<1>2. AccountingInv /\ [Next]_vars => [Final]_vars
  BY <1>1, Zenon
<1>3. QED
  BY <1>2, AccountingIsInductive, PTL DEF Spec, HistoryIsFinal

\* A batch of a table that has rows to fix is not empty.
LEMMA FirstBatchIsEmpty ==
  ASSUME NEW ids, ids \subseteq Nat, FirstBatch(ids) = {}
  PROVE  ids = {}
<1> SUFFICES ASSUME ids # {} PROVE FALSE
  BY Zenon
<1>1. PICK i \in ids : \A j \in ids : <<j, i>> \notin OpToRel(<, Nat)
  BY NatLessThanWellFounded, WFMin, Zenon
<1>2. \A j \in ids : j <= i => j = i
  <2> TAKE j \in ids
  <2>1. i \in Nat /\ j \in Nat
    BY Zenon
  <2>2. ~(j < i)
    BY <1>1, <2>1, Zenon DEF OpToRel
  <2>3. QED
    BY <2>1, <2>2
<1>3. i <= i
  <2>1. i \in Nat
    BY Zenon
  <2>2. QED
    BY <2>1
<1>4. {j \in ids : j <= i} = {i}
  BY <1>2, <1>3, Zenon
<1>5. Cardinality({i}) = 1
  BY FS_Singleton, Zenon
<1>6. 1 <= BatchLimit
  BY AccountingAssumption
<1>7. i \in FirstBatch(ids)
  BY <1>4, <1>5, <1>6, Zenon DEF FirstBatch
<1>8. QED
  BY <1>7, Zenon

\* Reconciliation lets the process serve only after a pass that found nothing
\* to fix, however small its batches: then no request of an earlier process is
\* pending, no attempt open and no provider reservation active.
THEOREM RecoveryConvergesHolds == Spec => RecoveryConverges
<1> DEFINE Converged ==
      phase = "recovering" /\ phase' = "serving" =>
         /\ \A r \in Requests : status'[r] # "pending"
         /\ \A a \in DOMAIN attempts' :
              attempts'[a].completed /\ attempts'[a].reservation = "released"
<1>1. ASSUME AccountingInv, [Next]_vars, phase = "recovering", phase' = "serving"
      PROVE  /\ \A r \in Requests : status'[r] # "pending"
             /\ \A a \in DOMAIN attempts' :
                  attempts'[a].completed /\ attempts'[a].reservation = "released"
  <2>0. IsAttempts(attempts)
    BY <1>1, Zenon DEF AccountingInv, WorkInv
  <2>1. ReconcilePass
    <3>1. phase' # phase /\ phase' # "recovering"
      BY <1>1, Zenon
    <3>2. ASSUME NEW r \in Requests, RequestNext(r) \/ WorkerNext(r) PROVE FALSE
      <4>1. CASE RequestNext(r)
        BY <1>1, <4>1, Zenon DEF RequestNext, PublishInitial, PublicationRefused, PublishRetry,
           RetryOverInstance, RetryReady, RetryFails, Deliver, DeliveryInterrupted, LostDelivery,
           CallerGone, AttemptRetryable, AttemptFails, AttemptSucceeds, CleanupWaited,
           NoEligibleRoute, Complete
      <4>2. CASE WorkerNext(r)
        BY <1>1, <4>2, Zenon DEF WorkerNext, FinalizeRequest, FinalizeFailedAttempt, RunCommand,
           TryFails, RemoveJob
      <4>3. QED
        BY <3>2, <4>1, <4>2
    <3>3. QED
      BY <1>1, <3>1, <3>2, Zenon DEF Next, Crash, NewDay, Quiescent, vars
  <2>2. PendingRequests = {} /\ ActiveReservations = {} /\ OpenAttempts = {}
    BY <1>1, <2>1, Zenon DEF ReconcilePass
  <2>3. Requests \subseteq Nat /\ DOMAIN attempts \subseteq Nat
    <3>1. Requests \subseteq Nat
      BY AccountingAssumption DEF Requests
    <3>2. DOMAIN attempts \subseteq Nat
      BY <2>0 DEF IsAttempts, IsSeq
    <3>3. QED
      BY <3>1, <3>2
  <2>4. /\ {r \in Requests : status[r] = "pending"} = {}
        /\ {a \in DOMAIN attempts : attempts[a].reservation = "active"} = {}
        /\ {a \in DOMAIN attempts : ~attempts[a].completed} = {}
    <3>1. /\ {r \in Requests : status[r] = "pending"} \subseteq Nat
          /\ {a \in DOMAIN attempts : attempts[a].reservation = "active"} \subseteq Nat
          /\ {a \in DOMAIN attempts : ~attempts[a].completed} \subseteq Nat
      BY <2>3, Zenon
    <3>2. QED
      BY <2>2, <3>1, FirstBatchIsEmpty, Zenon DEF PendingRequests, ActiveReservations, OpenAttempts
  <2>5. \A r \in Requests : status'[r] = status[r]
    BY <2>1, <2>2, Zenon DEF ReconcilePass
  <2>6. /\ DOMAIN attempts' = DOMAIN attempts
        /\ \A a \in DOMAIN attempts :
             /\ attempts[a].completed => attempts'[a].completed
             /\ attempts[a].reservation = "released" => attempts'[a].reservation = "released"
    BY <2>0, <2>1, PassCloses, Zenon
  <2>7. \A a \in DOMAIN attempts : attempts[a].completed /\ attempts[a].reservation = "released"
    BY <2>0, <2>4, Zenon DEF IsAttempts
  <2>8. QED
    BY <2>4, <2>5, <2>6, <2>7, Zenon
<1>2. AccountingInv /\ [Next]_vars => [Converged]_vars
  BY <1>1, Zenon
<1>3. QED
  BY <1>2, AccountingIsInductive, PTL DEF Spec, RecoveryConverges

=============================================================================
