-------------------------- MODULE ConcurrencyProofs -------------------------
(***************************************************************************)
(* What holds of the database's transaction gate for any number of         *)
(* callers, wherever their futures are dropped; of what any number of      *)
(* server processes leave behind, wherever each of them ends; and of a     *)
(* configuration reload, which implements the atomic one.                  *)
(***************************************************************************)
EXTENDS DatabaseGate, ServerProcess, ReloadTransaction, WellFoundedInduction,
        TLAPS

-----------------------------------------------------------------------------
(* The transaction gate (DatabaseGate).                                    *)

\* States of a caller that owns a DatabaseTransaction, and of one whose own
\* future keeps the permit; kinds of closures that carry the permit.
Owning == {"holding", "statement", "commit", "commit_failed", "rollback", "safety", "ended"}
InFuture == {"inspect", "close"}
InClosure == {"call", "txn", "begin"}

IsSeq(s) == s \in Seq({s[i] : i \in DOMAIN s})

GateTypes ==
    /\ IsSeq(jobs) /\ \A i \in DOMAIN jobs : jobs[i].kind \in JobKinds
    /\ IsSeq(waiters)
    /\ \A i \in DOMAIN waiters : waiters[i].by \in Callers /\ waiters[i].kind \in AcquireKinds
    /\ DOMAIN caller = Callers

Sole(states) == \A c, d \in Callers : caller[c] \in states /\ caller[d] \in states => c = d

\* Who has the permit: the owner of a transaction, the future of an inspection
\* or a close, or the one closure that carries it, which is the last one queued.
PermitInv ==
    /\ \A c \in Callers : caller[c] \in Owning => permit = "handle"
    /\ \A c \in Callers : caller[c] \in InFuture => permit = "future"
    /\ Sole(Owning) /\ Sole(InFuture)
    /\ \A i \in DOMAIN jobs : jobs[i].kind \in InClosure => permit = "job" /\ i = Len(jobs)
    /\ \A i \in DOMAIN jobs : jobs[i].kind = "drop" => permit = "spawned"
    /\ \A i, j \in DOMAIN jobs : jobs[i].kind = "drop" /\ jobs[j].kind = "drop" => i = j

\* A caller awaits the one closure it queued ...
JobsAwaited ==
    /\ \A i \in DOMAIN jobs : jobs[i].awaited =>
          jobs[i].kind # "drop" /\ jobs[i].by \in Callers /\ caller[jobs[i].by] = jobs[i].kind
    /\ \A i, j \in DOMAIN jobs :
          jobs[i].awaited /\ jobs[j].awaited /\ jobs[i].by = jobs[j].by => i = j

\* ... or the one place it has in the queue of the semaphore.
WaitersWait ==
    /\ \A i \in DOMAIN waiters : caller[waiters[i].by] = "waiting"
    /\ \A i, j \in DOMAIN waiters : waiters[i].by = waiters[j].by => i = j
    /\ \A c \in Callers : caller[c] = "waiting" => \E i \in DOMAIN waiters : waiters[i].by = c

\* An open transaction is its owner's, and so is all that is queued.
TransactionInv ==
    /\ openTxn # NoCaller =>
          permit \in {"handle", "spawned"} /\ \A i \in DOMAIN jobs : jobs[i].by = openTxn
    /\ \A c \in Callers : caller[c] \in Owning /\ openTxn # NoCaller => c = openTxn
    /\ \A c \in Callers : caller[c] = "ended" => openTxn = NoCaller

Sound == GateTypes /\ PermitInv /\ JobsAwaited /\ WaitersWait /\ TransactionInv

\* The gate is sound until a ROLLBACK fails; nothing is open once it closed.
GateInv == IF physical = "closed" THEN openTxn = NoCaller ELSE leftOpen \/ Sound

\* A sequence is one of its own elements.
LEMMA SeqIsSeq ==
  ASSUME NEW S, NEW t \in Seq(S)
  PROVE  IsSeq(t)
<1> DEFINE R == {t[i] : i \in DOMAIN t}
<1>1. \A i \in DOMAIN t : t[i] \in R
  BY Zenon
<1> HIDE DEF R
<1>2. DOMAIN t = 1 .. Len(t) /\ Len(t) \in Nat
  OBVIOUS
<1>3. t \in Seq(R)
  BY <1>1, <1>2
<1>4. QED
  BY <1>3, Zenon DEF R, IsSeq

\* Appending to a sequence.
LEMMA AppendIs ==
  ASSUME NEW s, IsSeq(s), NEW e
  PROVE  /\ IsSeq(Append(s, e))
         /\ \A i \in DOMAIN Append(s, e) :
               \/ i \in DOMAIN s /\ i # Len(Append(s, e)) /\ Append(s, e)[i] = s[i]
               \/ i = Len(Append(s, e)) /\ Append(s, e)[i] = e
<1> DEFINE S == {s[i] : i \in DOMAIN s} \cup {e}
           t == Append(s, e)
<1>1. s \in Seq(S)
  BY DEF IsSeq
<1> HIDE DEF S
<1>2. e \in S
  BY Zenon DEF S
<1>3. /\ t \in Seq(S) /\ Len(t) = Len(s) + 1 /\ Len(s) \in Nat
      /\ DOMAIN t = 1 .. Len(t) /\ DOMAIN s = 1 .. Len(s)
      /\ \A i \in 1 .. Len(s) : t[i] = s[i]
      /\ t[Len(s) + 1] = e
  BY <1>1, <1>2
<1> HIDE DEF t
<1>4. IsSeq(t)
  BY <1>3, SeqIsSeq, Zenon
<1>5. \A i \in DOMAIN t : \/ i \in DOMAIN s /\ i # Len(t) /\ t[i] = s[i]
                          \/ i = Len(t) /\ t[i] = e
  <2>1. \A n \in Nat : \A i \in 1 .. n + 1 : (i \in 1 .. n /\ i # n + 1) \/ i = n + 1
    OBVIOUS
  <2>2. \A i \in DOMAIN t : (i \in DOMAIN s /\ i # Len(t)) \/ i = Len(t)
    BY <1>3, <2>1, Zenon
  <2>3. t[Len(t)] = e /\ \A i \in DOMAIN s : t[i] = s[i]
    BY <1>3, Zenon
  <2>4. QED
    BY <2>2, <2>3, Zenon
<1>6. QED
  BY <1>4, <1>5, Zenon DEF t

LEMMA AppendKeeps ==
  ASSUME NEW s, IsSeq(s), NEW e
  PROVE  /\ Len(Append(s, e)) \in DOMAIN Append(s, e) /\ Append(s, e)[Len(Append(s, e))] = e
         /\ \A i \in DOMAIN s : i \in DOMAIN Append(s, e) /\ Append(s, e)[i] = s[i]
<1> DEFINE S == {s[i] : i \in DOMAIN s} \cup {e}
<1>1. s \in Seq(S)
  BY DEF IsSeq
<1> HIDE DEF S
<1>2. e \in S
  BY Zenon DEF S
<1>3. QED
  BY <1>1, <1>2

\* Taking the first element of a sequence off: where the others go.
LEMMA TailIs ==
  ASSUME NEW s, IsSeq(s), s # <<>>
  PROVE  /\ IsSeq(Tail(s)) /\ 1 \in DOMAIN s /\ Head(s) = s[1]
         /\ \A i \in DOMAIN Tail(s) : /\ i \in Nat /\ i + 1 \in DOMAIN s /\ i + 1 # 1
                                      /\ Tail(s)[i] = s[i + 1]
                                      /\ i + 1 = Len(s) <=> i = Len(Tail(s))
         /\ Len(s) = 1 => DOMAIN Tail(s) = {}
<1> DEFINE S == {s[i] : i \in DOMAIN s}
           t == Tail(s)
<1>1. s \in Seq(S)
  BY Zenon DEF IsSeq
<1> HIDE DEF S
<1>2. /\ t \in Seq(S) /\ Len(s) \in Nat /\ Len(s) >= 1 /\ Len(t) = Len(s) - 1
      /\ DOMAIN t = 1 .. Len(t) /\ DOMAIN s = 1 .. Len(s)
      /\ \A i \in 1 .. Len(t) : t[i] = s[i + 1]
      /\ Head(s) = s[1]
  BY <1>1
<1> HIDE DEF t
<1>3. IsSeq(t)
  BY <1>2, SeqIsSeq, Zenon
<1>4. \A i \in DOMAIN t : /\ i \in Nat /\ i + 1 \in DOMAIN s /\ i + 1 # 1
                          /\ t[i] = s[i + 1]
                          /\ i + 1 = Len(s) <=> i = Len(t)
  BY <1>2
<1>5. 1 \in DOMAIN s /\ (Len(s) = 1 => DOMAIN t = {})
  BY <1>2
<1>6. QED
  BY <1>2, <1>3, <1>4, <1>5, Zenon DEF t

LEMMA TailKeeps ==
  ASSUME NEW s, IsSeq(s), NEW j \in DOMAIN s, j # 1
  PROVE  j - 1 \in DOMAIN Tail(s) /\ Tail(s)[j - 1] = s[j]
<1> DEFINE S == {s[i] : i \in DOMAIN s}
<1>1. s \in Seq(S)
  BY Zenon DEF IsSeq
<1> HIDE DEF S
<1>2. QED
  BY <1>1

\* Neighbours in a sequence are told apart by what precedes them.
LEMMA SuccessorIsInjective == \A i, j \in Nat : i + 1 = j + 1 => i = j
OBVIOUS

\* One caller moves to another state.
LEMMA AwaitsIs ==
  ASSUME GateTypes, NEW c \in Callers, NEW s, Awaits(c, s)
  PROVE  /\ DOMAIN caller' = Callers
         /\ caller'[c] = s
         /\ \A d \in Callers : d # c => caller'[d] = caller[d]
BY Zenon DEF GateTypes, Awaits

\* A caller queues a closure and awaits it.
LEMMA QueueIs ==
  ASSUME GateTypes, NEW c \in Callers, NEW k \in JobKinds, jobs' = Queue(k, c)
  PROVE  /\ IsSeq(jobs') /\ \A i \in DOMAIN jobs' : jobs'[i].kind \in JobKinds
         /\ \A i \in DOMAIN jobs' :
               \/ i \in DOMAIN jobs /\ i # Len(jobs') /\ jobs'[i] = jobs[i]
               \/ i = Len(jobs') /\ jobs'[i].kind = k /\ jobs'[i].by = c
<1> DEFINE job == [kind |-> k, by |-> c, awaited |-> TRUE]
<1>1. job.kind = k /\ job.by = c
  OBVIOUS
<1>2. jobs' = Append(jobs, job) /\ IsSeq(jobs)
  BY Zenon DEF Queue, GateTypes
<1> HIDE DEF job
<1>3. /\ IsSeq(jobs')
      /\ \A i \in DOMAIN jobs' :
            \/ i \in DOMAIN jobs /\ i # Len(jobs') /\ jobs'[i] = jobs[i]
            \/ i = Len(jobs') /\ jobs'[i] = job
  BY <1>2, AppendIs, ZenonT(40)
<1>4. QED
  BY <1>1, <1>3, Zenon DEF GateTypes

LEMMA QueueAwaited ==
  ASSUME GateTypes, JobsAwaited, NEW c \in Callers, NEW k \in JobKinds \ {"drop"},
         jobs' = Queue(k, c), caller[c] \notin JobKinds, Awaits(c, k)
  PROVE  JobsAwaited'
<1>1. \A i \in DOMAIN jobs : jobs[i].awaited => jobs[i].by # c
  BY Zenon DEF JobsAwaited, GateTypes
<1>2. \A i \in DOMAIN jobs' :
         \/ i \in DOMAIN jobs /\ i # Len(jobs') /\ jobs'[i] = jobs[i]
         \/ i = Len(jobs') /\ jobs'[i].kind = k /\ jobs'[i].by = c
  BY QueueIs, Zenon
<1>3. caller'[c] = k /\ \A d \in Callers : d # c => caller'[d] = caller[d]
  BY AwaitsIs, Zenon
<1>4. \A i \in DOMAIN jobs' : jobs'[i].awaited =>
         /\ jobs'[i].kind # "drop" /\ jobs'[i].by \in Callers
         /\ caller'[jobs'[i].by] = jobs'[i].kind
  BY <1>1, <1>2, <1>3 DEF JobsAwaited
<1>5. \A i, j \in DOMAIN jobs' :
         jobs'[i].awaited /\ jobs'[j].awaited /\ jobs'[i].by = jobs'[j].by => i = j
  BY <1>1, <1>2 DEF JobsAwaited
<1>6. QED
  BY <1>4, <1>5, Zenon DEF JobsAwaited

\* The first closure is taken off the worker's queue and answered.
LEMMA AnswerIs ==
  ASSUME GateTypes, JobsAwaited, jobs # <<>>, jobs' = Tail(jobs), NEW s, Answer(s)
  PROVE  /\ DOMAIN caller' = Callers
         /\ Job.awaited => /\ Job.kind # "drop" /\ Job.by \in Callers
                           /\ caller[Job.by] = Job.kind /\ caller'[Job.by] = s
         /\ \A d \in Callers : caller'[d] = caller[d] \/ (Job.awaited /\ d = Job.by)
         /\ JobsAwaited'
<1>1. /\ 1 \in DOMAIN jobs /\ Job = jobs[1]
      /\ \A i \in DOMAIN jobs' :
            i \in Nat /\ i + 1 \in DOMAIN jobs /\ i + 1 # 1 /\ jobs'[i] = jobs[i + 1]
  BY TailIs, Zenon DEF GateTypes, Job
<1>2. Job.awaited => Job.kind # "drop" /\ Job.by \in Callers /\ caller[Job.by] = Job.kind
  BY <1>1, Zenon DEF JobsAwaited
<1>3. /\ DOMAIN caller' = Callers
      /\ Job.awaited => caller'[Job.by] = s
      /\ \A d \in Callers : caller'[d] = caller[d] \/ (Job.awaited /\ d = Job.by)
  <2>1. CASE Job.awaited
    BY <1>2, <2>1, AwaitsIs, Zenon DEF Answer
  <2>2. CASE ~Job.awaited
    BY <2>2, Zenon DEF Answer, GateTypes
  <2>3. QED
    BY <2>1, <2>2, Zenon
<1>4. \A i \in DOMAIN jobs' : jobs'[i].awaited /\ Job.awaited => jobs'[i].by # Job.by
  BY <1>1, ZenonT(40) DEF JobsAwaited
<1>5. \A i \in DOMAIN jobs' : jobs'[i].awaited =>
         /\ jobs'[i].kind # "drop" /\ jobs'[i].by \in Callers
         /\ caller'[jobs'[i].by] = jobs'[i].kind
  BY <1>1, <1>3, <1>4 DEF JobsAwaited
<1>6. \A i, j \in DOMAIN jobs' :
         jobs'[i].awaited /\ jobs'[j].awaited /\ jobs'[i].by = jobs'[j].by => i = j
  BY <1>1, SuccessorIsInjective DEF JobsAwaited
<1>7. QED
  BY <1>2, <1>3, <1>5, <1>6, Zenon DEF JobsAwaited

\* A caller outside the semaphore's queue moves.
LEMMA WaitersStay ==
  ASSUME GateTypes, WaitersWait, UNCHANGED waiters,
         \A d \in Callers : caller[d] = "waiting" <=> caller'[d] = "waiting"
  PROVE  WaitersWait'
BY Zenon DEF WaitersWait, GateTypes

\* The first caller in the semaphore's queue moves on.
LEMMA WaiterPops ==
  ASSUME GateTypes, WaitersWait, waiters # <<>>, waiters' = Tail(waiters),
         NEW s, s # "waiting", Awaits(Head(waiters).by, s)
  PROVE  /\ IsSeq(waiters') /\ WaitersWait'
         /\ \A i \in DOMAIN waiters' :
               waiters'[i].by \in Callers /\ waiters'[i].kind \in AcquireKinds
         /\ Head(waiters).by \in Callers /\ Head(waiters).kind \in AcquireKinds
         /\ caller[Head(waiters).by] = "waiting"
<1>1. /\ IsSeq(waiters') /\ 1 \in DOMAIN waiters /\ Head(waiters) = waiters[1]
      /\ \A i \in DOMAIN waiters' :
            i \in Nat /\ i + 1 \in DOMAIN waiters /\ i + 1 # 1 /\ waiters'[i] = waiters[i + 1]
  BY TailIs, Zenon DEF GateTypes
<1>2. /\ Head(waiters).by \in Callers /\ Head(waiters).kind \in AcquireKinds
      /\ caller[Head(waiters).by] = "waiting"
  BY <1>1, Zenon DEF GateTypes, WaitersWait
<1>3. /\ caller'[Head(waiters).by] = s
      /\ \A d \in Callers : d # Head(waiters).by => caller'[d] = caller[d]
  BY <1>2, AwaitsIs, Zenon
<1>4. \A i \in DOMAIN waiters' :
         /\ waiters'[i].by \in Callers /\ waiters'[i].kind \in AcquireKinds
         /\ waiters'[i].by # Head(waiters).by
  BY <1>1 DEF WaitersWait, GateTypes
<1>5. \A i \in DOMAIN waiters' : caller'[waiters'[i].by] = "waiting"
  BY <1>1, <1>3, <1>4 DEF WaitersWait
<1>6. \A i, j \in DOMAIN waiters' : waiters'[i].by = waiters'[j].by => i = j
  BY <1>1, SuccessorIsInjective DEF WaitersWait
<1>7. ASSUME NEW d \in Callers, caller'[d] = "waiting"
      PROVE  \E i \in DOMAIN waiters' : waiters'[i].by = d
  <2>1. d # Head(waiters).by /\ caller[d] = "waiting"
    BY <1>3, <1>7, Zenon
  <2>2. PICK j \in DOMAIN waiters : waiters[j].by = d
    BY <2>1, Zenon DEF WaitersWait
  <2>3. j # 1
    BY <1>1, <2>1, <2>2, Zenon
  <2>4. j - 1 \in DOMAIN waiters' /\ waiters'[j - 1] = waiters[j]
    BY <2>3, TailKeeps, Zenon DEF GateTypes
  <2>5. QED
    BY <2>2, <2>4, Zenon
<1>8. QED
  BY <1>1, <1>2, <1>4, <1>5, <1>6, <1>7, Zenon DEF WaitersWait

-----------------------------------------------------------------------------
(* The steps.                                                              *)

\* A caller joins the semaphore's queue.
Joins(c, k) == waiters' = Append(waiters, [by |-> c, kind |-> k])

LEMMA WaiterJoins ==
  ASSUME GateTypes, WaitersWait, NEW c \in Callers, NEW k \in AcquireKinds,
         Joins(c, k), Awaits(c, "waiting"), caller[c] # "waiting"
  PROVE  /\ IsSeq(waiters') /\ WaitersWait'
         /\ \A i \in DOMAIN waiters' :
               waiters'[i].by \in Callers /\ waiters'[i].kind \in AcquireKinds
<1> DEFINE w == [by |-> c, kind |-> k]
<1>1. w.by = c /\ w.kind = k
  OBVIOUS
<1>2. waiters' = Append(waiters, w) /\ IsSeq(waiters)
  BY Zenon DEF GateTypes, Joins
<1> HIDE DEF w
<1>3. /\ IsSeq(waiters')
      /\ \A i \in DOMAIN waiters' :
            \/ i \in DOMAIN waiters /\ i # Len(waiters') /\ waiters'[i] = waiters[i]
            \/ i = Len(waiters') /\ waiters'[i] = w
  BY <1>2, AppendIs, Zenon
<1>4. caller'[c] = "waiting" /\ \A d \in Callers : d # c => caller'[d] = caller[d]
  BY AwaitsIs, Zenon
<1>5. \A i \in DOMAIN waiters : waiters[i].by # c
  BY Zenon DEF WaitersWait
<1>6. \A i \in DOMAIN waiters' : waiters'[i].by \in Callers /\ waiters'[i].kind \in AcquireKinds
  BY <1>1, <1>3, Zenon DEF GateTypes
<1>7. \A i \in DOMAIN waiters' : caller'[waiters'[i].by] = "waiting"
  BY <1>1, <1>3, <1>4, <1>5 DEF WaitersWait, GateTypes
<1>8. \A i, j \in DOMAIN waiters' : waiters'[i].by = waiters'[j].by => i = j
  BY <1>1, <1>3, <1>5 DEF WaitersWait
<1>9. ASSUME NEW d \in Callers, caller'[d] = "waiting"
      PROVE  \E i \in DOMAIN waiters' : waiters'[i].by = d
  <2>4. /\ Len(waiters') \in DOMAIN waiters' /\ waiters'[Len(waiters')] = w
        /\ \A i \in DOMAIN waiters : i \in DOMAIN waiters' /\ waiters'[i] = waiters[i]
    BY <1>2, AppendKeeps, ZenonT(40)
  <2>1. CASE d = c
    BY <1>1, <2>4, <2>1, Zenon
  <2>2. CASE d # c
    <3>1. PICK j \in DOMAIN waiters : waiters[j].by = d
      BY <1>4, <1>9, <2>2, Zenon DEF WaitersWait
    <3>2. QED
      BY <2>4, <3>1, Zenon
  <2>3. QED
    BY <2>1, <2>2, Zenon
<1>10. QED
  BY <1>3, <1>6, <1>7, <1>8, <1>9, Zenon DEF WaitersWait

\* A caller that has nothing at the gate moves between states that have
\* nothing there; jobs and permit stay.
LEMMA IdlersMove ==
  ASSUME GateTypes, PermitInv, JobsAwaited, TransactionInv,
         UNCHANGED <<permit, jobs, openTxn>>, NEW c \in Callers, NEW s, Awaits(c, s),
         caller[c] \notin JobKinds, s \notin Owning \cup InFuture
  PROVE  PermitInv' /\ JobsAwaited' /\ TransactionInv'
<1>1. caller'[c] = s /\ \A d \in Callers : d # c => caller'[d] = caller[d]
  BY AwaitsIs, Zenon
<1>2. \A d \in Callers, S \in {Owning, InFuture} : caller'[d] \in S => d # c /\ caller[d] \in S
  BY <1>1, Zenon
<1>3. s # "ended"
  BY Zenon DEF Owning
<1>4. PermitInv'
  BY <1>2, Zenon DEF PermitInv, Sole
<1>5. TransactionInv'
  BY <1>1, <1>2, <1>3, Zenon DEF TransactionInv
<1>6. JobsAwaited'
  BY <1>1 DEF JobsAwaited, GateTypes
<1>7. QED
  BY <1>4, <1>5, <1>6, Zenon

LEMMA AskStep ==
  ASSUME Sound, NEW c \in Callers, NEW k \in AcquireKinds, Ask(c, k)
  PROVE  Sound'
<1>1. caller[c] \notin JobKinds \cup {"waiting"} /\ "waiting" \notin Owning \cup InFuture
  BY Zenon DEF Ask, JobKinds, Owning, InFuture
<1>2. DOMAIN caller' = Callers
  BY AwaitsIs, Zenon DEF Ask, Sound
<1>3. /\ IsSeq(waiters') /\ WaitersWait'
      /\ \A i \in DOMAIN waiters' : waiters'[i].by \in Callers /\ waiters'[i].kind \in AcquireKinds
  BY <1>1, WaiterJoins, Zenon DEF Ask, Joins, Sound
<1>4. PermitInv' /\ JobsAwaited' /\ TransactionInv'
  BY <1>1, IdlersMove, Zenon DEF Ask, Sound
<1>5. QED
  BY <1>2, <1>3, <1>4, Zenon DEF Ask, Sound, GateTypes

LEMMA FailClosedStep ==
  ASSUME Sound, NEW c \in Callers, FailClosed(c)
  PROVE  Sound'
<1>1. caller[c] \notin JobKinds \cup {"waiting"} /\ "waiting" \notin Owning \cup InFuture
      /\ "close" \in AcquireKinds
  BY Zenon DEF FailClosed, JobKinds, Owning, InFuture, AcquireKinds
<1>2. DOMAIN caller' = Callers
  BY AwaitsIs, Zenon DEF FailClosed, Sound
<1>3. /\ IsSeq(waiters') /\ WaitersWait'
      /\ \A i \in DOMAIN waiters' : waiters'[i].by \in Callers /\ waiters'[i].kind \in AcquireKinds
  BY <1>1, WaiterJoins, Zenon DEF FailClosed, Joins, Sound
<1>4. PermitInv' /\ JobsAwaited' /\ TransactionInv'
  BY <1>1, IdlersMove, Zenon DEF FailClosed, Sound
<1>5. QED
  BY <1>2, <1>3, <1>4, Zenon DEF FailClosed, Sound, GateTypes

\* A closure is queued by a caller that awaited none: who has the permit, and
\* whose transaction is open, afterwards.
LEMMA QueueKeeps ==
  ASSUME GateTypes, PermitInv, TransactionInv, NEW c \in Callers, NEW k \in JobKinds \ {"drop"},
         jobs' = Queue(k, c), Awaits(c, k), UNCHANGED openTxn, k # "ended",
         \/ permit = "free" /\ k \in InClosure /\ permit' = "job"
         \/ permit = "free" /\ k \in InFuture /\ permit' = "future"
         \/ UNCHANGED permit /\ k \in Owning /\ caller[c] \in Owning
  PROVE  PermitInv' /\ TransactionInv'
<1>1. caller'[c] = k /\ \A d \in Callers : d # c => caller'[d] = caller[d]
  BY AwaitsIs, Zenon
<1>2. \A i \in DOMAIN jobs' :
         \/ i \in DOMAIN jobs /\ i # Len(jobs') /\ jobs'[i] = jobs[i]
         \/ i = Len(jobs') /\ jobs'[i].kind = k /\ jobs'[i].by = c
  BY QueueIs, Zenon
<1>3. /\ InClosure \cap Owning = {} /\ InFuture \cap Owning = {} /\ InClosure \cap InFuture = {}
      /\ "drop" \notin InClosure
  BY Zenon DEF InClosure, InFuture, Owning
<1>4. CASE permit = "free" /\ k \in InClosure /\ permit' = "job"
  <2>1. \A d \in Callers : caller[d] \notin Owning \cup InFuture
    BY <1>4, Zenon DEF PermitInv
  <2>2. \A d \in Callers : caller'[d] \notin Owning \cup InFuture
    BY <1>1, <1>3, <1>4, <2>1, Zenon
  <2>3. \A i \in DOMAIN jobs : jobs[i].kind \notin InClosure \cup {"drop"}
    BY <1>4, Zenon DEF PermitInv
  <2>4. PermitInv'
    BY <1>2, <1>3, <1>4, <2>2, <2>3, Zenon DEF PermitInv, Sole
  <2>5. TransactionInv'
    BY <1>4, <2>2, Zenon DEF TransactionInv, Owning
  <2>6. QED
    BY <2>4, <2>5, Zenon
<1>5. CASE permit = "free" /\ k \in InFuture /\ permit' = "future"
  <2>1. \A d \in Callers : caller[d] \notin Owning \cup InFuture
    BY <1>5, Zenon DEF PermitInv
  <2>2. \A d \in Callers : caller'[d] \notin Owning /\ (caller'[d] \in InFuture => d = c)
    BY <1>1, <1>3, <1>5, <2>1, Zenon
  <2>3. \A i \in DOMAIN jobs' : jobs'[i].kind \notin InClosure \cup {"drop"}
    BY <1>2, <1>3, <1>5, Zenon DEF PermitInv
  <2>4. PermitInv'
    BY <1>5, <2>2, <2>3, Zenon DEF PermitInv, Sole
  <2>5. TransactionInv'
    BY <1>5, <2>2, Zenon DEF TransactionInv, Owning
  <2>6. QED
    BY <2>4, <2>5, Zenon
<1>6. CASE UNCHANGED permit /\ k \in Owning /\ caller[c] \in Owning
  <2>1. permit = "handle"
    BY <1>6, Zenon DEF PermitInv
  <2>2. \A d \in Callers : /\ caller'[d] \in Owning => caller[d] \in Owning
                           /\ caller'[d] \in InFuture => caller[d] \in InFuture
    BY <1>1, <1>3, <1>6, Zenon
  <2>3. \A i \in DOMAIN jobs' : jobs'[i].kind \notin InClosure \cup {"drop"}
    BY <1>2, <1>3, <1>6, <2>1, Zenon DEF PermitInv
  <2>4. PermitInv'
    BY <1>6, <2>2, <2>3, Zenon DEF PermitInv, Sole
  <2>5. TransactionInv'
    BY <1>1, <1>2, <1>6, <2>2 DEF TransactionInv
  <2>6. QED
    BY <2>4, <2>5, Zenon
<1>7. QED
  BY <1>4, <1>5, <1>6, Zenon

\* The permit is granted to the first waiter, or passed by one that finds the
\* connection closing.
LEMMA GrantedStep ==
  ASSUME Sound, physical # "closed", Granted \/ GrantedToClose
  PROVE  Sound'
<1> DEFINE c == Head(waiters).by  k == Head(waiters).kind
<1>1. \E s : s # "waiting" /\ Awaits(c, s)
  <2>1. 1 \in DOMAIN waiters /\ Head(waiters) = waiters[1]
    BY TailIs, Zenon DEF Granted, GrantedToClose, Sound, GateTypes
  <2>2. k # "waiting"
    BY <2>1, Zenon DEF Sound, GateTypes, AcquireKinds
  <2>3. QED
    BY <2>2, Zenon DEF Granted, GrantedToClose
<1>2. /\ IsSeq(waiters') /\ WaitersWait'
      /\ \A i \in DOMAIN waiters' : waiters'[i].by \in Callers /\ waiters'[i].kind \in AcquireKinds
      /\ c \in Callers /\ k \in AcquireKinds /\ caller[c] = "waiting"
  BY <1>1, WaiterPops, Zenon DEF Granted, GrantedToClose, Sound
<1>3. DOMAIN caller' = Callers
  BY <1>1, <1>2, AwaitsIs, Zenon DEF Sound
<1>4. caller[c] \notin JobKinds /\ "idle" \notin Owning \cup InFuture
  BY <1>2, Zenon DEF JobKinds, Owning, InFuture
<1>5. CASE \/ Granted
           \/ GrantedToClose /\ physical = "open"
  <2>1. /\ k \in JobKinds \ {"drop"} /\ "close" \in JobKinds \ {"drop"}
        /\ k # "close" => k \in InClosure
        /\ "close" \in InFuture
    BY <1>2, Zenon DEF JobKinds, AcquireKinds, InClosure, InFuture
  <2>2. /\ permit = "free" /\ UNCHANGED openTxn
        /\ jobs' = Queue(k, c) /\ Awaits(c, k)
        /\ \/ k # "close" /\ permit' = "job"
           \/ k = "close" /\ permit' = "future"
    BY <1>5, Zenon DEF Granted, GrantedToClose, Alive
  <2>3. k # "ended"
    BY <1>2, Zenon DEF AcquireKinds
  <2> HIDE DEF c, k
  <2>4. PermitInv' /\ TransactionInv'
    BY <1>2, <2>1, <2>2, <2>3, QueueKeeps, Zenon DEF Sound
  <2>5. JobsAwaited'
    BY <1>2, <1>4, <2>1, <2>2, QueueAwaited, Zenon DEF Sound
  <2>6. IsSeq(jobs') /\ \A i \in DOMAIN jobs' : jobs'[i].kind \in JobKinds
    BY <1>2, <2>1, <2>2, QueueIs, Zenon DEF Sound
  <2>7. QED
    BY <1>2, <1>3, <2>4, <2>5, <2>6, Zenon DEF Sound, GateTypes
<1>6. CASE GrantedToClose /\ physical # "open"
  <2>1. UNCHANGED <<permit, jobs, openTxn>> /\ Awaits(c, "idle")
    BY <1>6, Zenon DEF GrantedToClose
  <2> HIDE DEF c, k
  <2>2. PermitInv' /\ JobsAwaited' /\ TransactionInv'
    BY <1>2, <1>4, <2>1, IdlersMove, Zenon DEF Sound
  <2>3. QED
    BY <1>2, <1>3, <2>1, <2>2, Zenon DEF Sound, GateTypes
<1>7. QED
  BY <1>5, <1>6, Zenon

\* An inspection, and the closures of a DatabaseTransaction, are queued.
LEMMA QueueStep ==
  ASSUME Sound, NEW c \in Callers, NEW k \in JobKinds, Inspect(c) \/ Use(c, k) \/ CommitFailed(c)
  PROVE  Sound'
<1>1. PICK j \in JobKinds \ {"drop"} :
         /\ j # "ended" /\ jobs' = Queue(j, c) /\ Awaits(c, j)
         /\ \/ permit = "free" /\ j \in InFuture /\ permit' = "future"
            \/ UNCHANGED permit /\ j \in Owning /\ caller[c] \in Owning
  <2>1. "inspect" \in InFuture \cap JobKinds /\ "safety" \in Owning \cap JobKinds
        /\ {"statement", "commit", "rollback"} \subseteq Owning \cap JobKinds
        /\ "holding" \in Owning /\ "commit_failed" \in Owning
    BY Zenon DEF JobKinds, Owning, InFuture
  <2>2. CASE Inspect(c)
    BY <2>1, <2>2, Zenon DEF Inspect
  <2>3. CASE Use(c, k)
    BY <2>1, <2>3, Zenon DEF Use
  <2>4. CASE CommitFailed(c)
    BY <2>1, <2>4, Zenon DEF CommitFailed
  <2>5. QED
    BY <2>2, <2>3, <2>4, Zenon
<1>2. /\ UNCHANGED <<waiters, openTxn>> /\ caller[c] \notin JobKinds /\ caller[c] # "waiting"
      /\ "waiting" \notin JobKinds
  BY Zenon DEF Inspect, Use, CommitFailed, JobKinds
<1>3. PermitInv' /\ TransactionInv'
  BY <1>1, <1>2, QueueKeeps, Zenon DEF Sound
<1>4. JobsAwaited'
  BY <1>1, <1>2, QueueAwaited, Zenon DEF Sound
<1>5. IsSeq(jobs') /\ \A i \in DOMAIN jobs' : jobs'[i].kind \in JobKinds
  BY <1>1, QueueIs, Zenon DEF Sound
<1>6. /\ DOMAIN caller' = Callers /\ caller'[c] # "waiting"
      /\ \A d \in Callers : d # c => caller'[d] = caller[d]
  <2>1. DOMAIN caller' = Callers /\ caller'[c] = j /\ \A d \in Callers : d # c => caller'[d] = caller[d]
    BY <1>1, AwaitsIs, Zenon DEF Sound
  <2>2. QED
    BY <1>2, <2>1, Zenon
<1>7. WaitersWait'
  BY <1>2, <1>6, WaitersStay, Zenon DEF Sound
<1>8. QED
  BY <1>2, <1>3, <1>4, <1>5, <1>6, <1>7, Zenon DEF Sound, GateTypes

\* commit() or rollback() is over.
LEMMA FinishStep ==
  ASSUME Sound, NEW c \in Callers, Finish(c)
  PROVE  Sound'
<1>1. /\ caller[c] = "ended" /\ caller[c] \in Owning /\ caller[c] \notin JobKinds
      /\ "idle" \notin Owning \cup InFuture
  BY Zenon DEF Finish, Owning, InFuture, JobKinds
<1>2. /\ DOMAIN caller' = Callers /\ caller'[c] = "idle"
      /\ \A d \in Callers : d # c => caller'[d] = caller[d]
  BY AwaitsIs, Zenon DEF Sound, Finish
<1>3. openTxn = NoCaller /\ permit = "handle"
  BY <1>1, Zenon DEF Sound, PermitInv, TransactionInv
<1>4. \A d \in Callers : caller'[d] \notin Owning \cup InFuture
  BY <1>1, <1>2, <1>3, Zenon DEF Sound, PermitInv, Sole
<1>5. \A i \in DOMAIN jobs : jobs[i].kind \notin InClosure /\ jobs[i].kind # "drop"
  BY <1>3, Zenon DEF Sound, PermitInv
<1>6. PermitInv'
  BY <1>4, <1>5, Zenon DEF PermitInv, Sole, Finish
<1>7. TransactionInv'
  BY <1>3, <1>4, Zenon DEF TransactionInv, Finish, Owning
<1>8. JobsAwaited'
  BY <1>1, <1>2 DEF Sound, JobsAwaited, GateTypes, Finish
<1>9. WaitersWait'
  BY <1>1, <1>2, WaitersStay, Zenon DEF Sound, Finish
<1>10. QED
  BY <1>2, <1>6, <1>7, <1>8, <1>9, Zenon DEF Sound, GateTypes, Finish

\* A caller leaves the semaphore's queue from wherever it stands in it.
LEMMA WaiterLeaves ==
  ASSUME GateTypes, WaitersWait, NEW c \in Callers, caller[c] = "waiting",
         waiters' = WithoutWaiter(c), Awaits(c, "idle")
  PROVE  /\ IsSeq(waiters') /\ WaitersWait'
         /\ \A i \in DOMAIN waiters' :
               waiters'[i].by \in Callers /\ waiters'[i].kind \in AcquireKinds
<1> DEFINE place == CHOOSE i \in DOMAIN waiters : waiters[i].by = c
           From(i) == IF i < place THEN i ELSE i + 1
           W == {waiters[i] : i \in DOMAIN waiters}
<1>1. place \in DOMAIN waiters /\ waiters[place].by = c
  BY Zenon DEF WaitersWait
<1>2. waiters' = [i \in 1 .. Len(waiters) - 1 |-> waiters[From(i)]]
  BY Zenon DEF WithoutWaiter
<1>3. waiters \in Seq(W)
  BY Zenon DEF GateTypes, IsSeq
<1>4. \A i \in DOMAIN waiters : waiters[i] \in W
  BY Zenon
<1> HIDE DEF place, W
<1>5. DOMAIN waiters = 1 .. Len(waiters) /\ Len(waiters) \in Nat
  BY <1>3
<1>6. \A i \in 1 .. Len(waiters) - 1 : From(i) \in DOMAIN waiters /\ From(i) # place
  BY <1>1, <1>5
<1>7. \A i, j \in 1 .. Len(waiters) - 1 : From(i) = From(j) => i = j
  BY <1>1, <1>5
<1>8. \A j \in DOMAIN waiters : j # place => \E i \in 1 .. Len(waiters) - 1 : From(i) = j
  <2> SUFFICES ASSUME NEW j \in DOMAIN waiters, j # place
               PROVE  \E i \in 1 .. Len(waiters) - 1 : From(i) = j
    BY Zenon
  <2>1. CASE j < place
    <3>1. j \in 1 .. Len(waiters) - 1 /\ From(j) = j
      BY <1>1, <1>5, <2>1
    <3>2. QED
      BY <3>1, Zenon
  <2>2. CASE ~(j < place)
    <3>1. j - 1 \in 1 .. Len(waiters) - 1 /\ From(j - 1) = j
      BY <1>1, <1>5, <2>2
    <3>2. QED
      BY <3>1, Zenon
  <2>3. QED
    BY <2>1, <2>2, Zenon
<1> HIDE DEF From
<1>9. waiters' \in Seq(W)
  <2>1. \A i \in 1 .. Len(waiters) - 1 : waiters[From(i)] \in W
    BY <1>4, <1>6, Zenon
  <2>2. Len(waiters) = 0 \/ Len(waiters) - 1 \in Nat
    BY <1>5
  <2>3. QED
    BY <1>1, <1>2, <1>5, <2>1, <2>2
<1>10. IsSeq(waiters')
  BY <1>9, SeqIsSeq, Zenon
<1>11. /\ DOMAIN waiters' = 1 .. Len(waiters) - 1
       /\ \A i \in DOMAIN waiters' : waiters'[i] = waiters[From(i)]
  BY <1>2, Zenon
<1>12. \A i \in DOMAIN waiters' : /\ waiters'[i].by \in Callers /\ waiters'[i].kind \in AcquireKinds
                                  /\ waiters'[i].by # c
  BY <1>1, <1>6, <1>11 DEF GateTypes, WaitersWait
<1>13. caller'[c] = "idle" /\ \A d \in Callers : d # c => caller'[d] = caller[d]
  BY AwaitsIs, Zenon
<1>14. \A i \in DOMAIN waiters' : caller'[waiters'[i].by] = "waiting"
  BY <1>6, <1>11, <1>12, <1>13 DEF WaitersWait
<1>15. \A i, j \in DOMAIN waiters' : waiters'[i].by = waiters'[j].by => i = j
  BY <1>6, <1>7, <1>11 DEF WaitersWait
<1>16. ASSUME NEW d \in Callers, caller'[d] = "waiting"
       PROVE  \E i \in DOMAIN waiters' : waiters'[i].by = d
  <2>1. d # c /\ caller[d] = "waiting"
    BY <1>13, <1>16, Zenon
  <2>2. PICK j \in DOMAIN waiters : waiters[j].by = d
    BY <2>1, Zenon DEF WaitersWait
  <2>3. PICK i \in 1 .. Len(waiters) - 1 : From(i) = j
    BY <1>1, <1>8, <2>1, <2>2, Zenon
  <2>4. QED
    BY <1>11, <2>2, <2>3, Zenon
<1>17. QED
  BY <1>10, <1>12, <1>14, <1>15, <1>16, Zenon DEF WaitersWait

\* A caller's future is dropped.
LEMMA CancelStep ==
  ASSUME Sound, NEW c \in Callers, Cancel(c)
  PROVE  Sound'
<1>1. /\ DOMAIN caller' = Callers /\ caller'[c] = "idle"
      /\ \A d \in Callers : d # c => caller'[d] = caller[d]
  BY AwaitsIs, Zenon DEF Sound, Cancel
<1>2. /\ DOMAIN jobs' = DOMAIN jobs /\ Len(jobs') = Len(jobs)
      /\ \A i \in DOMAIN jobs : /\ jobs'[i].kind = jobs[i].kind /\ jobs'[i].by = jobs[i].by
                                /\ jobs'[i].awaited <=> jobs[i].awaited /\ jobs[i].by # c
      /\ IsSeq(jobs')
  <2> DEFINE Job2(i) == [kind |-> jobs[i].kind, by |-> jobs[i].by,
                         awaited |-> jobs[i].awaited /\ jobs[i].by # c]
             J == {jobs[i] : i \in DOMAIN jobs}
             J2 == {Job2(i) : i \in DOMAIN jobs}
  <2>1. \A i \in DOMAIN jobs : /\ Job2(i).kind = jobs[i].kind /\ Job2(i).by = jobs[i].by
                               /\ Job2(i).awaited <=> jobs[i].awaited /\ jobs[i].by # c
    BY Zenon
  <2>2. jobs' = [i \in DOMAIN jobs |-> Job2(i)]
    BY Zenon DEF Cancel
  <2>3. jobs \in Seq(J)
    BY Zenon DEF Sound, GateTypes, IsSeq
  <2>4. \A i \in DOMAIN jobs : Job2(i) \in J2
    BY Zenon
  <2> HIDE DEF Job2, J, J2
  <2>5. DOMAIN jobs = 1 .. Len(jobs) /\ Len(jobs) \in Nat
    BY <2>3
  <2>6. jobs' \in Seq(J2) /\ Len(jobs') = Len(jobs)
    BY <2>2, <2>4, <2>5
  <2>7. IsSeq(jobs')
    BY <2>6, SeqIsSeq, Zenon
  <2>8. DOMAIN jobs' = DOMAIN jobs /\ \A i \in DOMAIN jobs : jobs'[i] = Job2(i)
    BY <2>2, Zenon
  <2>9. QED
    BY <2>1, <2>6, <2>7, <2>8, Zenon
<1>3. "idle" \notin Owning \cup InFuture \cup {"waiting", "ended"} /\ Owning \cap InFuture = {}
  BY Zenon DEF Owning, InFuture
<1>4. JobsAwaited'
  BY <1>1, <1>2 DEF Sound, JobsAwaited
<1>5. IsSeq(waiters') /\ WaitersWait'
      /\ \A i \in DOMAIN waiters' : waiters'[i].by \in Callers /\ waiters'[i].kind \in AcquireKinds
  <2>1. CASE caller[c] = "waiting"
    BY <2>1, WaiterLeaves, Zenon DEF Sound, Cancel
  <2>2. CASE caller[c] # "waiting"
    <3>1. WaitersWait'
      BY <1>1, <1>3, <2>2, WaitersStay, Zenon DEF Sound, Cancel
    <3>2. QED
      BY <2>2, <3>1, Zenon DEF Sound, Cancel, GateTypes
  <2>3. QED
    BY <2>1, <2>2, Zenon
<1>6. \A d \in Callers, S \in {Owning, InFuture} : caller'[d] \in S => d # c /\ caller[d] \in S
  BY <1>1, <1>3, Zenon
<1>7. PermitInv' /\ TransactionInv'
  <2>1. CASE caller[c] \in Owning
    <3>1. permit = "handle" /\ permit' = "spawned" /\ UNCHANGED openTxn
      BY <2>1, Zenon DEF Cancel, DropHandsOver, Owning, Sound, PermitInv
    <3>2. \A d \in Callers : caller'[d] \notin Owning \cup InFuture
      BY <1>6, <2>1, <3>1, Zenon DEF Sound, PermitInv, Sole
    <3>3. \A i \in DOMAIN jobs' : jobs'[i].kind \notin InClosure \cup {"drop"}
      BY <1>2, <3>1, Zenon DEF Sound, PermitInv
    <3>4. PermitInv'
      BY <3>2, <3>3, Zenon DEF PermitInv, Sole
    <3>5. TransactionInv'
      BY <1>2, <3>1, <3>2, Zenon DEF TransactionInv, Sound, Owning
    <3>6. QED
      BY <3>4, <3>5, Zenon
  <2>2. CASE caller[c] \in InFuture
    <3>1. permit = "future" /\ permit' = "free" /\ UNCHANGED openTxn
      BY <1>3, <2>2, Zenon DEF Cancel, Owning, InFuture, Sound, PermitInv
    <3>2. \A d \in Callers : caller'[d] \notin Owning \cup InFuture
      BY <1>6, <2>2, <3>1, Zenon DEF Sound, PermitInv, Sole
    <3>3. \A i \in DOMAIN jobs' : jobs'[i].kind \notin InClosure \cup {"drop"}
      BY <1>2, <3>1, Zenon DEF Sound, PermitInv
    <3>4. PermitInv'
      BY <3>2, <3>3, Zenon DEF PermitInv, Sole
    <3>5. TransactionInv'
      BY <1>2, <3>1, <3>2, Zenon DEF TransactionInv, Sound, Owning
    <3>6. QED
      BY <3>4, <3>5, Zenon
  <2>3. CASE caller[c] \notin Owning \cup InFuture
    <3>1. UNCHANGED <<permit, openTxn>>
      BY <2>3, Zenon DEF Cancel, Owning, InFuture
    <3>2. PermitInv'
      BY <1>2, <1>6, <3>1, Zenon DEF PermitInv, Sole, Sound
    <3>3. TransactionInv'
      BY <1>1, <1>2, <1>3, <1>6, <3>1, Zenon DEF TransactionInv, Sound
    <3>4. QED
      BY <3>2, <3>3, Zenon
  <2>4. QED
    BY <2>1, <2>2, <2>3, Zenon
<1>8. \A i \in DOMAIN jobs' : jobs'[i].kind \in JobKinds
  BY <1>2, Zenon DEF Sound, GateTypes
<1>9. QED
  BY <1>1, <1>2, <1>4, <1>5, <1>7, <1>8, Zenon DEF Sound, GateTypes

\* The task a Drop spawned queues the ROLLBACK.
LEMMA SpawnedStep ==
  ASSUME Sound, physical # "closed", SpawnedRollback
  PROVE  Sound'
<1> DEFINE job == [kind |-> "drop", by |-> openTxn, awaited |-> FALSE]
<1>1. job.kind = "drop" /\ job.by = openTxn /\ ~job.awaited
  OBVIOUS
<1>2. /\ jobs' = Append(jobs, job) /\ IsSeq(jobs) /\ permit = "spawned"
      /\ \A i \in DOMAIN jobs : jobs[i].kind # "drop"
      /\ UNCHANGED <<permit, waiters, openTxn, caller>>
  BY Zenon DEF SpawnedRollback, Alive, Sound, GateTypes
<1> HIDE DEF job
<1>3. /\ IsSeq(jobs')
      /\ \A i \in DOMAIN jobs' :
            \/ i \in DOMAIN jobs /\ i # Len(jobs') /\ jobs'[i] = jobs[i]
            \/ i = Len(jobs') /\ jobs'[i] = job
  BY <1>2, AppendIs, Zenon
<1>4. \A i \in DOMAIN jobs : jobs[i].kind \notin InClosure
  BY <1>2, Zenon DEF Sound, PermitInv
<1>5. "drop" \in JobKinds \ InClosure
  BY Zenon DEF JobKinds, InClosure
<1>6. \A i \in DOMAIN jobs' : jobs'[i].kind \notin InClosure /\ jobs'[i].kind \in JobKinds
  BY <1>1, <1>3, <1>4, <1>5, Zenon DEF Sound, GateTypes
<1>7. \A i, j \in DOMAIN jobs' : jobs'[i].kind = "drop" /\ jobs'[j].kind = "drop" => i = j
  BY <1>2, <1>3, Zenon
<1>8. PermitInv'
  BY <1>2, <1>6, <1>7, Zenon DEF Sound, PermitInv, Sole
<1>9. TransactionInv'
  BY <1>1, <1>2, <1>3, Zenon DEF Sound, TransactionInv
<1>10. JobsAwaited'
  BY <1>1, <1>2, <1>3 DEF Sound, JobsAwaited
<1>11. WaitersWait'
  BY <1>2, Zenon DEF Sound, WaitersWait
<1>12. QED
  BY <1>2, <1>3, <1>6, <1>8, <1>9, <1>10, <1>11, Zenon DEF Sound, GateTypes

-----------------------------------------------------------------------------
(* The worker.                                                             *)

\* The closure taken off the queue, and who learns that it ran.
TakenOff ==
    /\ 1 \in DOMAIN jobs /\ Job = jobs[1]
    /\ \A i \in DOMAIN jobs' : /\ i \in Nat /\ i + 1 \in DOMAIN jobs /\ i + 1 # 1
                               /\ jobs'[i] = jobs[i + 1]
                               /\ i + 1 = Len(jobs) <=> i = Len(jobs')
    /\ Len(jobs) = 1 => DOMAIN jobs' = {}

Answered(s) ==
    /\ Job.awaited => /\ Job.kind # "drop" /\ Job.by \in Callers
                      /\ caller[Job.by] = Job.kind /\ caller'[Job.by] = s
    /\ \A d \in Callers : caller'[d] = caller[d] \/ (Job.awaited /\ d = Job.by)

\* What taking a closure off the queue leaves, whatever the closure did.
LEMMA JobTaken ==
  ASSUME Sound, jobs # <<>>, jobs' = Tail(jobs), UNCHANGED waiters,
         NEW s, s # "waiting", Answer(s)
  PROVE  GateTypes' /\ JobsAwaited' /\ WaitersWait' /\ Answered(s) /\ TakenOff
<1>1. IsSeq(jobs') /\ TakenOff
  BY TailIs, Zenon DEF Sound, GateTypes, Job, TakenOff
<1>2. DOMAIN caller' = Callers /\ Answered(s) /\ JobsAwaited'
  BY AnswerIs, Zenon DEF Sound, Answered
<1>3. Job.kind # "waiting" /\ \A i \in DOMAIN jobs' : jobs'[i].kind \in JobKinds
  <2>1. Job.kind \in JobKinds
    BY <1>1, Zenon DEF Sound, GateTypes, TakenOff
  <2>2. \A i \in DOMAIN jobs' : jobs'[i].kind \in JobKinds
    BY <1>1, Zenon DEF Sound, GateTypes, TakenOff
  <2>3. QED
    BY <2>1, <2>2, Zenon DEF JobKinds
<1>4. \A d \in Callers : caller[d] = "waiting" <=> caller'[d] = "waiting"
  BY <1>2, <1>3, Zenon DEF Answered
<1>5. WaitersWait'
  BY <1>4, WaitersStay, Zenon DEF Sound
<1>6. GateTypes'
  BY <1>1, <1>2, <1>3, Zenon DEF Sound, GateTypes
<1>7. QED
  BY <1>1, <1>2, <1>5, <1>6, Zenon

\* A closure that carries the permit ends without a transaction: call, a
\* with_transaction that committed or rolled back, a BEGIN that failed.
LEMMA ClosureEnds ==
  ASSUME Sound, jobs # <<>>, jobs' = Tail(jobs), UNCHANGED <<waiters, openTxn>>,
         Job.kind \in InClosure, permit' = "free", Answer("idle")
  PROVE  Sound'
<1>1. GateTypes' /\ JobsAwaited' /\ WaitersWait' /\ Answered("idle") /\ TakenOff
  BY JobTaken, Zenon
<1>2. permit = "job" /\ DOMAIN jobs' = {}
  BY <1>1, Zenon DEF Sound, PermitInv, TakenOff
<1>3. openTxn = NoCaller
  BY <1>2, Zenon DEF Sound, TransactionInv
<1>4. "idle" \notin Owning \cup InFuture
  BY Zenon DEF Owning, InFuture
<1>5. \A d \in Callers : caller'[d] \notin Owning \cup InFuture
  BY <1>1, <1>2, <1>4, Zenon DEF Sound, PermitInv, Answered
<1>6. PermitInv'
  BY <1>2, <1>5, Zenon DEF PermitInv, Sole
<1>7. TransactionInv'
  BY <1>3, <1>5, Zenon DEF TransactionInv, Owning
<1>8. QED
  BY <1>1, <1>6, <1>7, Zenon DEF Sound

\* BEGIN opened a transaction: its caller's, or the dropped one's.
LEMMA BeganTransaction ==
  ASSUME Sound, jobs # <<>>, jobs' = Tail(jobs), UNCHANGED waiters,
         Job.kind = "begin", Answer("holding"), openTxn' = Job.by,
         permit' = IF Job.awaited THEN "handle" ELSE UnclaimedTransaction
  PROVE  Sound'
<1>1. GateTypes' /\ JobsAwaited' /\ WaitersWait' /\ Answered("holding") /\ TakenOff
  BY JobTaken, Zenon
<1>2. permit = "job" /\ DOMAIN jobs' = {}
  BY <1>1, Zenon DEF Sound, PermitInv, TakenOff, InClosure
<1>3. "holding" \notin InFuture /\ "holding" # "ended"
  BY Zenon DEF InFuture
<1>4. \A d \in Callers : caller[d] \notin Owning \cup InFuture
  BY <1>2, Zenon DEF Sound, PermitInv
<1>5. \A d \in Callers : /\ caller'[d] \notin InFuture /\ caller'[d] # "ended"
                         /\ caller'[d] \in Owning => Job.awaited /\ d = Job.by
  BY <1>1, <1>3, <1>4, Zenon DEF Answered, Owning
<1>6. PermitInv'
  BY <1>2, <1>5, Zenon DEF PermitInv, Sole
<1>7. TransactionInv'
  BY <1>2, <1>5, Zenon DEF TransactionInv, UnclaimedTransaction
<1>8. QED
  BY <1>1, <1>6, <1>7, Zenon DEF Sound

\* A closure ran that leaves the permit where it is: a statement, COMMIT or
\* ROLLBACK, whose caller goes on owning the transaction, or one that nobody
\* awaits any more.
LEMMA PermitKept ==
  ASSUME Sound, jobs # <<>>, jobs' = Tail(jobs), UNCHANGED <<waiters, permit>>,
         NEW s, s # "waiting", Answer(s), openTxn' \in {openTxn, NoCaller},
         Job.awaited => Job.kind \in Owning /\ s \in Owning /\ (s = "ended" => openTxn' = NoCaller)
  PROVE  Sound'
<1>2. GateTypes' /\ JobsAwaited' /\ WaitersWait' /\ Answered(s) /\ TakenOff
  BY JobTaken, Zenon
<1>3. Owning \cap InFuture = {}
  BY Zenon DEF Owning, InFuture
<1>4. \A d \in Callers : /\ caller'[d] \in Owning => caller[d] \in Owning
                         /\ caller'[d] \in InFuture => caller[d] \in InFuture
                         /\ caller'[d] = "ended" => caller[d] = "ended" \/ openTxn' = NoCaller
  BY <1>2, <1>3, Zenon DEF Answered
<1>5. PermitInv'
  <2>1. ASSUME NEW i \in DOMAIN jobs'
        PROVE  /\ jobs'[i].kind \in InClosure => permit = "job" /\ i = Len(jobs')
               /\ jobs'[i].kind = "drop" => permit = "spawned"
    <3>1. /\ i + 1 \in DOMAIN jobs /\ jobs'[i] = jobs[i + 1]
          /\ i + 1 = Len(jobs) <=> i = Len(jobs')
      BY <1>2, Zenon DEF TakenOff
    <3>2. QED
      BY <3>1, Zenon DEF Sound, PermitInv
  <2>3. \A i, j \in DOMAIN jobs' : jobs'[i].kind = "drop" /\ jobs'[j].kind = "drop" => i = j
    <3> SUFFICES ASSUME NEW i \in DOMAIN jobs', NEW j \in DOMAIN jobs',
                        jobs'[i].kind = "drop", jobs'[j].kind = "drop"
                 PROVE  i = j
      BY Zenon
    <3>1. /\ i \in Nat /\ i + 1 \in DOMAIN jobs /\ jobs'[i] = jobs[i + 1]
          /\ j \in Nat /\ j + 1 \in DOMAIN jobs /\ jobs'[j] = jobs[j + 1]
      BY <1>2, Zenon DEF TakenOff
    <3>2. i + 1 = j + 1
      BY <3>1, Zenon DEF Sound, PermitInv
    <3>3. QED
      BY <3>1, <3>2, SuccessorIsInjective, Zenon
  <2>4. QED
    BY <1>4, <2>1, <2>3, Zenon DEF Sound, PermitInv, Sole
<1>6. TransactionInv'
  BY <1>2, <1>4 DEF Sound, TransactionInv, TakenOff
<1>7. QED
  BY <1>2, <1>5, <1>6, Zenon DEF Sound

\* The spawned ROLLBACK ran, or an inspection somebody waited for: the permit
\* is free again, and no transaction is open.
LEMMA PermitFreed ==
  ASSUME Sound, jobs # <<>>, jobs' = Tail(jobs), UNCHANGED waiters, permit' = "free",
         openTxn' = NoCaller, NEW s, s # "waiting", s \notin Owning \cup InFuture \/ ~Job.awaited,
         Answer(s),
         \/ Job.kind = "drop"
         \/ Job.kind = "inspect" /\ Job.awaited
  PROVE  Sound'
<1>1. GateTypes' /\ JobsAwaited' /\ WaitersWait' /\ Answered(s) /\ TakenOff
  BY JobTaken, Zenon
<1>2. permit \in {"spawned", "future"}
  BY <1>1, Zenon DEF Sound, PermitInv, TakenOff, Answered, InFuture
<1>3. \A d \in Callers : caller'[d] \notin Owning \cup InFuture
  <2>1. CASE Job.kind = "drop"
    <3>1. permit = "spawned" /\ ~Job.awaited
      BY <1>1, <2>1, Zenon DEF Sound, PermitInv, TakenOff, Answered
    <3>2. QED
      BY <1>1, <3>1, Zenon DEF Sound, PermitInv, Answered
  <2>2. CASE Job.kind = "inspect" /\ Job.awaited
    <3>1. Job.by \in Callers /\ caller[Job.by] \in InFuture /\ permit = "future"
      BY <1>1, <2>2, Zenon DEF Sound, PermitInv, Answered, InFuture
    <3>2. \A d \in Callers : d # Job.by => caller[d] \notin Owning \cup InFuture
      BY <3>1, Zenon DEF Sound, PermitInv, Sole
    <3>3. QED
      BY <1>1, <2>2, <3>1, <3>2, Zenon DEF Answered
  <2>3. QED
    BY <2>1, <2>2, Zenon
<1>4. \A i \in DOMAIN jobs' : jobs'[i].kind \notin InClosure /\ jobs'[i].kind # "drop"
  BY <1>1, <1>2 DEF Sound, PermitInv, TakenOff, Answered, InFuture
<1>5. PermitInv'
  BY <1>3, <1>4, Zenon DEF PermitInv, Sole
<1>6. TransactionInv'
  BY <1>3, Zenon DEF TransactionInv, Owning
<1>7. QED
  BY <1>1, <1>5, <1>6, Zenon DEF Sound

\* The worker's step keeps the gate sound, unless a ROLLBACK fails.
LEMMA WorkerKeepsSound ==
  ASSUME Sound, WorkerStep
  PROVE  leftOpen' \/ Sound'
<1>1. jobs' = Tail(jobs) /\ UNCHANGED waiters
  BY Zenon DEF WorkerStep
<1>2. {"call", "txn", "begin"} = InClosure
      /\ {"statement", "commit", "rollback", "safety", "holding", "commit_failed", "ended"} = Owning
      /\ "idle" \notin Owning \cup InFuture
  BY Zenon DEF InClosure, Owning, InFuture
<1>3. CASE RunCall
  BY <1>1, <1>2, <1>3, ClosureEnds, Zenon DEF RunCall
<1>4. CASE RunStatement
  BY <1>1, <1>2, <1>4, PermitKept, Zenon DEF RunStatement
<1>5. CASE RunInspection
  <2>1. CASE Job.awaited
    <3>1. "inspect" \in InFuture /\ jobs # <<>> /\ Job.kind = "inspect" /\ permit' = "free"
          /\ UNCHANGED openTxn /\ Answer("idle")
      BY <1>5, <2>1, Zenon DEF RunInspection, InFuture
    <3>2. Answered("idle")
      BY <1>1, <3>1, JobTaken, Zenon
    <3>3. permit = "future"
      BY <2>1, <3>1, <3>2, Zenon DEF Answered, Sound, PermitInv
    <3>4. openTxn = NoCaller
      BY <3>3, Zenon DEF Sound, TransactionInv
    <3>5. QED
      BY <1>1, <1>2, <2>1, <3>1, <3>4, PermitFreed, Zenon
  <2>2. CASE ~Job.awaited
    BY <1>1, <1>5, <2>2, PermitKept, Zenon DEF RunInspection
  <2>3. QED
    BY <2>1, <2>2, Zenon
<1>6. ASSUME NEW b \in BOOLEAN, RunTransaction(b)
      PROVE  leftOpen' \/ Sound'
  BY <1>1, <1>2, <1>6, ClosureEnds, Zenon DEF RunTransaction
<1>7. ASSUME NEW b \in BOOLEAN, RunBegin(b)
      PROVE  Sound'
  <2>1. CASE b
    BY <1>1, <1>2, <1>7, <2>1, ClosureEnds, Zenon DEF RunBegin
  <2>2. CASE ~b
    BY <1>1, <1>7, <2>2, BeganTransaction, Zenon DEF RunBegin
  <2>3. QED
    BY <2>1, <2>2, Zenon
<1>8. ASSUME NEW b \in BOOLEAN, RunCommit(b)
      PROVE  Sound'
  <2>1. CASE b
    BY <1>1, <1>2, <1>8, <2>1, PermitKept, Zenon DEF RunCommit
  <2>2. CASE ~b
    BY <1>1, <1>2, <1>8, <2>2, PermitKept, Zenon DEF RunCommit
  <2>3. QED
    BY <2>1, <2>2, Zenon
<1>9. ASSUME NEW b \in BOOLEAN, RunRollback(b)
      PROVE  leftOpen' \/ Sound'
  <2>1. CASE b /\ openTxn # NoCaller
    BY <1>9, <2>1, Zenon DEF RunRollback
  <2>2. CASE ~(b /\ openTxn # NoCaller)
    <3>1. openTxn' = NoCaller /\ Answer("ended") /\ jobs # <<>>
      BY <1>9, <2>2, Zenon DEF RunRollback
    <3>2. CASE Job.kind = "drop"
      <4>1. Answered("ended")
        BY <1>1, <3>1, JobTaken, Zenon
      <4>2. ~Job.awaited
        BY <3>2, <4>1, Zenon DEF Answered
      <4>3. QED
        BY <1>1, <1>9, <3>1, <3>2, <4>2, PermitFreed, Zenon DEF RunRollback
    <3>3. CASE Job.kind # "drop"
      BY <1>1, <1>2, <1>9, <3>1, <3>3, PermitKept, Zenon DEF RunRollback
    <3>4. QED
      BY <3>2, <3>3, Zenon
  <2>3. QED
    BY <2>1, <2>2, Zenon
<1>10. QED
  BY <1>3, <1>4, <1>5, <1>6, <1>7, <1>8, <1>9, Zenon DEF WorkerStep

\* What a caller does by itself.
CallerStep(c) == \/ \E k \in AcquireKinds : Ask(c, k)
                 \/ \E k \in JobKinds : Use(c, k)
                 \/ Inspect(c) \/ CommitFailed(c) \/ Finish(c)
                 \/ FailClosed(c) \/ Cancel(c)

\* No step but the close forgets that a ROLLBACK failed, and none opens a
\* transaction on a closed connection.
LEMMA OutsideSound ==
  ASSUME DatabaseNext
  PROVE  /\ physical = "closed" => physical' = "closed" /\ openTxn' \in {openTxn, NoCaller}
         /\ physical' = "closed" => physical = "closed" \/ openTxn' = NoCaller
         /\ leftOpen => leftOpen' \/ physical' = "closed"
<1>1. CASE WorkerStep
  <2>1. leftOpen => leftOpen'
    BY <1>1, Zenon DEF WorkerStep, RunCall, RunStatement, RunInspection, RunTransaction,
       RunBegin, RunCommit, RunRollback
  <2>2. QED
    BY <1>1, <2>1, Zenon DEF WorkerStep
<1>2. CASE RunClose
  BY <1>2, Zenon DEF RunClose
<1>3. CASE ~WorkerStep /\ ~RunClose
  <2>1. UNCHANGED <<openTxn, leftOpen>> /\ physical' \in {physical, "closing"}
        /\ (physical = "closed" => physical' = "closed")
    <3>1. ASSUME NEW c \in Callers, CallerStep(c)
          PROVE  UNCHANGED <<openTxn, leftOpen, physical>>
      BY <3>1, Zenon DEF CallerStep, Ask, Use, Inspect, CommitFailed, Finish, FailClosed, Cancel
    <3>2. CASE Granted \/ SpawnedRollback
      BY <3>2, Zenon DEF Granted, SpawnedRollback
    <3>3. CASE GrantedToClose
      BY <3>3, Zenon DEF GrantedToClose
    <3>4. QED
      BY <1>3, <3>1, <3>2, <3>3, Zenon DEF DatabaseNext, CallerStep
  <2>2. leftOpen => leftOpen'
    BY <2>1, Zenon
  <2>3. QED
    BY <2>1, <2>2, Zenon
<1>6. QED
  BY <1>1, <1>2, <1>3, Zenon

LEMMA GateStep ==
  ASSUME GateInv, [DatabaseNext]_databaseVars
  PROVE  GateInv'
<1>1. CASE UNCHANGED databaseVars
  <2>1. Sound => Sound'
    <3> USE <1>1 DEF databaseVars
    <3>1. GateTypes => GateTypes'
      BY Zenon DEF GateTypes, IsSeq
    <3>2. PermitInv => PermitInv'
      BY Zenon DEF PermitInv, Sole
    <3>3. JobsAwaited => JobsAwaited'
      BY Zenon DEF JobsAwaited
    <3>4. WaitersWait => WaitersWait'
      BY Zenon DEF WaitersWait
    <3>5. TransactionInv => TransactionInv'
      BY Zenon DEF TransactionInv
    <3>6. QED
      BY <3>1, <3>2, <3>3, <3>4, <3>5, Zenon DEF Sound
  <2>2. UNCHANGED <<physical, openTxn, leftOpen>>
    BY <1>1, Zenon DEF databaseVars
  <2>3. leftOpen => leftOpen'
    BY <2>2, Zenon
  <2>4. QED
    BY <2>1, <2>2, <2>3, Zenon DEF GateInv
<1>2. CASE DatabaseNext /\ (physical = "closed" \/ physical' = "closed" \/ leftOpen)
  BY <1>2, OutsideSound, Zenon DEF GateInv
<1>3. CASE DatabaseNext /\ physical # "closed" /\ physical' # "closed" /\ ~leftOpen
  <2>1. Sound
    BY <1>3, Zenon DEF GateInv
  <2>2. ASSUME NEW c \in Callers, CallerStep(c)
        PROVE  Sound'
    <3>1. "call" \in JobKinds
      BY Zenon DEF JobKinds
    <3>2. QED
      BY <2>1, <2>2, <3>1, AskStep, QueueStep, FinishStep, FailClosedStep, CancelStep, Zenon
         DEF CallerStep
  <2>3. ASSUME Granted \/ GrantedToClose \/ SpawnedRollback
        PROVE  Sound'
    BY <1>3, <2>1, <2>3, GrantedStep, SpawnedStep, Zenon
  <2>4. ASSUME WorkerStep
        PROVE  leftOpen' \/ Sound'
    BY <2>1, <2>4, WorkerKeepsSound, Zenon
  <2>5. ~RunClose
    BY <1>3, Zenon DEF RunClose
  <2>6. leftOpen' \/ Sound'
    BY <1>3, <2>2, <2>3, <2>4, <2>5, Zenon DEF DatabaseNext, CallerStep
  <2>7. QED
    BY <1>3, <2>6, Zenon DEF GateInv
<1>4. QED
  BY <1>1, <1>2, <1>3, Zenon

LEMMA GateStarts == DatabaseInit => GateInv
<1> SUFFICES ASSUME DatabaseInit
             PROVE  Sound
  BY Zenon DEF GateInv, DatabaseInit
<1>1. /\ IsSeq(jobs) /\ IsSeq(waiters) /\ DOMAIN jobs = {} /\ DOMAIN waiters = {}
  BY DEF DatabaseInit, IsSeq
<1>2. DOMAIN caller = Callers /\ \A c \in Callers : caller[c] = "idle"
  BY Zenon DEF DatabaseInit
<1>3. "idle" \notin Owning \cup InFuture
  BY Zenon DEF Owning, InFuture
<1>4. PermitInv
  BY <1>1, <1>2, <1>3, Zenon DEF PermitInv, Sole
<1>5. TransactionInv
  BY <1>2, Zenon DEF TransactionInv, DatabaseInit
<1>6. QED
  BY <1>1, <1>2, <1>4, <1>5, Zenon DEF Sound, GateTypes, JobsAwaited, WaitersWait

\* No closure runs inside another caller's transaction, for any number of
\* callers, whatever the worker has queued and wherever futures are dropped.
THEOREM RunsInOwnTransactionHolds == DatabaseSpec => []RunsInOwnTransaction
<1>1. GateInv => RunsInOwnTransaction
  <2> SUFFICES ASSUME GateInv, jobs # <<>>, openTxn # NoCaller, ~leftOpen
               PROVE  Job.by = openTxn
    BY Zenon DEF RunsInOwnTransaction
  <2>1. Sound
    BY Zenon DEF GateInv
  <2>2. 1 \in DOMAIN jobs /\ Job = jobs[1]
    BY <2>1, TailIs, Zenon DEF Sound, GateTypes, Job
  <2>3. QED
    BY <2>1, <2>2, Zenon DEF Sound, TransactionInv
<1>2. QED
  BY <1>1, GateStarts, GateStep, PTL DEF DatabaseSpec

-----------------------------------------------------------------------------
(* What a server process leaves behind (ServerProcess).                    *)

\* Where a process may be while the PID file, or the control path, names it.
PidStages ==
    {"published", "serving", "quiescing", "http_stopped", "control_stopped", "draining",
     "tasks_joined", "closing", "closed", "killed"}
SocketStages ==
    {"control", "published", "serving", "quiescing", "http_stopped", "control_stopped", "killed"}

ProcessFields == {"at", "database", "listening", "handlers", "forced"}

ServerShapes ==
    /\ DOMAIN server = Servers
    /\ \A s \in Servers : DOMAIN server[s] = ProcessFields

\* The PID file names a process from its writing to its clearing, the control
\* path from its binding to its removal, or a process that was killed.
ServerInv ==
    /\ ServerShapes
    /\ \A s \in Servers : pidFile = s => server[s].at \in PidStages
    /\ \A s \in Servers : socketPath = s => server[s].at \in SocketStages

LEMMA NoProcessFields == DOMAIN NoProcess = ProcessFields
  BY Zenon DEF NoProcess, ProcessFields

\* One process moves, and the two paths go on naming only what they may.
LEMMA OneServerMoves ==
  ASSUME ServerInv, NEW s \in Servers, NEW new, server' = [server EXCEPT ![s] = new],
         DOMAIN new = ProcessFields,
         pidFile' \in {pidFile, NoServer, s}, socketPath' \in {socketPath, NoServer, s},
         pidFile' = s => new.at \in PidStages,
         socketPath' = s => new.at \in SocketStages
  PROVE  ServerInv'
<1>1. DOMAIN server' = Servers /\ server'[s] = new
  BY Zenon DEF ServerInv, ServerShapes
<1>2. \A t \in Servers : t # s => server'[t] = server[t]
  BY Zenon DEF ServerInv, ServerShapes
<1>3. ServerShapes'
  BY <1>1, <1>2, Zenon DEF ServerInv, ServerShapes
<1>4. ASSUME NEW t \in Servers, pidFile' = t
      PROVE  server'[t].at \in PidStages
  BY <1>1, <1>2, <1>4, ServerAssumption, Zenon DEF ServerInv
<1>5. ASSUME NEW t \in Servers, socketPath' = t
      PROVE  server'[t].at \in SocketStages
  BY <1>1, <1>2, <1>5, ServerAssumption, Zenon DEF ServerInv
<1>6. QED
  BY <1>3, <1>4, <1>5, Zenon DEF ServerInv

\* A process that keeps its other fields goes from one stage to the next.
LEMMA StageMoves ==
  ASSUME ServerInv, NEW s \in Servers, NEW new, server' = [server EXCEPT ![s] = new],
         DOMAIN new = ProcessFields,
         UNCHANGED pidFile, UNCHANGED socketPath,
         server[s].at \in PidStages => new.at \in PidStages,
         server[s].at \in SocketStages => new.at \in SocketStages
  PROVE  ServerInv'
<1>1. pidFile' = s => new.at \in PidStages
  BY Zenon DEF ServerInv
<1>2. socketPath' = s => new.at \in SocketStages
  BY Zenon DEF ServerInv
<1>3. QED
  BY <1>1, <1>2, OneServerMoves, Zenon

\* A step of the start or the shutdown as a new record of its process.
LEMMA StepIsMove ==
  ASSUME ServerInv, NEW s \in Servers, NEW from, NEW to, Step(s, from, to)
  PROVE  \E new : /\ server' = [server EXCEPT ![s] = new]
                  /\ DOMAIN new = ProcessFields /\ new.at = to /\ server[s].at = from
<1> DEFINE new == [server[s] EXCEPT !.at = to]
<1>1. server' = [server EXCEPT ![s] = new] /\ server[s].at = from
  BY Zenon DEF Step
<1>2. DOMAIN new = ProcessFields /\ new.at = to
  BY Zenon DEF ServerInv, ServerShapes, ProcessFields
<1>3. QED
  BY <1>1, <1>2, Zenon

\* A process that ends by itself is named by neither path any more.
LEMMA LeavesNothing ==
  ASSUME ServerInv, NEW s \in Servers, Leaves(s),
         pidFile' \in {pidFile, NoServer}, socketPath' \in {socketPath, NoServer},
         pidFile' # s, socketPath' # s
  PROVE  ServerInv'
<1> DEFINE new == [NoProcess EXCEPT !.at = "exited"]
<1>1. server' = [server EXCEPT ![s] = new]
  BY Zenon DEF Leaves
<1>2. DOMAIN new = ProcessFields
  BY NoProcessFields, Zenon
<1>3. QED
  BY <1>1, <1>2, OneServerMoves, Zenon

\* Every step of the start.
LEMMA ServerStartsStep ==
  ASSUME ServerInv, NEW s \in Servers, ServerStarts(s)
  PROVE  ServerInv'
<1>0. /\ \A at : pidFile = s /\ server[s].at = at => at \in PidStages
      /\ \A at : socketPath = s /\ server[s].at = at => at \in SocketStages
      /\ s # NoServer
  BY ServerAssumption, Zenon DEF ServerInv
<1>1. ASSUME NEW from \in {"none", "started", "pid_checked", "checked", "opened", "recovered",
                           "generation"},
             NEW to, Step(s, from, to), pidFile' \in {pidFile, NoServer},
             socketPath' \in {socketPath, NoServer}
      PROVE  ServerInv'
  <2>1. pidFile # s /\ socketPath # s
    BY <1>0, <1>1, Zenon DEF Step, PidStages, SocketStages
  <2>2. PICK new : /\ server' = [server EXCEPT ![s] = new] /\ DOMAIN new = ProcessFields
    BY <1>1, StepIsMove, Zenon
  <2>3. QED
    BY <1>0, <1>1, <2>1, <2>2, OneServerMoves, Zenon
<1>2. ASSUME NEW from \in {"started", "pid_checked", "checked", "bound", "opened", "recovered",
                           "generation", "socket_observed", "control"},
             server[s].at = from, Leaves(s), UNCHANGED pidFile,
             \/ from # "control" /\ UNCHANGED socketPath
             \/ socketPath' = (IF socketPath = s THEN NoServer ELSE socketPath)
      PROVE  ServerInv'
  <2>1. pidFile' # s
    BY <1>0, <1>2, Zenon DEF PidStages
  <2>2. socketPath' # s /\ socketPath' \in {socketPath, NoServer}
    BY <1>0, <1>2, Zenon DEF SocketStages
  <2>3. QED
    BY <1>2, <2>1, <2>2, LeavesNothing, Zenon
<1>3. CASE StartServer(s)
  BY <1>1, <1>3, Zenon DEF StartServer
<1>4. CASE CheckPidFile(s)
  BY <1>1, <1>2, <1>4, Zenon DEF CheckPidFile
<1>5. CASE ProbeOthers(s)
  BY <1>1, <1>2, <1>5, Zenon DEF ProbeOthers
<1>6. CASE BindListener(s)
  BY <1>1, <1>2, <1>6, Zenon DEF BindListener
<1>7. CASE OpenDatabase(s)
  <2> DEFINE new == [server[s] EXCEPT !.at = "opened", !.database = TRUE]
  <2>1. server' = [server EXCEPT ![s] = new] /\ UNCHANGED <<pidFile, socketPath>>
    BY <1>7, Zenon DEF OpenDatabase
  <2>2. DOMAIN new = ProcessFields
    BY Zenon DEF ServerInv, ServerShapes
  <2>3. pidFile # s /\ socketPath # s
    BY <1>0, <1>7, Zenon DEF OpenDatabase, PidStages, SocketStages
  <2>4. QED
    BY <2>1, <2>2, <2>3, OneServerMoves, Zenon
<1>8. CASE RecoverState(s) \/ PublishGeneration(s)
  BY <1>1, <1>8, Zenon DEF RecoverState, PublishGeneration
<1>9. CASE ObserveSocket(s)
  BY <1>1, <1>2, <1>9, Zenon DEF ObserveSocket
<1>10. CASE BindSocket(s)
  <2>1. CASE socketPath # NoServer
    BY <1>2, <1>10, <2>1, Zenon DEF BindSocket
  <2>2. CASE socketPath = NoServer
    <3> DEFINE new == [server[s] EXCEPT !.at = "control", !.listening = TRUE]
    <3>1. /\ server' = [server EXCEPT ![s] = new] /\ pidFile' = pidFile /\ socketPath' = s
          /\ server[s].at = "socket_observed"
      BY <1>10, <2>2, Zenon DEF BindSocket
    <3>2. DOMAIN new = ProcessFields /\ new.at = "control"
      BY Zenon DEF ServerInv, ServerShapes, ProcessFields
    <3>3. pidFile # s /\ "control" \in SocketStages
      BY <1>0, <3>1, Zenon DEF PidStages, SocketStages
    <3>4. QED
      BY <3>1, <3>2, <3>3, OneServerMoves, Zenon
  <2>3. QED
    BY <2>1, <2>2
<1>11. CASE WritePid(s)
  <2>1. PICK new : /\ server' = [server EXCEPT ![s] = new]
                   /\ DOMAIN new = ProcessFields /\ new.at = "published"
    BY <1>11, StepIsMove, Zenon DEF WritePid
  <2>2. "published" \in PidStages /\ "published" \in SocketStages
    BY Zenon DEF PidStages, SocketStages
  <2>3. QED
    BY <1>11, <2>1, <2>2, OneServerMoves, Zenon DEF WritePid
<1>12. CASE ServeListener(s)
  <2>1. PICK new : /\ server' = [server EXCEPT ![s] = new]
                   /\ DOMAIN new = ProcessFields /\ new.at = "serving"
    BY <1>12, StepIsMove, Zenon DEF ServeListener
  <2>2. "serving" \in PidStages /\ "serving" \in SocketStages
    BY Zenon DEF PidStages, SocketStages
  <2>3. QED
    BY <1>12, <2>1, <2>2, StageMoves, Zenon DEF ServeListener
<1>13. CASE FailStart(s)
  BY <1>2, <1>13, Zenon DEF FailStart
<1>14. CASE FailServe(s)
  <2>1. /\ Leaves(s) /\ socketPath' \in {socketPath, NoServer} /\ socketPath' # s
        /\ pidFile' \in {pidFile, NoServer} /\ pidFile' # s
    BY <1>0, <1>14, Zenon DEF FailServe
  <2>2. QED
    BY <2>1, LeavesNothing, Zenon
<1>15. QED
  BY <1>3, <1>4, <1>5, <1>6, <1>7, <1>8, <1>9, <1>10, <1>11, <1>12, <1>13, <1>14, Zenon
     DEF ServerStarts

\* A step that keeps the paths and goes on within the stages they may name.
LEMMA ServerGoesOn ==
  ASSUME ServerInv, NEW s \in Servers, NEW new, server' = [server EXCEPT ![s] = new],
         DOMAIN new = ProcessFields, UNCHANGED <<pidFile, socketPath>>,
         NEW from, server[s].at = from,
         \/ new.at = from
         \/ <<from, new.at>> \in {<<"serving", "quiescing">>, <<"quiescing", "http_stopped">>,
                                  <<"http_stopped", "control_stopped">>,
                                  <<"draining", "tasks_joined">>, <<"tasks_joined", "closing">>,
                                  <<"closing", "closed">>}
         \/ new.at = "killed"
  PROVE  ServerInv'
<1>1. server[s].at \in PidStages => new.at \in PidStages
  BY Zenon DEF PidStages
<1>2. server[s].at \in SocketStages => new.at \in SocketStages
  BY Zenon DEF SocketStages
<1>3. QED
  BY <1>1, <1>2, StageMoves, Zenon

\* Every step of the shutdown.
LEMMA ServerStopsStep ==
  ASSUME ServerInv, NEW s \in Servers, ServerStops(s)
  PROVE  ServerInv'
<1>0. DOMAIN server[s] = {"at", "database", "listening", "handlers", "forced"} /\ s # NoServer
  BY ServerAssumption, Zenon DEF ServerInv, ServerShapes, ProcessFields
<1>1. CASE StopHttp(s)
  <2> DEFINE new == [server[s] EXCEPT !.at = "http_stopped", !.handlers = 0]
  <2>1. /\ server' = [server EXCEPT ![s] = new] /\ server[s].at = "quiescing"
        /\ UNCHANGED <<pidFile, socketPath>>
    BY <1>1, Zenon DEF StopHttp
  <2>2. DOMAIN new = ProcessFields /\ new.at = "http_stopped"
    BY <1>0, Zenon DEF ProcessFields
  <2>3. QED
    BY <2>1, <2>2, ServerGoesOn, Zenon
<1>2. CASE StopControl(s)
  <2> DEFINE new == [server[s] EXCEPT !.at = "control_stopped", !.listening = FALSE]
  <2>1. /\ server' = [server EXCEPT ![s] = new] /\ server[s].at = "http_stopped"
        /\ UNCHANGED <<pidFile, socketPath>>
    BY <1>2, Zenon DEF StopControl
  <2>2. DOMAIN new = ProcessFields /\ new.at = "control_stopped"
    BY <1>0, Zenon DEF ProcessFields
  <2>3. QED
    BY <2>1, <2>2, ServerGoesOn, Zenon
<1>3. CASE RemoveSocket(s)
  <2>1. PICK new : /\ server' = [server EXCEPT ![s] = new] /\ server[s].at = "control_stopped"
                   /\ DOMAIN new = ProcessFields /\ new.at = "draining"
    BY <1>3, StepIsMove, Zenon DEF RemoveSocket
  <2>2. pidFile' = pidFile /\ socketPath' \in {socketPath, NoServer} /\ socketPath' # s
    BY <1>0, <1>3, Zenon DEF RemoveSocket
  <2>3. "draining" \in PidStages
    BY Zenon DEF PidStages
  <2>4. QED
    BY <2>1, <2>2, <2>3, OneServerMoves, Zenon
<1>4. ASSUME NEW timed_out \in BOOLEAN, JoinTasks(s, timed_out)
      PROVE  ServerInv'
  <2> DEFINE new == [server[s] EXCEPT !.at = "tasks_joined", !.forced = timed_out]
  <2>1. /\ server' = [server EXCEPT ![s] = new] /\ server[s].at = "draining"
        /\ UNCHANGED <<pidFile, socketPath>>
    BY <1>4, Zenon DEF JoinTasks
  <2>2. DOMAIN new = ProcessFields /\ new.at = "tasks_joined"
    BY <1>0, Zenon DEF ProcessFields
  <2>3. QED
    BY <2>1, <2>2, ServerGoesOn, Zenon
<1>5. ASSUME NEW timed_out \in BOOLEAN, WaitBodies(s, timed_out)
      PROVE  ServerInv'
  <2> DEFINE new == [server[s] EXCEPT !.at = "closing", !.forced = @ \/ timed_out]
  <2>1. /\ server' = [server EXCEPT ![s] = new] /\ server[s].at = "tasks_joined"
        /\ UNCHANGED <<pidFile, socketPath>>
    BY <1>5, Zenon DEF WaitBodies
  <2>2. DOMAIN new = ProcessFields /\ new.at = "closing"
    BY <1>0, Zenon DEF ProcessFields
  <2>3. QED
    BY <2>1, <2>2, ServerGoesOn, Zenon
<1>6. CASE CloseDatabase(s)
  <2> DEFINE new == [server[s] EXCEPT !.at = "closed", !.database = FALSE]
  <2>1. /\ server' = [server EXCEPT ![s] = new] /\ server[s].at = "closing"
        /\ UNCHANGED <<pidFile, socketPath>>
    BY <1>6, Zenon DEF CloseDatabase
  <2>2. DOMAIN new = ProcessFields /\ new.at = "closed"
    BY <1>0, Zenon DEF ProcessFields
  <2>3. QED
    BY <2>1, <2>2, ServerGoesOn, Zenon
<1>7. CASE ClearPidAndExit(s)
  <2>1. /\ Leaves(s) /\ socketPath' = socketPath
        /\ pidFile' \in {pidFile, NoServer} /\ pidFile' # s
    BY <1>0, <1>7, Zenon DEF ClearPidAndExit
  <2>2. socketPath # s
    BY <1>7, Zenon DEF ClearPidAndExit, ServerInv, SocketStages
  <2>3. QED
    BY <2>1, <2>2, LeavesNothing, Zenon
<1>8. QED
  BY <1>1, <1>2, <1>3, <1>4, <1>5, <1>6, <1>7, Zenon DEF ServerStops

LEMMA ServerStep ==
  ASSUME ServerInv, [ServerNext]_serverVars
  PROVE  ServerInv'
<1>1. ASSUME UNCHANGED server, pidFile' \in {pidFile, NoServer}, UNCHANGED socketPath
      PROVE  ServerInv'
  BY <1>1, ServerAssumption, Zenon DEF ServerInv, ServerShapes
<1>2. \A s \in Servers : DOMAIN server[s] = {"at", "database", "listening", "handlers", "forced"}
  BY Zenon DEF ServerInv, ServerShapes, ProcessFields
<1>3. ASSUME NEW s \in Servers, BeginRequest(s) \/ \E streamed \in BOOLEAN : EndHandler(s, streamed)
      PROVE  ServerInv'
  <2>1. PICK n : /\ server' = [server EXCEPT ![s] = [server[s] EXCEPT !.handlers = n]]
                 /\ UNCHANGED <<pidFile, socketPath>>
    BY <1>3, Zenon DEF BeginRequest, EndHandler
  <2> DEFINE new == [server[s] EXCEPT !.handlers = n]
  <2>2. DOMAIN new = ProcessFields /\ new.at = server[s].at
    BY <1>2, <1>3, Zenon DEF ProcessFields
  <2>3. QED
    BY <1>3, <2>1, <2>2, ServerGoesOn, Zenon
<1>4. ASSUME NEW s \in Servers, EndBody(s)
      PROVE  ServerInv'
  BY <1>1, <1>4, Zenon DEF EndBody
<1>5. ASSUME NEW s \in Servers, RequestShutdown(s)
      PROVE  ServerInv'
  <2>1. PICK new : /\ server' = [server EXCEPT ![s] = new] /\ server[s].at = "serving"
                   /\ DOMAIN new = ProcessFields /\ new.at = "quiescing"
    BY <1>5, StepIsMove, Zenon DEF RequestShutdown
  <2>2. QED
    BY <1>5, <2>1, ServerGoesOn, Zenon DEF RequestShutdown
<1>6. ASSUME NEW s \in Servers, KillServer(s)
      PROVE  ServerInv'
  <2> DEFINE new == [NoProcess EXCEPT !.at = "killed"]
  <2>1. server' = [server EXCEPT ![s] = new] /\ UNCHANGED <<pidFile, socketPath>>
    BY <1>6, Zenon DEF KillServer
  <2>2. DOMAIN new = ProcessFields /\ new.at = "killed"
    BY NoProcessFields, Zenon DEF ProcessFields
  <2>3. QED
    BY <1>6, <2>1, <2>2, ServerGoesOn, Zenon
<1>7. ASSUME NEW s \in Servers, SpawnReplacement(s)
      PROVE  ServerInv'
  <2>1. CASE server' = server
    BY <1>1, <1>7, <2>1, Zenon DEF SpawnReplacement
  <2>2. CASE server' # server
    <3> DEFINE new == [server[s] EXCEPT !.at = "started"]
    <3>1. /\ server' = [server EXCEPT ![s] = new] /\ UNCHANGED <<pidFile, socketPath>>
          /\ server[s].at = "none"
      BY <1>7, <2>2, Zenon DEF SpawnReplacement
    <3>2. DOMAIN new = ProcessFields
      BY <1>2, <1>7, Zenon DEF ProcessFields
    <3>3. "none" \notin PidStages /\ "none" \notin SocketStages
      BY Zenon DEF PidStages, SocketStages
    <3>4. QED
      BY <1>7, <3>1, <3>2, <3>3, StageMoves, Zenon
  <2>3. QED
    BY <2>1, <2>2
<1>8. ASSUME NEW restart \in BOOLEAN, ReadPidFile(restart)
      PROVE  ServerInv'
  BY <1>1, <1>8, Zenon DEF ReadPidFile
<1>9. ASSUME NEW timed_out \in BOOLEAN, WaitForExit(timed_out)
      PROVE  ServerInv'
  <2>1. UNCHANGED <<server, socketPath>> /\ pidFile' \in {pidFile, NoServer}
    BY <1>9, Zenon DEF WaitForExit
  <2>2. QED
    BY <1>1, <2>1, Zenon
<1>10. CASE ProveAndSignal
  <2> DEFINE s == operator.pid
             quiescing == [server[s] EXCEPT !.at = "quiescing"]
             killed == [NoProcess EXCEPT !.at = "killed"]
  <2>0. UNCHANGED <<pidFile, socketPath>>
    BY <1>10, Zenon DEF ProveAndSignal
  <2>1. \/ server' = server
        \/ server[s].at = "serving" /\ server' = [server EXCEPT ![s] = quiescing]
        \/ server' = [server EXCEPT ![s] = killed]
    BY <1>10, Zenon DEF ProveAndSignal
  <2>2. CASE server' = server
    BY <1>1, <2>0, <2>2, Zenon
  <2>3. CASE s \notin Servers
    <3>1. DOMAIN server' = DOMAIN server /\ \A t \in Servers : server'[t] = server[t]
      <4> HIDE DEF s, quiescing, killed
      <4>1. QED
        BY <2>1, <2>3, Zenon DEF ServerInv, ServerShapes
    <3>2. QED
      BY <2>0, <3>1, Zenon DEF ServerInv, ServerShapes
  <2>4. CASE s \in Servers /\ server[s].at = "serving" /\ server' = [server EXCEPT ![s] = quiescing]
    <3>1. DOMAIN quiescing = ProcessFields /\ quiescing.at = "quiescing"
      BY <1>2, <2>4, Zenon DEF ProcessFields
    <3>2. QED
      BY <2>0, <2>4, <3>1, ServerGoesOn, Zenon
  <2>5. CASE s \in Servers /\ server' = [server EXCEPT ![s] = killed]
    <3>1. DOMAIN killed = ProcessFields /\ killed.at = "killed"
      BY NoProcessFields, Zenon DEF ProcessFields
    <3>2. QED
      BY <2>0, <2>5, <3>1, ServerGoesOn, Zenon
  <2>6. QED
    BY <2>1, <2>2, <2>3, <2>4, <2>5, Zenon
<1>11. CASE UNCHANGED serverVars
  BY <1>1, <1>11, Zenon DEF serverVars
<1>12. QED
  BY <1>3, <1>4, <1>5, <1>6, <1>7, <1>8, <1>9, <1>10, <1>11, ServerStartsStep, ServerStopsStep, Zenon
     DEF ServerNext

\* For any number of processes, commands and signals, a process that ends by
\* itself has left neither its PID file nor its control socket behind
\* (server/mod.rs: run_with_digest; operations/control.rs: close, drop).
THEOREM ExitLeavesNothingHolds == ServerSpec => []ExitLeavesNothing
<1>1. ServerInit => ServerInv
  BY NoProcessFields, ServerAssumption, Zenon DEF ServerInit, ServerInv, ServerShapes
<1>2. ServerInv /\ [ServerNext]_serverVars => ServerInv'
  BY ServerStep, Zenon
<1>3. ServerInv => ExitLeavesNothing
  <2>1. "exited" \notin PidStages /\ "exited" \notin SocketStages
    BY Zenon DEF PidStages, SocketStages
  <2>2. QED
    BY <2>1, Zenon DEF ServerInv, ExitLeavesNothing
<1>4. QED
  BY <1>1, <1>2, <1>3, PTL DEF ServerSpec

-----------------------------------------------------------------------------
(* The reload transaction (TaskSupervisor, ReloadTransaction).  Schedules   *)
(* in the task map follow the diff being committed; what a staged reload   *)
(* found in force is what it puts back.                                    *)

TaskStates == [name : Nat, schedule : Schedules \cup {Off}, cancelled : BOOLEAN,
               permit : BOOLEAN, loop : LoopStates]
Diffs == [stops : SUBSET Names, starts : SUBSET Names, candidate : SpecSets,
          previous : SpecSets, waits : Tasks \cup {NoTask}]

SupervisorTypes ==
    /\ taskMap \in [Names -> Tasks \cup {NoTask}]
    /\ task \in [Tasks -> TaskStates]

\* Two names never share a task.
OwnTasks ==
    \A m, n \in Names : taskMap[m] = taskMap[n] /\ taskMap[m] # NoTask => m = n

\* What the diff d has not to touch any more is as its candidate wants it, and
\* what it only stops is off in the candidate.
Heads(d) ==
    /\ \A n \in Names : n \notin d.stops \cup d.starts => active_specs[n] = d.candidate[n]
    /\ \A n \in d.stops \ d.starts : d.candidate[n] = Off

\* A diff that waits for no task has nothing left to do.
Follows(d) == Heads(d) /\ (d.waits = NoTask => d.stops = {} /\ d.starts = {})

\* Places of the reload: before the swap of the pointer or after it was taken
\* back, with the pointer swapped, and with the task diff being undone.
OldServes == {"preparing", "building", "committing", "beginning", "applying",
              "undoing", "compensating", "closing"}
NewServes == {"durable", "repairing"}
Undoing == {"undoing", "compensating"}

ReloadTypes ==
    /\ SupervisorTypes
    /\ diff \in Diffs
    /\ active \in Configs /\ durable \in Configs /\ policy \in Configs
    /\ candidate \in Configs \cup {None}
    /\ old \in Configs \cup {None}
    /\ before \in Configs \cup {Mixed}
    /\ reloadPc \in {"idle"} \cup OldServes \cup NewServes
    /\ repaired \in BOOLEAN
    /\ shuttingDown = is_shutting_down

\* The reload's locals and the pointer.
LocalsInv ==
    /\ reloadPc # "idle" => candidate \in Configs /\ old \in Configs
    /\ reloadPc \in OldServes => active = old
    /\ reloadPc \in NewServes => active = candidate

\* The diff being committed is the one to the candidate, or its inverse.
DiffInv ==
    reloadPc \in Staged /\ ~is_shutting_down =>
        /\ Follows(diff)
        /\ reloadPc \notin Undoing => diff.candidate = SpecsOf[candidate]
        /\ reloadPc \notin Undoing \cup {"committing"} => diff.waits = NoTask

\* A configuration that was in force everywhere when the candidate was staged
\* is the old one, still in the policy and, but for a failed COMMIT that is not
\* repaired, in the rows; the tasks have it to go back to.
KeepsInv ==
    reloadPc \in Staged /\ before \in Configs =>
        /\ before = old /\ policy = old
        /\ (reloadPc \notin {"repairing", "compensating"} \/ (reloadPc = "compensating" /\ repaired))
             => durable = old
        /\ ~is_shutting_down =>
             IF reloadPc \in Undoing THEN diff.candidate = SpecsOf[old]
                                     ELSE diff.previous = SpecsOf[old]

ReloadInv == ReloadTypes /\ OwnTasks /\ LocalsInv /\ DiffInv /\ KeepsInv

\* The least of a set of names.
LEMMA MinIsLeast ==
  ASSUME NEW S, S \subseteq Nat, S # {}
  PROVE  Min(S) \in S /\ \A m \in S : Min(S) <= m
<1>1. PICK i \in S : \A j \in S : <<j, i>> \notin OpToRel(<, Nat)
  BY NatLessThanWellFounded, WFMin, Zenon
<1>2. \A j \in S : i <= j
  <2> TAKE j \in S
  <2>1. i \in Nat /\ j \in Nat
    BY Zenon
  <2>2. ~(j < i)
    BY <1>1, <2>1, Zenon DEF OpToRel
  <2>3. QED
    BY <2>1, <2>2
<1>3. QED
  BY <1>2, Zenon DEF Min

\* The next name to stop has a task, and no name before it has one.
LEMMA UpcomingIsFirst ==
  ASSUME NEW d \in Diffs, Remaining(d) # {}
  PROVE  /\ Upcoming(d) \in Names /\ Upcoming(d) \in d.stops
         /\ taskMap[Upcoming(d)] # NoTask
         /\ Upcoming(d) \notin Passed(d, Upcoming(d))
         /\ \A m \in Passed(d, Upcoming(d)) : taskMap[m] = NoTask
<1> DEFINE R == Remaining(d)
           gone == R \ d.starts
           n == Upcoming(d)
<1>1. d.stops \subseteq Names /\ R \subseteq Nat
  <2>1. d.stops \in SUBSET Names
    BY Zenon DEF Diffs
  <2>2. Names \subseteq Nat
    BY TaskAssumption, Zenon
  <2>3. QED
    BY <2>1, <2>2, Zenon DEF Remaining
<1>2. /\ n \in R
      /\ \A m \in R : (m \in d.starts <=> n \in d.starts) => n <= m
      /\ \A m \in R : m \notin d.starts => n \notin d.starts
  <2>1. CASE gone # {}
    <3>1. n = Min(gone)
      BY <2>1, Zenon DEF Upcoming
    <3>2. n \in gone /\ \A m \in gone : n <= m
      BY <1>1, <2>1, <3>1, MinIsLeast, Zenon
    <3>3. QED
      BY <3>2, Zenon
  <2>2. CASE gone = {}
    <3>1. n = Min(R)
      BY <2>2, Zenon DEF Upcoming
    <3>2. n \in R /\ \A m \in R : n <= m
      BY <1>1, <3>1, MinIsLeast, Zenon
    <3>3. QED
      BY <2>2, <3>2, Zenon
  <2>3. QED
    BY <2>1, <2>2, Zenon
<1>3. n \in d.stops /\ n \in Nat /\ taskMap[n] # NoTask
  BY <1>1, <1>2, Zenon DEF Remaining
<1>4. ~(n < n)
  BY <1>3
<1>5. n \notin Passed(d, n)
  BY <1>4, Zenon DEF Passed, Precedes
<1>6. ASSUME NEW m \in Passed(d, n) PROVE taskMap[m] = NoTask
  <2> SUFFICES ASSUME taskMap[m] # NoTask PROVE FALSE
    BY Zenon
  <2>1. m \in R /\ Precedes(d, m, n)
    BY <1>6, Zenon DEF Remaining, Passed
  <2>2. m \in Nat
    BY <1>1, <2>1, Zenon
  <2>3. (m \in d.starts <=> n \in d.starts) /\ m < n
    BY <1>2, <2>1, Zenon DEF Precedes
  <2>4. n <= m
    BY <1>2, <2>1, <2>3, Zenon
  <2>5. QED
    BY <1>3, <2>2, <2>3, <2>4
<1>7. QED
  BY <1>1, <1>3, <1>5, <1>6, Zenon

\* The TaskStates allocated for the names in N.
LEMMA FreshTasks ==
  ASSUME NEW N, ExistsInjection(N, Free)
  PROVE  /\ \A n \in N : Fresh(N)[n] \in Free
         /\ \A m, n \in N : Fresh(N)[m] = Fresh(N)[n] => m = n
<1>1. Fresh(N) \in Injection(N, Free)
  BY Zenon DEF ExistsInjection, Fresh
<1>2. Fresh(N) \in [N -> Free] /\ IsInjective(Fresh(N))
  BY <1>1, Zenon DEF Injection
<1>3. DOMAIN Fresh(N) = N
  BY <1>2, Zenon
<1>4. QED
  BY <1>2, <1>3, Zenon DEF IsInjective

LEMMA AbsentIsTask == Absent \in TaskStates
BY SMT DEF Absent, TaskStates, LoopStates

\* The record of a task as TaskState::new leaves it once it is started.
LEMMA NewTask ==
  ASSUME NEW n \in Names, NEW s \in Schedules \cup {Off}
  PROVE  LET t == [Absent EXCEPT !.name = n, !.schedule = s, !.loop = "spawned"]
         IN t \in TaskStates /\ t.schedule = s
<1> DEFINE t == [Absent EXCEPT !.name = n, !.schedule = s, !.loop = "spawned"]
<1>1. n \in Nat /\ "spawned" \in LoopStates
  BY TaskAssumption, Zenon DEF LoopStates
<1>2. t \in TaskStates
  BY <1>1, AbsentIsTask, Zenon DEF TaskStates
<1>3. t.schedule = s
  BY AbsentIsTask, Zenon DEF TaskStates
<1>4. QED
  BY <1>2, <1>3, Zenon

\* Starting the tasks of N, all of them without a task before: the map, the
\* records and the schedules afterwards.
LEMMA StartedTasks ==
  ASSUME SupervisorTypes, OwnTasks, NEW N, N \subseteq Names, NEW specs \in SpecSets,
         ExistsInjection(N, Free)
  PROVE  /\ Inserted(N) \in [Names -> Tasks \cup {NoTask}]
         /\ Started(N, specs) \in [Tasks -> TaskStates]
         /\ \A n \in N : /\ Inserted(N)[n] \in Free
                         /\ Started(N, specs)[Inserted(N)[n]].schedule = specs[n]
         /\ \A n \in Names \ N : Inserted(N)[n] = taskMap[n]
         /\ \A i \in Tasks \ Free : Started(N, specs)[i] = task[i]
         /\ \A m, n \in Names : Inserted(N)[m] = Inserted(N)[n] /\ Inserted(N)[m] # NoTask => m = n
<1> DEFINE f == Fresh(N)
           new(n) == [Absent EXCEPT !.name = n, !.schedule = specs[n], !.loop = "spawned"]
<1>1. /\ \A n \in N : f[n] \in Free
      /\ \A m, n \in N : f[m] = f[n] => m = n
  BY FreshTasks, Zenon
<1>2. /\ Free \subseteq Tasks
      /\ \A n \in Names : taskMap[n] \notin Free
  BY Zenon DEF Free
<1>3. \A n \in Names : Inserted(N)[n] = IF n \in N THEN f[n] ELSE taskMap[n]
  BY Zenon DEF Inserted
<1>4. Inserted(N) \in [Names -> Tasks \cup {NoTask}]
  BY <1>1, <1>2, Zenon DEF Inserted, SupervisorTypes
<1>5. ASSUME NEW n \in N PROVE Started(N, specs)[f[n]] = new(n)
  <2>1. f[n] \in Tasks
    BY <1>1, <1>2, Zenon
  <2>2. (CHOOSE k \in N : f[k] = f[n]) = n
    BY <1>1, Zenon
  <2>3. QED
    BY <2>1, <2>2, Zenon DEF Started
<1>6. ASSUME NEW i \in Tasks, \A n \in N : f[n] # i PROVE Started(N, specs)[i] = task[i]
  BY <1>6, Zenon DEF Started
<1>7. ASSUME NEW n \in N PROVE new(n) \in TaskStates /\ new(n).schedule = specs[n]
  <2>1. n \in Names /\ specs[n] \in Schedules \cup {Off}
    BY Zenon DEF SpecSets
  <2>2. QED
    BY <2>1, NewTask, Zenon
<1>8. Started(N, specs) \in [Tasks -> TaskStates]
  <2>1. ASSUME NEW i \in Tasks PROVE Started(N, specs)[i] \in TaskStates
    <3>1. CASE \E n \in N : f[n] = i
      BY <1>5, <1>7, <3>1, Zenon
    <3>2. CASE \A n \in N : f[n] # i
      BY <1>6, <3>2, Zenon DEF SupervisorTypes
    <3>3. QED
      BY <3>1, <3>2, Zenon
  <2>2. Started(N, specs) = [i \in Tasks |-> Started(N, specs)[i]]
    BY Zenon DEF Started
  <2>3. QED
    BY <2>1, <2>2, Zenon
<1>9. ASSUME NEW m \in Names, NEW n \in Names, Inserted(N)[m] = Inserted(N)[n],
             Inserted(N)[m] # NoTask
      PROVE  m = n
  <2>1. CASE m \in N /\ n \in N
    BY <1>1, <1>3, <1>9, <2>1, Zenon
  <2>2. CASE m \in N /\ n \notin N
    BY <1>1, <1>2, <1>3, <1>9, <2>2, Zenon
  <2>3. CASE m \notin N /\ n \in N
    BY <1>1, <1>2, <1>3, <1>9, <2>3, Zenon
  <2>4. CASE m \notin N /\ n \notin N
    BY <1>3, <1>9, <2>4, Zenon DEF OwnTasks
  <2>5. QED
    BY <2>1, <2>2, <2>3, <2>4, Zenon
<1>10. \A i \in Tasks \ Free : Started(N, specs)[i] = task[i]
  BY <1>1, <1>6, Zenon
<1>11. \A n \in N : Inserted(N)[n] \in Free /\ Started(N, specs)[Inserted(N)[n]].schedule = specs[n]
  BY <1>1, <1>3, <1>5, <1>7, Zenon
<1>12. QED
  BY <1>3, <1>4, <1>8, <1>9, <1>10, <1>11, Zenon

\* The last segment of a commit leaves the candidate's schedules in the map.
LEMMA CompleteStep ==
  ASSUME SupervisorTypes, OwnTasks, NEW d \in Diffs, CompleteDiff(d)
  PROVE  /\ SupervisorTypes' /\ OwnTasks' /\ diff' \in Diffs
         /\ diff'.candidate = d.candidate /\ diff'.previous = d.previous
         /\ Heads(d) => Follows(diff)'
<1> DEFINE N == d.starts
<1>1. N \in SUBSET Names /\ d.stops \in SUBSET Names /\ d.candidate \in SpecSets
  BY Zenon DEF Diffs
<1>2. /\ diff' \in Diffs /\ diff'.stops = {} /\ diff'.starts = {} /\ diff'.waits = NoTask
      /\ diff'.candidate = d.candidate /\ diff'.previous = d.previous
  <2>1. {} \in SUBSET Names /\ NoTask \in Tasks \cup {NoTask}
    BY Zenon
  <2>2. diff' = [d EXCEPT !.stops = {}, !.starts = {}, !.waits = NoTask]
    BY Zenon DEF CompleteDiff
  <2>3. QED
    BY <2>1, <2>2, Zenon DEF Diffs
<1>3. taskMap' = Inserted(N) /\ task' = Started(N, d.candidate) /\ ExistsInjection(N, Free)
  BY Zenon DEF CompleteDiff
<1> DEFINE ins == Inserted(N)
           sta == Started(N, d.candidate)
<1>a. /\ ins \in [Names -> Tasks \cup {NoTask}]
      /\ sta \in [Tasks -> TaskStates]
      /\ \A n \in N : ins[n] \in Free /\ sta[ins[n]].schedule = d.candidate[n]
      /\ \A n \in Names \ N : ins[n] = taskMap[n]
      /\ \A i \in Tasks \ Free : sta[i] = task[i]
      /\ \A m, n \in Names : ins[m] = ins[n] /\ ins[m] # NoTask => m = n
  BY <1>1, <1>3, StartedTasks, Zenon
<1>b. taskMap' = ins /\ task' = sta
  BY <1>3, Zenon
<1> HIDE DEF ins, sta
<1>4. /\ taskMap' \in [Names -> Tasks \cup {NoTask}]
      /\ task' \in [Tasks -> TaskStates]
      /\ \A n \in N : taskMap'[n] \in Free /\ task'[taskMap'[n]].schedule = d.candidate[n]
      /\ \A n \in Names \ N : taskMap'[n] = taskMap[n]
      /\ \A m, n \in Names : taskMap'[m] = taskMap'[n] /\ taskMap'[m] # NoTask => m = n
      /\ \A i \in Tasks \ Free : task'[i] = task[i]
  BY <1>a, <1>b, Zenon
<1>5. SupervisorTypes' /\ OwnTasks'
  BY <1>4, Zenon DEF SupervisorTypes, OwnTasks
<1>6. ASSUME Heads(d), NEW n \in Names PROVE active_specs'[n] = d.candidate[n]
  <2>0. active_specs'[n] = IF taskMap'[n] = NoTask THEN Off ELSE task'[taskMap'[n]].schedule
    BY Zenon DEF active_specs
  <2>1. CASE n \in N
    <3>1. taskMap'[n] # NoTask
      BY <1>4, <2>1, TaskAssumption, Zenon DEF Free
    <3>2. QED
      BY <1>4, <2>0, <2>1, <3>1, Zenon
  <2>2. CASE n \notin N /\ n \in d.stops
    <3>1. taskMap[n] = NoTask
      BY <2>2, Zenon DEF CompleteDiff, Remaining
    <3>2. d.candidate[n] = Off
      BY <1>6, <2>2, Zenon DEF Heads
    <3>3. QED
      BY <1>4, <2>0, <2>2, <3>1, <3>2, Zenon
  <2>3. CASE n \notin N /\ n \notin d.stops
    <3>1. active_specs[n] = d.candidate[n]
      BY <1>6, <2>3, Zenon DEF Heads
    <3>2. active_specs[n] = IF taskMap[n] = NoTask THEN Off ELSE task[taskMap[n]].schedule
      BY Zenon DEF active_specs
    <3>3. taskMap[n] # NoTask => taskMap[n] \in Tasks \ Free
      BY Zenon DEF SupervisorTypes, Free
    <3>4. QED
      BY <1>4, <2>0, <2>3, <3>1, <3>2, <3>3, Zenon
  <2>4. QED
    BY <2>1, <2>2, <2>3, Zenon
<1>7. Heads(d) => Follows(diff)'
  BY <1>2, <1>6, Zenon DEF Follows, Heads
<1>8. QED
  BY <1>2, <1>5, <1>7, Zenon

\* A segment that ends in a stop_task keeps what has been passed as the
\* candidate wants it.
LEMMA AdvanceStep ==
  ASSUME SupervisorTypes, OwnTasks, NEW d \in Diffs, AdvanceDiff(d)
  PROVE  /\ SupervisorTypes' /\ OwnTasks' /\ diff' \in Diffs
         /\ diff'.candidate = d.candidate /\ diff'.previous = d.previous
         /\ Heads(d) => Follows(diff)'
<1> DEFINE u == Upcoming(d)
           i == taskMap[u]
           P == Passed(d, u)
           N == d.starts \cap P
           S == d.stops \ P
           T == d.starts \ N
           ins == Inserted(N)
           sta == Started(N, d.candidate)
<1>1. /\ N \in SUBSET Names /\ d.stops \in SUBSET Names /\ S \in SUBSET Names
      /\ T \in SUBSET Names /\ d.candidate \in SpecSets
  BY Zenon DEF Diffs
<1>2. /\ Remaining(d) # {} /\ ExistsInjection(N, Free)
      /\ taskMap' = [ins EXCEPT ![u] = NoTask]
      /\ task' = [sta EXCEPT ![i] = IF Live(i) THEN cancel_task(sta[i]) ELSE Absent]
      /\ diff' = [d EXCEPT !.stops = S, !.starts = T, !.waits = i]
  BY Zenon DEF AdvanceDiff
<1>3. /\ u \in Names /\ u \in d.stops /\ i # NoTask /\ u \notin P
      /\ \A m \in P : taskMap[m] = NoTask
  BY <1>2, UpcomingIsFirst, Zenon
<1>6. /\ ins \in [Names -> Tasks \cup {NoTask}]
      /\ sta \in [Tasks -> TaskStates]
      /\ \A n \in N : ins[n] \in Free /\ sta[ins[n]].schedule = d.candidate[n]
      /\ \A n \in Names \ N : ins[n] = taskMap[n]
      /\ \A j \in Tasks \ Free : sta[j] = task[j]
      /\ \A m, n \in Names : ins[m] = ins[n] /\ ins[m] # NoTask => m = n
  BY <1>1, <1>2, StartedTasks, Zenon
<1>s. S = d.stops \ P /\ N = d.starts \cap P /\ T = d.starts \ N /\ i = taskMap[u]
  BY Zenon
<1> HIDE DEF u, i, P, N, S, T, ins, sta
<1>4. i \in Tasks \ Free
  BY <1>3, <1>s, Zenon DEF SupervisorTypes, Free
<1>5. /\ diff' \in Diffs /\ diff'.stops = S /\ diff'.starts = T /\ diff'.waits = i
      /\ diff'.candidate = d.candidate /\ diff'.previous = d.previous
  BY <1>1, <1>2, <1>4, Zenon DEF Diffs
<1>7. /\ taskMap' = [ins EXCEPT ![u] = NoTask]
      /\ task' = [sta EXCEPT ![i] = IF Live(i) THEN cancel_task(sta[i]) ELSE Absent]
  BY <1>2, Zenon
<1>8. cancel_task(sta[i]) \in TaskStates /\ Absent \in TaskStates
  <2>1. sta[i] \in TaskStates
    BY <1>4, <1>6, Zenon
  <2>2. QED
    BY <2>1, AbsentIsTask, Zenon DEF cancel_task, TaskStates
<1>9. taskMap' \in [Names -> Tasks \cup {NoTask}] /\ task' \in [Tasks -> TaskStates]
  BY <1>6, <1>7, <1>8, Zenon
<1>10. /\ taskMap'[u] = NoTask
       /\ \A n \in Names \ {u} : taskMap'[n] = ins[n]
       /\ \A j \in Tasks \ {i} : task'[j] = sta[j]
  BY <1>3, <1>6, <1>7, Zenon
<1>11. SupervisorTypes' /\ OwnTasks'
  <2>1. ASSUME NEW m \in Names, NEW n \in Names, taskMap'[m] = taskMap'[n], taskMap'[m] # NoTask
        PROVE  m = n
    <3>1. m # u /\ n # u
      BY <1>10, <2>1, Zenon
    <3>2. taskMap'[m] = ins[m] /\ taskMap'[n] = ins[n]
      BY <1>10, <3>1, Zenon
    <3>3. QED
      BY <1>6, <2>1, <3>2, Zenon
  <2>2. QED
    BY <1>9, <2>1, Zenon DEF SupervisorTypes, OwnTasks
<1>12. ASSUME Heads(d), NEW n \in Names, n \notin S, n \notin T
       PROVE  active_specs'[n] = d.candidate[n]
  <2>0. active_specs'[n] = IF taskMap'[n] = NoTask THEN Off ELSE task'[taskMap'[n]].schedule
    BY Zenon DEF active_specs
  <2>a. n # u
    BY <1>3, <1>s, <1>12, Zenon
  <2>b. taskMap'[n] = ins[n]
    BY <1>10, <2>a, Zenon
  <2>1. CASE n \in N
    <3>1. ins[n] \in Free /\ sta[ins[n]].schedule = d.candidate[n]
      BY <1>6, <2>1, Zenon
    <3>2. ins[n] \in Tasks
      BY <3>1, Zenon DEF Free
    <3>3. ins[n] # NoTask /\ ins[n] # i
      BY <1>4, <3>1, <3>2, TaskAssumption, Zenon
    <3>4. task'[ins[n]] = sta[ins[n]]
      BY <1>10, <3>2, <3>3, Zenon
    <3>5. QED
      BY <2>0, <2>b, <3>1, <3>3, <3>4, Zenon
  <2>2. CASE n \notin N /\ n \in d.stops
    <3>1. n \in P /\ n \notin d.starts
      BY <1>s, <1>12, <2>2, Zenon
    <3>2. taskMap[n] = NoTask
      BY <1>3, <3>1, Zenon
    <3>3. d.candidate[n] = Off
      BY <1>12, <2>2, <3>1, Zenon DEF Heads
    <3>4. QED
      <4>1. taskMap'[n] = NoTask
        BY <1>6, <2>2, <2>b, <3>2, Zenon
      <4>2. QED
        BY <2>0, <3>3, <4>1, Zenon
  <2>3. CASE n \notin N /\ n \notin d.stops
    <3>1. active_specs[n] = d.candidate[n]
      <4>1. n \notin d.starts
        BY <1>s, <1>12, <2>3, Zenon
      <4>2. QED
        BY <1>12, <2>3, <4>1, Zenon DEF Heads
    <3>2. active_specs[n] = IF taskMap[n] = NoTask THEN Off ELSE task[taskMap[n]].schedule
      BY Zenon DEF active_specs
    <3>3. taskMap[n] # NoTask => taskMap[n] \in Tasks \ Free
      BY Zenon DEF SupervisorTypes, Free
    <3>4. taskMap'[n] = taskMap[n]
      BY <1>6, <2>3, <2>b, Zenon
    <3>5. taskMap[n] # NoTask => taskMap[n] # i
      BY <1>3, <1>s, <2>a, Zenon DEF OwnTasks
    <3>6. taskMap[n] # NoTask => task'[taskMap[n]] = task[taskMap[n]]
      BY <1>6, <1>10, <3>3, <3>5, Zenon
    <3>7. QED
      BY <2>0, <3>1, <3>2, <3>4, <3>6, Zenon
  <2>4. QED
    BY <2>1, <2>2, <2>3, Zenon
<1>13. ASSUME Heads(d), NEW n \in S \ T PROVE d.candidate[n] = Off
  BY <1>s, <1>13, Zenon DEF Heads
<1>14. Heads(d) => Follows(diff)'
  BY <1>3, <1>5, <1>12, <1>13, Zenon DEF Follows, Heads
<1>15. QED
  BY <1>5, <1>11, <1>14, Zenon

LEMMA SegmentStep ==
  ASSUME SupervisorTypes, OwnTasks, NEW d \in Diffs, Segment(d)
  PROVE  /\ SupervisorTypes' /\ OwnTasks' /\ diff' \in Diffs
         /\ diff'.candidate = d.candidate /\ diff'.previous = d.previous
         /\ Heads(d) => Follows(diff)'
BY CompleteStep, AdvanceStep, Zenon DEF Segment

LEMMA ActiveSpecsType ==
  ASSUME SupervisorTypes
  PROVE  active_specs \in SpecSets
<1>1. ASSUME NEW i \in Tasks PROVE task[i].schedule \in Schedules \cup {Off}
  BY Zenon DEF SupervisorTypes, TaskStates
<1>2. QED
  BY <1>1, Zenon DEF SupervisorTypes, active_specs, SpecSets

\* A prepared diff touches every name on which the inventories differ.
LEMMA PreparedHeads ==
  ASSUME SupervisorTypes, NEW specs \in SpecSets
  PROVE  LET d == prepare_diff(active_specs, specs)
         IN /\ d \in Diffs /\ Heads(d)
            /\ d.candidate = specs /\ d.previous = active_specs
<1> DEFINE d == prepare_diff(active_specs, specs)
<1>1. /\ d.candidate = specs /\ d.previous = active_specs /\ d.waits = NoTask
      /\ d.stops = removed(active_specs, specs) \cup rescheduled(active_specs, specs)
      /\ d.starts = rescheduled(active_specs, specs) \cup added(active_specs, specs)
  BY Zenon DEF prepare_diff
<1>2. d \in Diffs
  <2>1. d.stops \in SUBSET Names /\ d.starts \in SUBSET Names
    BY <1>1, Zenon DEF added, removed, rescheduled
  <2>2. active_specs \in SpecSets /\ specs \in SpecSets /\ NoTask \in Tasks \cup {NoTask}
    BY ActiveSpecsType, Zenon
  <2>3. QED
    BY <1>1, <2>1, <2>2, Zenon DEF Diffs, prepare_diff
<1>3. Heads(d)
  BY <1>1, Zenon DEF Heads, added, removed, rescheduled
<1>4. QED
  BY <1>1, <1>2, <1>3, Zenon

\* A task's record changes: what the map says of schedules stays.
LEMMA TaskMoves ==
  ASSUME SupervisorTypes, OwnTasks, NEW i, NEW t,
         taskMap' = taskMap, task' = [task EXCEPT ![i] = t],
         i \in Tasks => t \in TaskStates,
         \A n \in Names : taskMap[n] = i /\ i \in Tasks => t.schedule = task[i].schedule
  PROVE  SupervisorTypes' /\ OwnTasks' /\ active_specs' = active_specs
<1>1. SupervisorTypes' /\ OwnTasks'
  BY Zenon DEF SupervisorTypes, OwnTasks
<1>2. ASSUME NEW n \in Names, taskMap[n] # NoTask
      PROVE  task'[taskMap[n]].schedule = task[taskMap[n]].schedule
  <2>1. taskMap[n] \in Tasks /\ DOMAIN task = Tasks
    BY <1>2, Zenon DEF SupervisorTypes
  <2>2. CASE taskMap[n] = i
    BY <2>1, <2>2, Zenon
  <2>3. CASE taskMap[n] # i
    BY <2>1, <2>3, Zenon
  <2>4. QED
    BY <2>2, <2>3, Zenon
<1>3. QED
  BY <1>1, <1>2, Zenon DEF active_specs

\* The end of a loop keeps the schedule the map reads.
LEMMA EndedTask ==
  ASSUME SupervisorTypes, NEW i \in Tasks
  PROVE  /\ Ended(i) \in TaskStates
         /\ \A n \in Names : taskMap[n] = i => Ended(i).schedule = task[i].schedule
<1>1. task[i] \in TaskStates /\ Absent \in TaskStates /\ "done" \in LoopStates
  BY AbsentIsTask, Zenon DEF SupervisorTypes, LoopStates
<1>2. CASE \E n \in Names : taskMap[n] = i
  <2>1. Ended(i) = [task[i] EXCEPT !.loop = "done", !.permit = FALSE]
    BY <1>2, Zenon DEF Ended
  <2>2. QED
    BY <1>1, <2>1, Zenon DEF TaskStates
<1>3. CASE ~\E n \in Names : taskMap[n] = i
  BY <1>1, <1>3, Zenon DEF Ended
<1>4. QED
  BY <1>2, <1>3, Zenon

\* A loop goes to another place.
LEMMA LoopMoves ==
  ASSUME SupervisorTypes, NEW i \in Tasks, NEW place \in LoopStates
  PROVE  LET t == [task[i] EXCEPT !.loop = place]
         IN t \in TaskStates /\ t.schedule = task[i].schedule
<1>1. task[i] \in TaskStates
  BY Zenon DEF SupervisorTypes
<1>2. QED
  BY <1>1, Zenon DEF TaskStates

\* The effect of run_task, of a join that times out and of an abort.
LEMMA LoopSteps ==
  ASSUME SupervisorTypes, OwnTasks, NEW i,
         \/ Set(i, Ended(i))
         \/ i \in Tasks /\ \E place \in LoopStates : Set(i, [task[i] EXCEPT !.loop = place])
  PROVE  /\ SupervisorTypes' /\ OwnTasks' /\ active_specs' = active_specs
         /\ UNCHANGED <<taskMap, shuttingDown, diff, joining>>
<1>1. CASE Set(i, Ended(i))
  <2>1. /\ taskMap' = taskMap /\ task' = [task EXCEPT ![i] = Ended(i)]
        /\ UNCHANGED <<taskMap, shuttingDown, diff, joining>>
    BY <1>1, Zenon DEF Set
  <2>2. i \in Tasks => /\ Ended(i) \in TaskStates
                       /\ \A n \in Names : taskMap[n] = i => Ended(i).schedule = task[i].schedule
    BY EndedTask, Zenon
  <2>3. QED
    BY <2>1, <2>2, TaskMoves, Zenon
<1>2. ASSUME i \in Tasks, NEW place \in LoopStates, Set(i, [task[i] EXCEPT !.loop = place])
      PROVE  /\ SupervisorTypes' /\ OwnTasks' /\ active_specs' = active_specs
             /\ UNCHANGED <<taskMap, shuttingDown, diff, joining>>
  <2> DEFINE t == [task[i] EXCEPT !.loop = place]
  <2>1. /\ taskMap' = taskMap /\ task' = [task EXCEPT ![i] = t]
        /\ UNCHANGED <<taskMap, shuttingDown, diff, joining>>
    BY <1>2, Zenon DEF Set
  <2>2. t \in TaskStates /\ t.schedule = task[i].schedule
    BY <1>2, LoopMoves, Zenon
  <2> HIDE DEF t
  <2>3. QED
    BY <2>1, <2>2, TaskMoves, Zenon
<1>3. QED
  BY <1>1, <1>2, Zenon

LEMMA RunTaskStep ==
  ASSUME SupervisorTypes, OwnTasks, NEW i \in Tasks, TaskStep(i)
  PROVE  /\ SupervisorTypes' /\ OwnTasks' /\ active_specs' = active_specs
         /\ UNCHANGED <<taskMap, shuttingDown, diff, joining, reloadVars, shutPc>>
<1>0. UNCHANGED <<reloadVars, shutPc>>
  BY Zenon DEF TaskStep
<1>1. {"sleep", "acquire", "tick"} \subseteq LoopStates
  BY Zenon DEF LoopStates
<1>2. \/ Set(i, Ended(i))
      \/ \E place \in LoopStates : Set(i, [task[i] EXCEPT !.loop = place])
  <2>1. ASSUME Set(i, Head_of_loop(i))
        PROVE  Set(i, Ended(i)) \/ \E place \in LoopStates : Set(i, [task[i] EXCEPT !.loop = place])
    <3>1. CASE task[i].cancelled
      BY <2>1, <3>1, Zenon DEF Head_of_loop
    <3>2. CASE ~task[i].cancelled /\ task[i].name \in Leased
      BY <1>1, <2>1, <3>2, Zenon DEF Head_of_loop
    <3>3. CASE ~task[i].cancelled /\ task[i].name \notin Leased
      BY <1>1, <2>1, <3>3, Zenon DEF Head_of_loop
    <3>4. QED
      BY <3>1, <3>2, <3>3, Zenon
  <2>2. ASSUME Set(i, Enter_wait(i))
        PROVE  Set(i, Ended(i)) \/ \E place \in LoopStates : Set(i, [task[i] EXCEPT !.loop = place])
    <3>1. CASE task[i].cancelled
      BY <2>2, <3>1, Zenon DEF Enter_wait
    <3>2. CASE ~task[i].cancelled
      BY <1>1, <2>2, <3>2, Zenon DEF Enter_wait
    <3>3. QED
      BY <3>1, <3>2, Zenon
  <2>3. QED
    BY <1>1, <2>1, <2>2, Zenon
       DEF TaskStep, LoopBegins, SleepElapses, CancelObserved, TickEnds, AcquireReturns
<1>3. QED
  BY <1>0, <1>2, LoopSteps, Zenon

LEMMA TimeoutStep ==
  ASSUME SupervisorTypes, OwnTasks, Timeout
  PROVE  /\ SupervisorTypes' /\ OwnTasks' /\ active_specs' = active_specs
         /\ UNCHANGED <<taskMap, shuttingDown, diff, joining, reloadVars, shutPc>>
<1>0. UNCHANGED <<reloadVars, shutPc>>
  BY Zenon DEF Timeout
<1>1. \E i : Set(i, Ended(i))
  BY Zenon DEF Timeout, StopTimesOut, JoinTimesOut
<1>2. QED
  BY <1>0, <1>1, LoopSteps, Zenon

\* Shutdown cancels the tasks and takes the map; schedules are not looked at
\* afterwards.
LEMMA CancelAllTypes ==
  ASSUME SupervisorTypes
  PROVE  CancelAll \in [Tasks -> TaskStates]
<1>1. ASSUME NEW i \in Tasks PROVE cancel_task(task[i]) \in TaskStates /\ task[i] \in TaskStates
  BY Zenon DEF SupervisorTypes, cancel_task, TaskStates
<1>2. QED
  BY <1>1, Zenon DEF CancelAll

LEMMA TakeTasksTypes ==
  ASSUME SupervisorTypes, TakeTasks
  PROVE  SupervisorTypes' /\ OwnTasks'
<1>1. taskMap' = [n \in Names |-> NoTask]
  BY Zenon DEF TakeTasks
<1>2. task' \in [Tasks -> TaskStates]
  BY CancelAllTypes, AbsentIsTask, Zenon DEF TakeTasks
<1>3. QED
  BY <1>1, <1>2, Zenon DEF SupervisorTypes, OwnTasks

\* NoDiff is a diff.
LEMMA NoDiffIsDiff == NoDiff \in Diffs /\ NoDiff.waits = NoTask
<1>1. [n \in Names |-> Off] \in SpecSets
  BY Zenon DEF SpecSets
<1>2. QED
  BY <1>1, Zenon DEF NoDiff, Diffs

\* Steps that leave the schedules, the diff and the reload alone.
LEMMA QuietStep ==
  ASSUME ReloadInv, SupervisorTypes', OwnTasks', active_specs' = active_specs,
         diff' = diff, shuttingDown' = shuttingDown, UNCHANGED <<reloadVars, shutPc>>
  PROVE  ReloadInv'
<1>1. /\ UNCHANGED <<active, durable, policy, reloadPc, candidate, old, repaired, before>>
      /\ is_shutting_down' = is_shutting_down
  BY Zenon DEF reloadVars, is_shutting_down
<1>2. ReloadTypes' /\ LocalsInv'
  BY <1>1, Zenon DEF ReloadInv, ReloadTypes, LocalsInv
<1>3. Follows(diff) => Follows(diff)'
  BY Zenon DEF Follows, Heads
<1>4. DiffInv' /\ KeepsInv'
  BY <1>1, <1>3, Zenon DEF ReloadInv, DiffInv, KeepsInv
<1>5. QED
  BY <1>2, <1>4, Zenon DEF ReloadInv

\* The steps of the reload that do not touch the tasks.
LEMMA TasksAlone ==
  ASSUME ReloadInv, UNCHANGED supervisorVars
  PROVE  /\ SupervisorTypes' /\ OwnTasks' /\ active_specs' = active_specs
         /\ diff' = diff /\ shuttingDown' = shuttingDown /\ diff' \in Diffs
         /\ Follows(diff)' = Follows(diff)
<1>1. UNCHANGED <<taskMap, task, diff, shuttingDown>>
  BY Zenon DEF supervisorVars
<1>2. SupervisorTypes' /\ OwnTasks' /\ diff' \in Diffs
  BY <1>1, Zenon DEF ReloadInv, ReloadTypes, SupervisorTypes, OwnTasks
<1>3. active_specs' = active_specs
  BY <1>1, Zenon DEF active_specs
<1>4. Follows(diff)' = Follows(diff)
  BY <1>1, <1>3, Zenon DEF Follows, Heads
<1>5. QED
  BY <1>1, <1>2, <1>3, <1>4, Zenon

LEMMA BeginReloadStep ==
  ASSUME ReloadInv, NEW c \in Configs, BeginReload(c)
  PROVE  ReloadInv'
<1>1. /\ SupervisorTypes' /\ OwnTasks' /\ shuttingDown' = shuttingDown /\ diff' \in Diffs
  BY TasksAlone, Zenon DEF BeginReload
<1>2. /\ candidate' = c /\ old' = active /\ reloadPc' = "preparing"
      /\ UNCHANGED <<active, durable, policy, repaired, before, shutPc>>
  BY Zenon DEF BeginReload
<1>3. ReloadTypes' /\ LocalsInv'
  BY <1>1, <1>2, Zenon
     DEF ReloadInv, ReloadTypes, LocalsInv, is_shutting_down, OldServes, NewServes
<1>4. DiffInv' /\ KeepsInv'
  BY <1>2, Zenon DEF DiffInv, KeepsInv, Staged
<1>5. QED
  BY <1>1, <1>3, <1>4, Zenon DEF ReloadInv

\* The reload returns, whatever it says.
LEMMA ReturnStep ==
  ASSUME ReloadInv, SupervisorTypes', OwnTasks', diff' \in Diffs, NEW category, Return(category),
         shuttingDown' = shuttingDown, shutPc' = shutPc, before' = before,
         active' \in Configs, durable' \in Configs, policy' \in Configs
  PROVE  ReloadInv'
<1>1. reloadPc' = "idle" /\ candidate' = None /\ old' = None /\ repaired' = TRUE
  BY Zenon DEF Return
<1>2. ReloadTypes' /\ LocalsInv'
  BY <1>1, Zenon
     DEF ReloadInv, ReloadTypes, LocalsInv, is_shutting_down, OldServes, NewServes
<1>3. DiffInv' /\ KeepsInv'
  BY <1>1, Zenon DEF DiffInv, KeepsInv, Staged
<1>4. QED
  BY <1>2, <1>3, Zenon DEF ReloadInv

\* The places before the swap and the close of a rolled back candidate.
LEMMA OutsideStep ==
  ASSUME ReloadInv, reloadPc # "idle", reloadPc \in OldServes, reloadPc' \in {"building", "closing"},
         SupervisorTypes', OwnTasks', diff' \in Diffs, shuttingDown' = shuttingDown,
         UNCHANGED <<active, durable, policy, candidate, old, repaired, before, shutPc>>
  PROVE  ReloadInv'
<1>1. ReloadTypes' /\ LocalsInv'
  BY Zenon DEF ReloadInv, ReloadTypes, LocalsInv, is_shutting_down, OldServes, NewServes
<1>2. DiffInv' /\ KeepsInv'
  BY Zenon DEF DiffInv, KeepsInv, Staged
<1>3. QED
  BY <1>1, <1>2, Zenon DEF ReloadInv

LEMMA PreparationSteps ==
  ASSUME ReloadInv, PrepareFails \/ BuildCandidate \/ BuildFails \/ CandidateClosed
  PROVE  ReloadInv'
<1>0. active \in Configs /\ durable \in Configs /\ policy \in Configs
  BY Zenon DEF ReloadInv, ReloadTypes
<1>1. CASE PrepareFails \/ BuildFails \/ CandidateClosed
  <2>1. /\ UNCHANGED supervisorVars
        /\ Return("Aborted") /\ UNCHANGED <<active, durable, policy, before, shutPc>>
    BY <1>1, Zenon DEF PrepareFails, BuildFails, CandidateClosed
  <2>2. QED
    BY <1>0, <2>1, TasksAlone, ReturnStep, Zenon
<1>2. CASE BuildCandidate
  <2>1. /\ UNCHANGED supervisorVars /\ reloadPc = "preparing" /\ reloadPc' = "building"
        /\ UNCHANGED <<active, durable, policy, candidate, old, repaired, before, shutPc>>
    BY <1>2, Zenon DEF BuildCandidate
  <2>2. reloadPc # "idle" /\ reloadPc \in OldServes
    BY <2>1, Zenon DEF OldServes
  <2>3. QED
    BY <2>1, <2>2, TasksAlone, OutsideStep, Zenon
<1>3. QED
  BY <1>1, <1>2, Zenon

\* What every part agrees on.
LEMMA AgreedIs ==
  ASSUME active \in Configs
  PROVE  /\ Agreed \in Configs \cup {Mixed}
         /\ Agreed \in Configs =>
              /\ Agreed = active /\ durable = active /\ policy = active
              /\ is_shutting_down \/ active_specs = SpecsOf[active]
         /\ /\ durable = active /\ policy = active
            /\ is_shutting_down \/ active_specs = SpecsOf[active]
            => Agreed = active
<1>1. CASE \E c \in Configs : /\ active = c /\ durable = c /\ policy = c
                              /\ is_shutting_down \/ active_specs = SpecsOf[c]
  BY <1>1, Zenon DEF Agreed
<1>2. CASE ~\E c \in Configs : /\ active = c /\ durable = c /\ policy = c
                               /\ is_shutting_down \/ active_specs = SpecsOf[c]
  <2>1. Agreed = Mixed
    BY <1>2, Zenon DEF Agreed
  <2>2. QED
    BY <1>2, <2>1, ConfigAssumption, Zenon
<1>3. QED
  BY <1>1, <1>2, Zenon

LEMMA StageStep ==
  ASSUME ReloadInv, StageAndCommitTasks
  PROVE  ReloadInv'
<1> DEFINE d == prepare_diff(active_specs, SpecsOf[candidate])
<1>1. /\ reloadPc = "building" /\ ~is_shutting_down /\ before' = Agreed /\ Segment(d)
      /\ reloadPc' = IF diff'.waits = NoTask THEN "beginning" ELSE "committing"
      /\ shuttingDown' = shuttingDown /\ shutPc' = shutPc
      /\ UNCHANGED <<active, durable, policy, candidate, old, repaired>>
  BY Zenon DEF StageAndCommitTasks, Continue
<1>2. /\ candidate \in Configs /\ old \in Configs /\ active = old /\ active \in Configs
      /\ SupervisorTypes /\ OwnTasks /\ diff \in Diffs
  BY <1>1, Zenon DEF ReloadInv, ReloadTypes, LocalsInv, OldServes
<1>3. SpecsOf[candidate] \in SpecSets
  BY <1>2, ConfigAssumption, Zenon
<1>4. d \in Diffs /\ Heads(d) /\ d.candidate = SpecsOf[candidate] /\ d.previous = active_specs
  BY <1>2, <1>3, PreparedHeads, Zenon
<1> HIDE DEF d
<1>5. /\ SupervisorTypes' /\ OwnTasks' /\ diff' \in Diffs /\ Follows(diff)'
      /\ diff'.candidate = SpecsOf[candidate] /\ diff'.previous = active_specs
  BY <1>1, <1>2, <1>4, SegmentStep, Zenon
<1>6. reloadPc' \in {"beginning", "committing"}
  BY <1>1, Zenon
<1>7. is_shutting_down' = is_shutting_down
  BY <1>1, Zenon DEF is_shutting_down
<1>8. ReloadTypes'
  <2>1. before' \in Configs \cup {Mixed}
    BY <1>1, <1>2, AgreedIs, Zenon
  <2>2. reloadPc' \in OldServes
    BY <1>6, Zenon DEF OldServes
  <2>3. QED
    BY <1>1, <1>5, <1>7, <2>1, <2>2, Zenon DEF ReloadInv, ReloadTypes
<1>9. LocalsInv'
  BY <1>1, <1>2, <1>6, Zenon DEF LocalsInv, NewServes
<1>10. DiffInv'
  BY <1>1, <1>5, <1>6, Zenon DEF DiffInv, Undoing
<1>11. KeepsInv'
  <2>1. ASSUME before' \in Configs
        PROVE  before' = old /\ policy = old /\ durable = old /\ active_specs = SpecsOf[old]
    BY <1>1, <1>2, <2>1, AgreedIs, Zenon
  <2>2. QED
    BY <1>1, <1>5, <1>6, <2>1, Zenon DEF KeepsInv, Undoing
<1>12. QED
  BY <1>5, <1>8, <1>9, <1>10, <1>11, Zenon DEF ReloadInv

LEMMA ResumeCommitStep ==
  ASSUME ReloadInv, ResumeCommit
  PROVE  ReloadInv'
<1>1. /\ reloadPc = "committing" /\ Segment(diff)
      /\ reloadPc' = IF diff'.waits = NoTask THEN "beginning" ELSE "committing"
      /\ shuttingDown' = shuttingDown /\ shutPc' = shutPc
      /\ UNCHANGED <<active, durable, policy, candidate, old, repaired, before>>
  BY Zenon DEF ResumeCommit, Continue
<1>2. SupervisorTypes /\ OwnTasks /\ diff \in Diffs
  BY Zenon DEF ReloadInv, ReloadTypes
<1>3. /\ SupervisorTypes' /\ OwnTasks' /\ diff' \in Diffs /\ (Heads(diff) => Follows(diff)')
      /\ diff'.candidate = diff.candidate /\ diff'.previous = diff.previous
  BY <1>1, <1>2, SegmentStep, Zenon
<1>4. reloadPc' \in {"beginning", "committing"} /\ is_shutting_down' = is_shutting_down
  BY <1>1, Zenon DEF is_shutting_down
<1>5. ReloadTypes' /\ LocalsInv'
  <2>1. reloadPc' \in OldServes /\ reloadPc' \notin NewServes /\ reloadPc \in OldServes
    BY <1>1, <1>4, Zenon DEF OldServes, NewServes
  <2>2. QED
    BY <1>1, <1>3, <1>4, <2>1, Zenon DEF ReloadInv, ReloadTypes, LocalsInv
<1>6. DiffInv'
  <2>1. reloadPc \in Staged /\ reloadPc \notin Undoing /\ reloadPc' \notin Undoing
    BY <1>1, <1>4, Zenon DEF Staged, Undoing
  <2>2. ~is_shutting_down' => Follows(diff)' /\ diff'.candidate = SpecsOf[candidate]
    BY <1>3, <1>4, <2>1, Zenon DEF ReloadInv, DiffInv, Follows
  <2>3. reloadPc' # "committing" => diff'.waits = NoTask
    BY <1>1, Zenon
  <2>4. QED
    BY <1>1, <1>4, <2>2, <2>3, Zenon DEF DiffInv
<1>7. KeepsInv'
  <2>1. reloadPc \in Staged /\ reloadPc \notin Undoing /\ reloadPc' \notin Undoing
    BY <1>1, <1>4, Zenon DEF Staged, Undoing
  <2>2. QED
    BY <1>1, <1>3, <1>4, <2>1, Zenon DEF ReloadInv, KeepsInv
<1>8. QED
  BY <1>3, <1>5, <1>6, <1>7, Zenon DEF ReloadInv

\* BEGIN, the swap of the pointer and a COMMIT that fails.
LEMMA DatabaseSteps ==
  ASSUME ReloadInv, TransactionBegins \/ CommitPointer \/ \E b \in BOOLEAN : CommitFails(b)
  PROVE  ReloadInv'
<1>1. /\ SupervisorTypes' /\ OwnTasks' /\ diff' = diff /\ shuttingDown' = shuttingDown
      /\ diff' \in Diffs /\ Follows(diff)' = Follows(diff)
  BY TasksAlone, Zenon DEF TransactionBegins, CommitPointer, CommitFails
<1>2. /\ UNCHANGED <<policy, candidate, old, repaired, before>>
      /\ is_shutting_down' = is_shutting_down
  BY Zenon DEF TransactionBegins, CommitPointer, CommitFails, is_shutting_down
<1>3. \/ reloadPc = "beginning" /\ reloadPc' = "applying" /\ active' = active /\ durable' = durable
      \/ reloadPc = "applying" /\ reloadPc' = "durable" /\ active' = candidate /\ durable' = durable
      \/ /\ reloadPc = "durable" /\ reloadPc' = "repairing" /\ active' = active
         /\ durable' \in {durable, candidate}
  BY Zenon DEF TransactionBegins, CommitPointer, CommitFails
<1>4. /\ reloadPc \in {"beginning", "applying", "durable"}
      /\ reloadPc' \in {"applying", "durable", "repairing"}
      /\ reloadPc' # "repairing" => durable' = durable
  BY <1>3, Zenon
<1>5. candidate \in Configs /\ old \in Configs
  BY <1>4, Zenon DEF ReloadInv, LocalsInv
<1>6. ReloadTypes'
  <2>1. reloadPc' \in OldServes \cup NewServes
    BY <1>4, Zenon DEF OldServes, NewServes
  <2>2. active' \in Configs /\ durable' \in Configs
    BY <1>3, <1>5, Zenon DEF ReloadInv, ReloadTypes
  <2>3. QED
    BY <1>1, <1>2, <2>1, <2>2, Zenon DEF ReloadInv, ReloadTypes
<1>7. LocalsInv'
  <2>1. CASE reloadPc = "beginning" /\ reloadPc' = "applying" /\ active' = active
    BY <1>2, <1>5, <2>1, Zenon DEF ReloadInv, LocalsInv, OldServes, NewServes
  <2>2. CASE reloadPc' = "durable" /\ active' = candidate
    BY <1>2, <1>5, <2>2, Zenon DEF LocalsInv, OldServes
  <2>3. CASE reloadPc = "durable" /\ reloadPc' = "repairing" /\ active' = active
    BY <1>2, <1>5, <2>3, Zenon DEF ReloadInv, LocalsInv, OldServes, NewServes
  <2>4. QED
    BY <1>3, <2>1, <2>2, <2>3, Zenon
<1>8. /\ reloadPc \in Staged /\ reloadPc \notin Undoing \cup {"committing"}
      /\ reloadPc' \notin Undoing \cup {"committing"}
      /\ reloadPc \notin {"repairing", "compensating"}
  BY <1>4, Zenon DEF Staged, Undoing
<1>9. DiffInv'
  BY <1>1, <1>2, <1>8, Zenon DEF ReloadInv, DiffInv
<1>10. KeepsInv'
  BY <1>1, <1>2, <1>4, <1>8, Zenon DEF ReloadInv, KeepsInv, Undoing
<1>11. QED
  BY <1>1, <1>6, <1>7, <1>9, <1>10, Zenon DEF ReloadInv

\* rollback_committed heads for the inventory the diff was computed from.
LEMMA RollbackTasksStep ==
  ASSUME ReloadInv, RollbackTasks
  PROVE  /\ SupervisorTypes' /\ OwnTasks' /\ diff' \in Diffs
         /\ ~is_shutting_down => Follows(diff)' /\ diff'.candidate = diff.previous
<1>1. SupervisorTypes /\ OwnTasks /\ diff \in Diffs /\ shuttingDown = is_shutting_down
  BY Zenon DEF ReloadInv, ReloadTypes
<1>2. CASE shuttingDown
  <2>1. taskMap' = taskMap /\ task' = task /\ diff' = NoDiff
    BY <1>2, Zenon DEF RollbackTasks
  <2>2. QED
    BY <1>1, <1>2, <2>1, NoDiffIsDiff, Zenon DEF SupervisorTypes, OwnTasks
<1>3. CASE ~shuttingDown
  <2> DEFINE d == prepare_diff(active_specs, diff.previous)
  <2>1. Segment(d)
    BY <1>3, Zenon DEF RollbackTasks
  <2>2. diff.previous \in SpecSets
    BY <1>1, Zenon DEF Diffs
  <2>3. d \in Diffs /\ Heads(d) /\ d.candidate = diff.previous
    BY <1>1, <2>2, PreparedHeads, Zenon
  <2> HIDE DEF d
  <2>4. QED
    BY <1>1, <2>1, <2>3, SegmentStep, Zenon
<1>4. QED
  BY <1>2, <1>3, Zenon

LEMMA UndoStep ==
  ASSUME ReloadInv, UndoBeforePointer
  PROVE  ReloadInv'
<1>1. /\ reloadPc \in {"beginning", "applying"} /\ reloadPc' = "undoing" /\ RollbackTasks
      /\ UNCHANGED <<shuttingDown, shutPc, active, durable, policy, candidate, old, repaired, before>>
  BY Zenon DEF UndoBeforePointer
<1>2. /\ SupervisorTypes' /\ OwnTasks' /\ diff' \in Diffs
      /\ ~is_shutting_down => Follows(diff)' /\ diff'.candidate = diff.previous
  BY <1>1, RollbackTasksStep, Zenon
<1>3. is_shutting_down' = is_shutting_down
  BY <1>1, Zenon DEF is_shutting_down
<1>4. /\ reloadPc \in Staged \cap OldServes /\ reloadPc \notin Undoing /\ reloadPc # "idle"
      /\ reloadPc' \in Staged \cap OldServes /\ reloadPc' \in Undoing /\ reloadPc' \notin NewServes
      /\ reloadPc \notin {"repairing", "compensating"}
  BY <1>1, Zenon DEF Staged, OldServes, NewServes, Undoing
<1>5. ReloadTypes' /\ LocalsInv'
  BY <1>1, <1>2, <1>3, <1>4, Zenon DEF ReloadInv, ReloadTypes, LocalsInv
<1>6. DiffInv'
  BY <1>2, <1>3, <1>4, Zenon DEF DiffInv
<1>7. KeepsInv'
  BY <1>1, <1>2, <1>3, <1>4, Zenon DEF ReloadInv, KeepsInv
<1>8. QED
  BY <1>2, <1>5, <1>6, <1>7, Zenon DEF ReloadInv

LEMMA ResumeUndoStep ==
  ASSUME ReloadInv, ResumeUndo
  PROVE  ReloadInv'
<1>1. /\ reloadPc \in Undoing /\ Segment(diff)
      /\ UNCHANGED <<shuttingDown, shutPc, reloadPc, active, durable, policy, candidate, old,
                     repaired, before>>
  BY Zenon DEF ResumeUndo, reloadVars, Undoing
<1>2. SupervisorTypes /\ OwnTasks /\ diff \in Diffs
  BY Zenon DEF ReloadInv, ReloadTypes
<1>3. /\ SupervisorTypes' /\ OwnTasks' /\ diff' \in Diffs /\ (Heads(diff) => Follows(diff)')
      /\ diff'.candidate = diff.candidate
  BY <1>1, <1>2, SegmentStep, Zenon
<1>4. is_shutting_down' = is_shutting_down
  BY <1>1, Zenon DEF is_shutting_down
<1>5. ReloadTypes' /\ LocalsInv'
  BY <1>1, <1>3, <1>4, Zenon DEF ReloadInv, ReloadTypes, LocalsInv
<1>6. DiffInv'
  BY <1>1, <1>3, <1>4, Zenon DEF ReloadInv, DiffInv, Follows
<1>7. KeepsInv'
  BY <1>1, <1>3, <1>4, Zenon DEF ReloadInv, KeepsInv
<1>8. QED
  BY <1>3, <1>5, <1>6, <1>7, Zenon DEF ReloadInv

LEMMA RepairStep ==
  ASSUME ReloadInv, NEW ok \in BOOLEAN, Repair(ok)
  PROVE  ReloadInv'
<1>1. /\ reloadPc = "repairing" /\ reloadPc' = "compensating" /\ RollbackTasks
      /\ durable' = IF ok THEN old ELSE durable
      /\ repaired' = (ok /\ ~shuttingDown) /\ active' = old
      /\ UNCHANGED <<shuttingDown, shutPc, policy, candidate, old, before>>
  BY Zenon DEF Repair, RestoreRows
<1>2. /\ SupervisorTypes' /\ OwnTasks' /\ diff' \in Diffs
      /\ ~is_shutting_down => Follows(diff)' /\ diff'.candidate = diff.previous
  BY <1>1, RollbackTasksStep, Zenon
<1>3. is_shutting_down' = is_shutting_down
  BY <1>1, Zenon DEF is_shutting_down
<1>4. /\ reloadPc \in Staged /\ reloadPc \notin Undoing /\ reloadPc # "idle"
      /\ reloadPc' \in Staged \cap OldServes /\ reloadPc' \in Undoing /\ reloadPc' \notin NewServes
  BY <1>1, Zenon DEF Staged, OldServes, NewServes, Undoing
<1>5. candidate \in Configs /\ old \in Configs
  BY <1>4, Zenon DEF ReloadInv, LocalsInv
<1>6. ReloadTypes' /\ LocalsInv'
  <2>1. active' \in Configs /\ durable' \in Configs /\ repaired' \in BOOLEAN
    BY <1>1, <1>5, Zenon DEF ReloadInv, ReloadTypes
  <2>2. QED
    BY <1>1, <1>2, <1>3, <1>4, <1>5, <2>1, Zenon DEF ReloadInv, ReloadTypes, LocalsInv
<1>7. DiffInv'
  BY <1>2, <1>3, <1>4, Zenon DEF DiffInv
<1>8. KeepsInv'
  <2>1. repaired' => durable' = old
    BY <1>1, Zenon
  <2>2. QED
    BY <1>1, <1>2, <1>3, <1>4, <2>1, Zenon DEF ReloadInv, KeepsInv
<1>9. QED
  BY <1>2, <1>6, <1>7, <1>8, Zenon DEF ReloadInv

\* The ends of a staged reload.
LEMMA EndSteps ==
  ASSUME ReloadInv, CommitSucceeds \/ RollbackStaged \/ CompensationFails
  PROVE  ReloadInv'
<1>0. /\ active \in Configs /\ durable \in Configs /\ policy \in Configs
      /\ SupervisorTypes /\ OwnTasks
  BY Zenon DEF ReloadInv, ReloadTypes
<1>1. /\ taskMap' = taskMap /\ task' = task /\ diff' = NoDiff /\ shuttingDown' = shuttingDown
      /\ shutPc' = shutPc /\ before' = before
  BY Zenon DEF CommitSucceeds, RollbackStaged, CompensationFails
<1>2. SupervisorTypes' /\ OwnTasks' /\ diff' \in Diffs
  BY <1>0, <1>1, NoDiffIsDiff, Zenon DEF SupervisorTypes, OwnTasks
<1>3. CASE CommitSucceeds
  <2>1. /\ reloadPc = "durable" /\ durable' = candidate /\ policy' = candidate /\ active' = active
        /\ Return("Applied")
    BY <1>3, Zenon DEF CommitSucceeds, PublishPolicy
  <2>2. candidate \in Configs
    BY <2>1, Zenon DEF ReloadInv, LocalsInv
  <2>3. QED
    BY <1>0, <1>1, <1>2, <2>1, <2>2, ReturnStep, Zenon
<1>4. CASE RollbackStaged
  <2>1. /\ reloadPc \in Undoing /\ reloadPc' = "closing"
        /\ UNCHANGED <<active, durable, policy, candidate, old, repaired>>
    BY <1>4, Zenon DEF RollbackStaged, Undoing
  <2>2. reloadPc # "idle" /\ reloadPc \in OldServes
    BY <2>1, Zenon DEF Undoing, OldServes
  <2>3. QED
    BY <1>1, <1>2, <2>1, <2>2, OutsideStep, Zenon
<1>5. CASE CompensationFails
  <2>1. Return("CompensationFailed") /\ UNCHANGED <<active, durable, policy>>
    BY <1>5, Zenon DEF CompensationFails
  <2>2. QED
    BY <1>0, <1>1, <1>2, <2>1, ReturnStep, Zenon
<1>6. QED
  BY <1>3, <1>4, <1>5, Zenon

LEMMA ShutdownSteps ==
  ASSUME ReloadInv, request_shutdown \/ TakeSupervisedTasks \/ CloseAfterTasks
  PROVE  ReloadInv' /\ is_shutting_down'
<1>0. SupervisorTypes /\ OwnTasks
  BY Zenon DEF ReloadInv, ReloadTypes
<1>1. /\ UNCHANGED <<reloadPc, active, durable, policy, candidate, old, repaired, before, diff>>
      /\ is_shutting_down'
  BY Zenon DEF request_shutdown, TakeSupervisedTasks, CloseAfterTasks, begin_shutdown, TakeTasks,
               reloadVars, supervisorVars, is_shutting_down
<1>2. SupervisorTypes' /\ OwnTasks' /\ shuttingDown' = TRUE
  <2>1. CASE request_shutdown
    BY <1>0, <2>1, CancelAllTypes, Zenon
       DEF request_shutdown, begin_shutdown, SupervisorTypes, OwnTasks
  <2>2. CASE TakeSupervisedTasks
    BY <1>0, <2>2, TakeTasksTypes, Zenon DEF TakeSupervisedTasks, TakeTasks
  <2>3. CASE CloseAfterTasks
    <3>1. shuttingDown = TRUE
      BY <2>3, Zenon DEF CloseAfterTasks, ReloadInv, ReloadTypes, is_shutting_down
    <3>2. QED
      BY <1>0, <2>3, <3>1, Zenon DEF CloseAfterTasks, supervisorVars, SupervisorTypes, OwnTasks
  <2>4. QED
    BY <2>1, <2>2, <2>3, Zenon
<1>3. is_shutting_down' = TRUE
  BY <1>1, Zenon DEF is_shutting_down
<1>4. ReloadTypes' /\ LocalsInv'
  BY <1>1, <1>2, <1>3, Zenon DEF ReloadInv, ReloadTypes, LocalsInv
<1>5. DiffInv' /\ KeepsInv'
  BY <1>1, Zenon DEF ReloadInv, DiffInv, KeepsInv
<1>6. QED
  BY <1>1, <1>2, <1>4, <1>5, Zenon DEF ReloadInv

LEMMA ReloadInvStep ==
  ASSUME ReloadInv, [Next]_vars
  PROVE  ReloadInv'
<1>0. SupervisorTypes /\ OwnTasks
  BY Zenon DEF ReloadInv, ReloadTypes
<1>1. CASE \E c \in Configs : BeginReload(c)
  BY <1>1, BeginReloadStep, Zenon
<1>2. CASE ReloadStep
  BY <1>2, PreparationSteps, StageStep, ResumeCommitStep, DatabaseSteps, UndoStep, ResumeUndoStep,
     RepairStep, EndSteps, Zenon DEF ReloadStep
<1>3. CASE request_shutdown
  BY <1>3, ShutdownSteps, Zenon
<1>4. CASE ShutdownStep
  <2>1. CASE JoinTask
    <3>1. /\ UNCHANGED <<taskMap, task, shuttingDown, diff>> /\ UNCHANGED <<reloadVars, shutPc>>
      BY <2>1, Zenon DEF JoinTask, JoinReturns
    <3>2. SupervisorTypes' /\ OwnTasks' /\ active_specs' = active_specs
      BY <1>0, <3>1, Zenon DEF SupervisorTypes, OwnTasks, active_specs
    <3>3. QED
      BY <3>1, <3>2, QuietStep, Zenon
  <2>2. QED
    BY <1>4, <2>1, ShutdownSteps, Zenon DEF ShutdownStep
<1>5. CASE \E i \in Tasks : TaskStep(i)
  BY <1>0, <1>5, RunTaskStep, QuietStep, Zenon
<1>6. CASE Timeout
  BY <1>0, <1>6, TimeoutStep, QuietStep, Zenon
<1>7. CASE UNCHANGED vars
  BY <1>7, TasksAlone, QuietStep, Zenon DEF vars
<1>8. QED
  BY <1>1, <1>2, <1>3, <1>4, <1>5, <1>6, <1>7, Zenon DEF Next

LEMMA SameSpecs ==
  ASSUME NEW f \in SpecSets, NEW g \in SpecSets, \A n \in Names : f[n] = g[n]
  PROVE  f = g
BY SMT DEF SpecSets

LEMMA ReloadInitInv == Init => ReloadInv /\ active_specs = SpecsOf[FirstConfig]
<1> SUFFICES ASSUME Init PROVE ReloadInv /\ active_specs = SpecsOf[FirstConfig]
  BY Zenon
<1> DEFINE specs == SpecsOf[FirstConfig]
<1>1. specs \in SpecSets /\ FirstConfig \in Configs
  BY ConfigAssumption, Zenon
<1>2. /\ taskMap = [n \in Names |-> IF specs[n] = Off THEN NoTask ELSE n]
      /\ task = [i \in Tasks |->
                   IF i \in Names /\ specs[i] # Off
                     THEN [Absent EXCEPT !.name = i, !.schedule = specs[i], !.loop = "spawned"]
                     ELSE Absent]
      /\ diff = NoDiff /\ shuttingDown = FALSE
  BY Zenon DEF Init, SupervisorInit
<1>3. /\ active = FirstConfig /\ durable = FirstConfig /\ policy = FirstConfig
      /\ reloadPc = "idle" /\ candidate = None /\ old = None /\ repaired = TRUE
      /\ before = FirstConfig /\ ~is_shutting_down
  BY Zenon DEF Init, is_shutting_down
<1> HIDE DEF specs
<1>4. ASSUME NEW i \in Names
      PROVE  LET t == [Absent EXCEPT !.name = i, !.schedule = specs[i], !.loop = "spawned"]
             IN t \in TaskStates /\ t.schedule = specs[i]
  <2>1. specs[i] \in Schedules \cup {Off}
    BY <1>1, Zenon DEF SpecSets
  <2>2. QED
    BY <2>1, NewTask, Zenon
<1>5. SupervisorTypes
  <2>1. task \in [Tasks -> TaskStates]
    BY <1>2, <1>4, AbsentIsTask, Zenon
  <2>2. taskMap \in [Names -> Tasks \cup {NoTask}]
    BY <1>2, TaskAssumption, Zenon
  <2>3. QED
    BY <2>1, <2>2, Zenon DEF SupervisorTypes
<1>6. OwnTasks
  BY <1>2, Zenon DEF OwnTasks
<1>7. active_specs = specs
  <2>1. ASSUME NEW n \in Names PROVE active_specs[n] = specs[n]
    <3>1. n \in Tasks /\ n # NoTask
      BY TaskAssumption, Zenon
    <3>2. CASE specs[n] = Off
      BY <1>2, <3>2, Zenon DEF active_specs
    <3>3. CASE specs[n] # Off
      <4>1. taskMap[n] = n /\ task[n].schedule = specs[n]
        BY <1>2, <1>4, <3>1, <3>3, Zenon
      <4>2. QED
        BY <3>1, <4>1, Zenon DEF active_specs
    <3>4. QED
      BY <3>2, <3>3, Zenon
  <2>2. active_specs \in SpecSets
    BY <1>5, ActiveSpecsType, Zenon
  <2>3. QED
    BY <1>1, <2>1, <2>2, SameSpecs, Zenon
<1>8. ReloadTypes
  BY <1>1, <1>2, <1>3, <1>5, NoDiffIsDiff, Zenon DEF ReloadTypes, is_shutting_down
<1>9. LocalsInv /\ DiffInv /\ KeepsInv
  BY <1>3, Zenon DEF LocalsInv, DiffInv, KeepsInv, Staged, OldServes, NewServes
<1>10. QED
  BY <1>6, <1>7, <1>8, <1>9, Zenon DEF ReloadInv, specs

\* A step that changes nothing AtomicReload knows of.
LEMMA HiddenStep ==
  ASSUME reloadPc' \in Staged <=> reloadPc \in Staged,
         reloadPc \in Staged => before' = before,
         reloadPc \notin Staged => Agreed' = Agreed,
         is_shutting_down' = is_shutting_down, result' = result
  PROVE  UNCHANGED Abstract!vars
BY SMT DEF Abstract!vars

\* What is agreed on is left alone.
LEMMA AgreedStays ==
  ASSUME UNCHANGED <<active, durable, policy>>, is_shutting_down' = is_shutting_down,
         is_shutting_down \/ active_specs' = active_specs
  PROVE  Agreed' = Agreed
BY Zenon DEF Agreed

\* Steps of the loops and of the timeouts.
LEMMA QuietIsHidden ==
  ASSUME active_specs' = active_specs, UNCHANGED <<reloadVars, shutPc>>
  PROVE  UNCHANGED Abstract!vars
<1>1. /\ UNCHANGED <<active, durable, policy, reloadPc, before, result>>
      /\ is_shutting_down' = is_shutting_down
  BY Zenon DEF reloadVars, is_shutting_down
<1>2. Agreed' = Agreed
  BY <1>1, AgreedStays, Zenon
<1>3. QED
  BY <1>1, <1>2, HiddenStep, Zenon

\* A reload that never staged, or whose stage was undone, returns.
LEMMA AbortIsReported ==
  ASSUME ReloadInv, PrepareFails \/ BuildFails \/ CandidateClosed
  PROVE  Abstract!ReportAborted
<1>1. /\ UNCHANGED supervisorVars /\ UNCHANGED <<active, durable, policy, shutPc>>
      /\ reloadPc \notin Staged /\ reloadPc' \notin Staged /\ result' = "Aborted"
  BY Zenon DEF PrepareFails, BuildFails, CandidateClosed, Return, Staged
<1>2. is_shutting_down' = is_shutting_down /\ active_specs' = active_specs
  BY <1>1, TasksAlone, Zenon DEF is_shutting_down
<1>3. Agreed' = Agreed
  BY <1>1, <1>2, AgreedStays, Zenon
<1>4. QED
  BY <1>1, <1>2, <1>3, SMT DEF Abstract!ReportAborted

LEMMA BeginIsHidden ==
  ASSUME ReloadInv, BuildCandidate \/ \E c \in Configs : BeginReload(c)
  PROVE  UNCHANGED Abstract!vars
<1>1. /\ UNCHANGED supervisorVars /\ UNCHANGED <<active, durable, policy, shutPc, result>>
      /\ reloadPc \notin Staged /\ reloadPc' \notin Staged
  BY Zenon DEF BuildCandidate, BeginReload, Staged
<1>2. is_shutting_down' = is_shutting_down /\ active_specs' = active_specs
  BY <1>1, TasksAlone, Zenon DEF is_shutting_down
<1>3. Agreed' = Agreed
  BY <1>1, <1>2, AgreedStays, Zenon
<1>4. QED
  BY <1>1, <1>2, <1>3, HiddenStep, Zenon

LEMMA StageIsStage ==
  ASSUME StageAndCommitTasks
  PROVE  Abstract!Stage
<1>1. /\ reloadPc = "building" /\ ~is_shutting_down /\ before' = Agreed
      /\ reloadPc' \in {"beginning", "committing"} /\ shutPc' = shutPc /\ result' = result
  BY Zenon DEF StageAndCommitTasks, Continue
<1>2. /\ reloadPc \notin Staged /\ reloadPc' \in Staged /\ is_shutting_down' = is_shutting_down
  BY <1>1, Zenon DEF Staged, is_shutting_down
<1>3. QED
  BY <1>1, <1>2, Zenon DEF Abstract!Stage

\* Between staging and its end, the steps of the reload are not seen.
LEMMA StagedIsHidden ==
  ASSUME \/ ResumeCommit \/ TransactionBegins \/ CommitPointer \/ UndoBeforePointer \/ ResumeUndo
         \/ \E b \in BOOLEAN : CommitFails(b) \/ Repair(b)
  PROVE  UNCHANGED Abstract!vars
<1>1. before' = before /\ shutPc' = shutPc /\ result' = result
  BY Zenon DEF ResumeCommit, TransactionBegins, CommitPointer, UndoBeforePointer, ResumeUndo,
               CommitFails, Repair, reloadVars
<1>2. reloadPc \in Staged /\ reloadPc' \in Staged
  <2>1. CASE ResumeCommit
    BY <2>1, Zenon DEF ResumeCommit, Continue, Staged
  <2>2. CASE ResumeUndo
    BY <2>2, Zenon DEF ResumeUndo, reloadVars, Staged
  <2>3. QED
    BY <2>1, <2>2, Zenon DEF TransactionBegins, CommitPointer, UndoBeforePointer,
                             CommitFails, Repair, Staged
<1>3. is_shutting_down' = is_shutting_down
  BY <1>1, Zenon DEF is_shutting_down
<1>4. QED
  BY <1>1, <1>2, <1>3, HiddenStep, Zenon

LEMMA CommitIsApply ==
  ASSUME ReloadInv, CommitSucceeds
  PROVE  \E c \in Configs : Abstract!Apply(c)
<1>1. /\ reloadPc = "durable" /\ durable' = candidate /\ policy' = candidate /\ active' = active
      /\ taskMap' = taskMap /\ task' = task /\ shutPc' = shutPc
      /\ reloadPc' = "idle" /\ result' = "Applied"
  BY Zenon DEF CommitSucceeds, PublishPolicy, Return
<1>2. candidate \in Configs /\ active = candidate
  BY <1>1, Zenon DEF ReloadInv, LocalsInv, NewServes
<1>3. reloadPc \in Staged /\ reloadPc' \notin Staged /\ reloadPc \notin Undoing \cup {"committing"}
  BY <1>1, Zenon DEF Staged, Undoing
<1>4. is_shutting_down' = is_shutting_down /\ active_specs' = active_specs
  BY <1>1, Zenon DEF is_shutting_down, active_specs
<1>5. ~is_shutting_down => active_specs = SpecsOf[candidate]
  <2> SUFFICES ASSUME ~is_shutting_down PROVE active_specs = SpecsOf[candidate]
    BY Zenon
  <2>1. Follows(diff) /\ diff.candidate = SpecsOf[candidate] /\ diff.waits = NoTask
    BY <1>3, Zenon DEF ReloadInv, DiffInv
  <2>2. \A n \in Names : active_specs[n] = SpecsOf[candidate][n]
    BY <2>1, Zenon DEF Follows, Heads
  <2>3. active_specs \in SpecSets /\ SpecsOf[candidate] \in SpecSets
    BY <1>2, ActiveSpecsType, ConfigAssumption, Zenon DEF ReloadInv, ReloadTypes
  <2>4. QED
    BY <2>2, <2>3, SameSpecs, Zenon
<1>6. Agreed' = candidate
  BY <1>1, <1>2, <1>4, <1>5, Zenon DEF Agreed
<1>7. Abstract!Apply(candidate)
  BY <1>1, <1>3, <1>4, <1>6, SMT DEF Abstract!Apply
<1>8. QED
  BY <1>2, <1>7, Zenon

LEMMA RollbackIsUndo ==
  ASSUME ReloadInv, RollbackStaged
  PROVE  Abstract!Undo
<1>1. /\ reloadPc = "undoing" \/ (reloadPc = "compensating" /\ repaired)
      /\ diff.waits = NoTask /\ reloadPc' = "closing" /\ shutPc' = shutPc /\ result' = result
      /\ UNCHANGED <<active, durable, policy, taskMap, task>>
  BY Zenon DEF RollbackStaged
<1>2. reloadPc \in Staged /\ reloadPc \in Undoing /\ reloadPc \in OldServes /\ reloadPc' \notin Staged
  BY <1>1, Zenon DEF Staged, Undoing, OldServes
<1>3. is_shutting_down' = is_shutting_down /\ active_specs' = active_specs
  BY <1>1, Zenon DEF is_shutting_down, active_specs
<1>4. active = old /\ active \in Configs /\ before \in Configs \cup {Mixed}
  BY <1>2, Zenon DEF ReloadInv, LocalsInv, ReloadTypes
<1>5. Agreed' = Agreed
  BY <1>1, <1>3, AgreedStays, Zenon
<1>6. ASSUME before \in Configs PROVE Agreed = before
  <2>1. before = old /\ policy = old /\ durable = old
    <3>1. "undoing" \notin {"repairing", "compensating"}
      BY Zenon
    <3>2. QED
      BY <1>1, <1>2, <1>6, <3>1, Zenon DEF ReloadInv, KeepsInv
  <2>2. ASSUME ~is_shutting_down PROVE active_specs = SpecsOf[old]
    <3>1. Follows(diff) /\ diff.candidate = SpecsOf[old]
      BY <1>2, <1>6, <2>2, Zenon DEF ReloadInv, DiffInv, KeepsInv
    <3>2. \A n \in Names : active_specs[n] = SpecsOf[old][n]
      BY <1>1, <3>1, Zenon DEF Follows, Heads
    <3>3. active_specs \in SpecSets /\ SpecsOf[old] \in SpecSets
      BY <1>4, ActiveSpecsType, ConfigAssumption, Zenon DEF ReloadInv, ReloadTypes
    <3>4. QED
      BY <3>2, <3>3, SameSpecs, Zenon
  <2>3. QED
    BY <1>4, <2>1, <2>2, AgreedIs, Zenon
<1>7. Agreed \in Configs \cup {Mixed}
  BY <1>4, AgreedIs, Zenon
<1>8. Agreed' = before \/ (before = Mixed /\ Agreed' \in Configs)
  BY <1>4, <1>5, <1>6, <1>7, Zenon
<1>9. QED
  BY <1>1, <1>2, <1>3, <1>8, SMT DEF Abstract!Undo

LEMMA FailureIsGiveUp ==
  ASSUME ReloadInv, CompensationFails
  PROVE  Abstract!GiveUp
<1>1. /\ reloadPc = "compensating" /\ reloadPc' = "idle" /\ shutPc' = shutPc
      /\ result' = "CompensationFailed" /\ UNCHANGED <<active, durable, policy, taskMap, task>>
  BY Zenon DEF CompensationFails, Return
<1>2. reloadPc \in Staged /\ reloadPc' \notin Staged
  BY <1>1, Zenon DEF Staged
<1>3. is_shutting_down' = is_shutting_down /\ active_specs' = active_specs
  BY <1>1, Zenon DEF is_shutting_down, active_specs
<1>4. Agreed' = Agreed
  BY <1>1, <1>3, AgreedStays, Zenon
<1>5. Agreed \in Configs \cup {Mixed}
  BY AgreedIs, Zenon DEF ReloadInv, ReloadTypes
<1>6. QED
  BY <1>1, <1>2, <1>3, <1>4, <1>5, SMT DEF Abstract!GiveUp

LEMMA ShutdownIsShutdown ==
  ASSUME ReloadInv, request_shutdown
  PROVE  Abstract!Shutdown
<1>1. /\ UNCHANGED <<active, durable, policy, reloadPc, before, result>>
      /\ ~is_shutting_down /\ is_shutting_down'
  BY Zenon DEF request_shutdown, is_shutting_down
<1>2. active \in Configs
  BY Zenon DEF ReloadInv, ReloadTypes
<1>3. Agreed \in Configs => Agreed' = Agreed
  <2> SUFFICES ASSUME Agreed \in Configs PROVE Agreed' = Agreed
    BY Zenon
  <2>1. Agreed = active /\ durable = active /\ policy = active
    BY <1>2, AgreedIs, Zenon
  <2>2. QED
    BY <1>1, <1>2, <2>1, Zenon DEF Agreed
<1>4. Agreed \in Configs \cup {Mixed} /\ Agreed' \in Configs \cup {Mixed}
  BY <1>1, <1>2, AgreedIs, Zenon DEF Agreed
<1>5. Agreed' = Agreed \/ (Agreed = Mixed /\ Agreed' \in Configs)
  BY <1>3, <1>4, Zenon
<1>6. QED
  BY <1>1, <1>5, Zenon DEF Abstract!Shutdown

\* Later steps of the shutdown change nothing anybody agrees on.
LEMMA ClosingIsHidden ==
  ASSUME TakeSupervisedTasks \/ CloseAfterTasks
  PROVE  UNCHANGED Abstract!vars
<1>1. /\ UNCHANGED <<active, durable, policy, reloadPc, before, result>>
      /\ is_shutting_down /\ is_shutting_down'
  BY Zenon DEF TakeSupervisedTasks, CloseAfterTasks, reloadVars, is_shutting_down
<1>2. is_shutting_down' = is_shutting_down
  BY <1>1, Zenon DEF is_shutting_down
<1>3. Agreed' = Agreed
  BY <1>1, <1>2, AgreedStays, Zenon
<1>4. QED
  BY <1>1, <1>2, <1>3, HiddenStep, Zenon

LEMMA ReloadRefines ==
  ASSUME ReloadInv, [Next]_vars
  PROVE  [Abstract!Next]_(Abstract!vars)
<1>0. SupervisorTypes /\ OwnTasks
  BY Zenon DEF ReloadInv, ReloadTypes
<1>1. CASE \E c \in Configs : BeginReload(c)
  BY <1>1, BeginIsHidden, Zenon
<1>2. CASE ReloadStep
  BY <1>2, AbortIsReported, BeginIsHidden, StageIsStage, StagedIsHidden, CommitIsApply,
     RollbackIsUndo, FailureIsGiveUp, Zenon DEF ReloadStep, Abstract!Next
<1>3. CASE request_shutdown
  BY <1>3, ShutdownIsShutdown, Zenon DEF Abstract!Next
<1>4. CASE ShutdownStep
  <2>1. CASE JoinTask
    <3>1. UNCHANGED <<taskMap, task>> /\ UNCHANGED <<reloadVars, shutPc>>
      BY <2>1, Zenon DEF JoinTask, JoinReturns
    <3>2. active_specs' = active_specs
      BY <3>1, Zenon DEF active_specs
    <3>3. QED
      BY <3>1, <3>2, QuietIsHidden, Zenon
  <2>2. QED
    BY <1>4, <2>1, ClosingIsHidden, Zenon DEF ShutdownStep
<1>5. CASE \E i \in Tasks : TaskStep(i)
  BY <1>0, <1>5, RunTaskStep, QuietIsHidden, Zenon
<1>6. CASE Timeout
  BY <1>0, <1>6, TimeoutStep, QuietIsHidden, Zenon
<1>7. CASE UNCHANGED vars
  <2>1. UNCHANGED supervisorVars /\ UNCHANGED <<reloadVars, shutPc>>
    BY <1>7, Zenon DEF vars
  <2>2. QED
    BY <2>1, TasksAlone, QuietIsHidden, Zenon
<1>8. QED
  BY <1>1, <1>2, <1>3, <1>4, <1>5, <1>6, <1>7, Zenon DEF Next

\* For any configurations, inventories and task names: a reload implements the
\* atomic one.  The pointer, the rows, the tasks and the wire policy end with the
\* candidate or with what was in force before, wherever a step fails and wherever
\* shutdown begins, unless the reload reports CompensationFailed
\* (reload.rs: reload_owned_transaction; task_supervisor.rs: commit,
\* rollback_committed).
THEOREM ReloadIsAtomicHolds == Spec => ReloadIsAtomic
<1>1. Init => ReloadInv
  BY ReloadInitInv, Zenon
<1>2. Init => Abstract!Init
  <2> SUFFICES ASSUME Init PROVE Abstract!Init
    BY Zenon
  <2>1. /\ active = FirstConfig /\ durable = FirstConfig /\ policy = FirstConfig
        /\ reloadPc \notin Staged /\ ~is_shutting_down /\ result = "none"
    BY Zenon DEF Init, is_shutting_down, Staged
  <2>2. FirstConfig \in Configs /\ active_specs = SpecsOf[FirstConfig]
    BY ReloadInitInv, ConfigAssumption, Zenon
  <2>3. Agreed = FirstConfig
    BY <2>1, <2>2, AgreedIs, Zenon
  <2>4. QED
    BY <2>1, <2>2, <2>3, SMT DEF Abstract!Init
<1>3. ReloadInv /\ [Next]_vars => ReloadInv'
  BY ReloadInvStep, Zenon
<1>4. ReloadInv /\ [Next]_vars => [Abstract!Next]_(Abstract!vars)
  BY ReloadRefines, Zenon
<1>5. QED
  BY <1>1, <1>2, <1>3, <1>4, PTL DEF Spec, ReloadIsAtomic, Abstract!Spec

=============================================================================
