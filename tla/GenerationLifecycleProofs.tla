--------------------- MODULE GenerationLifecycleProofs ----------------------
(***************************************************************************)
(* What holds of GenerationLifecycle for any number of requests and        *)
(* generations.  The first part states the inductive invariant IInv, whose *)
(* conjuncts say, actor by actor, what each may rely on while the others   *)
(* run, and shows that requests and retirement tasks preserve it; the      *)
(* second part does the same for terminal jobs, for a reload that goes     *)
(* forward or is undone, and for shutdown; the last one draws the          *)
(* conclusions.                                                            *)
(***************************************************************************)
EXTENDS GenerationLifecycle, TLAPS

\* Reload phases in which the pointer has not moved yet, or has moved back.
BeforeSwap == {"prepared", "staged", "restored", "rollback", "candidate"}

\* Reload phases between commit_pointer and accept.
InSwap == {"committed", "durable"}

\* The reload transaction knows where the active pointer is.
PointerInv ==
    /\ SwapOwnsPointer
    /\ clients[active] # "Absent"
    /\ reloadPc # "idle" =>
          /\ swapOld \in Slots /\ swapNew \in Slots /\ swapOld # swapNew
          /\ clients[swapOld] # "Absent" /\ clients[swapNew] # "Absent"
    /\ reloadPc \in BeforeSwap => active = swapOld

\* The admission gate is closed while a swap is pending and during shutdown.
GateInv ==
    /\ shutdown \/ pendingSwap => admissionClosed
    /\ sawShutdown => shutdown
    /\ shutdown <=> shutPc # "running"

\* A generation that was never prepared is untouched.
FreshInv ==
    \A s \in Slots : clients[s] = "Absent" =>
        /\ closer[s] = "none"
        /\ s \notin retiring /\ retirePc[s] = "none"
        /\ \A r \in Requests : lease[r] # s /\ jobSlot[r] # s

\* Only the active slot accepts, and none does inside the swap.
AcceptInv ==
    \A s \in Slots : accepting[s] => s = active /\ reloadPc \notin InSwap

\* Before shutdown the active slot, the candidate and, inside the swap, the
\* old slot are open and no retirement touches them.
LiveInv ==
    ~shutdown =>
        /\ \A s \in Slots :
              \/ s = active
              \/ s = swapNew /\ reloadPc \in BeforeSwap
              \/ s = swapOld /\ reloadPc \in InSwap
              => clients[s] = "Open" /\ s \notin retiring /\ retirePc[s] = "none"
        /\ reloadPc \notin InSwap =>
              accepting[active] /\ slotState[active] = "Active"

\* No request and no job knows a candidate.
CandidateInv ==
    reloadPc \notin {"idle", "accepted"} =>
        \A r \in Requests : lease[r] # swapNew /\ jobSlot[r] # swapNew

\* register() runs under the lease of the slot it retains.
JobInv ==
    \A r \in Requests :
        /\ job[r] \in {"reading", "counted"} => lease[r] = jobSlot[r]
        /\ job[r] = "none" <=> jobSlot[r] = NoSlot

\* A successful report and a Closed slot mean closed provider clients.
CloseInv ==
    \A s \in Slots :
        /\ closer[s] = "none" => report[s] = "none"
        /\ report[s] = "ok" => clients[s] = "Closed"
        /\ slotState[s] = "Closed" => clients[s] = "Closed"

\* Past its first wait a retirement has no lease to fear.
RetireInv ==
    \A s \in Slots : retirePc[s] \in {"references", "drain"} =>
        \A r \in Requests : lease[r] # s

\* QuietWhenClosed, with the quantifiers over requests spelled out.
QuietInv ==
    \A s \in Slots : clients[s] = "Closed" /\ ~forced =>
        \A r \in Requests : lease[r] # s /\ (jobSlot[r] = s => job[r] = "removed")

\* What close_for_shutdown adopted and has still to close, by phase.
ShutInv ==
    /\ left \subseteq adopted
    /\ \A s \in adopted : clients[s] # "Absent"
    /\ shutCur # NoSlot => shutPc = "close" /\ shutCur \in adopted
    /\ shutPc \in {"running", "quiescing"} => ~forced
    /\ shutPc = "abort" => forced
    /\ shutPc \in {"leases", "retirements", "abort"} => left = adopted
    /\ shutPc = "done" => left = {} /\ shutCur = NoSlot

\* A graceful shutdown past its first wait has no lease to fear.
ShutLeaseInv ==
    shutPc \in {"retirements", "close", "done"} /\ ~forced =>
        \A s \in adopted : \A r \in Requests : lease[r] # s

\* Its last loop closes every adopted slot.
ShutCloseInv ==
    shutPc \in {"close", "done"} =>
        \A s \in adopted : s \in left \/ s = shutCur \/ clients[s] = "Closed"

\* A leased slot leaves Active and Retiring only by failure or by force.
LeasedInv ==
    \A r \in Requests : lease[r] # NoSlot =>
        \/ forced
        \/ slotState[lease[r]] \in {"Active", "Retiring", "FailedClose"}

IInv ==
    /\ TypeOK
    /\ PointerInv
    /\ GateInv
    /\ FreshInv
    /\ AcceptInv
    /\ LiveInv
    /\ CandidateInv
    /\ JobInv
    /\ CloseInv
    /\ RetireInv
    /\ QuietInv
    /\ ShutInv
    /\ ShutLeaseInv
    /\ ShutCloseInv
    /\ LeasedInv

\* The types as the single steps need them: functions on requests and slots.
RequestFns ==
    /\ DOMAIN reqPc = Requests /\ DOMAIN lease = Requests
    /\ DOMAIN job = Requests /\ DOMAIN jobSlot = Requests

SlotFns ==
    /\ DOMAIN accepting = Slots /\ DOMAIN slotState = Slots
    /\ DOMAIN scheduled = Slots /\ DOMAIN retirePc = Slots
    /\ DOMAIN closer = Slots /\ DOMAIN report = Slots
    /\ DOMAIN clients = Slots /\ DOMAIN lastFailure = Slots

-----------------------------------------------------------------------------


\* A step that leaves the variables of a conjunct alone preserves it: TypeOK.
LEMMA TypeFrame ==
  ASSUME TypeOK, UNCHANGED <<active, admissionClosed, pendingSwap, shutdown,
                    retiring, accepting, slotState, scheduled, retirePc,
                    closer, report, clients, lastFailure, reqPc, lease, job,
                    jobSlot, reloadPc, swapOld, swapNew, sawShutdown, shutPc,
                    adopted, left, shutCur, forced>>
  PROVE  TypeOK'
  BY SlotAssumption DEF TypeOK, RunningTask, SlotStates

\* A step that leaves the variables of a conjunct alone preserves it: PointerInv.
LEMMA PointerFrame ==
  ASSUME PointerInv, UNCHANGED <<active, pendingSwap, clients, reloadPc,
                    swapOld, swapNew>>
  PROVE  PointerInv'
  BY SlotAssumption, Zenon DEF PointerInv, BeforeSwap, SwapOwnsPointer

\* A step that leaves the variables of a conjunct alone preserves it: GateInv.
LEMMA GateFrame ==
  ASSUME GateInv, UNCHANGED <<admissionClosed, pendingSwap, shutdown,
                    sawShutdown, shutPc>>
  PROVE  GateInv'
  BY SlotAssumption, Zenon DEF GateInv

\* A step that leaves the variables of a conjunct alone preserves it: FreshInv.
LEMMA FreshFrame ==
  ASSUME FreshInv, UNCHANGED <<retiring, retirePc, closer, clients, lease,
                    jobSlot>>
  PROVE  FreshInv'
  BY SlotAssumption, Zenon DEF FreshInv

\* A step that leaves the variables of a conjunct alone preserves it: AcceptInv.
LEMMA AcceptFrame ==
  ASSUME AcceptInv, UNCHANGED <<active, accepting, reloadPc>>
  PROVE  AcceptInv'
  BY SlotAssumption, Zenon DEF AcceptInv, InSwap

\* A step that leaves the variables of a conjunct alone preserves it: LiveInv.
LEMMA LiveFrame ==
  ASSUME LiveInv, UNCHANGED <<active, shutdown, retiring, accepting,
                    slotState, retirePc, clients, reloadPc, swapOld, swapNew>>
  PROVE  LiveInv'
  BY SlotAssumption, Zenon DEF LiveInv, BeforeSwap, InSwap

\* A step that leaves the variables of a conjunct alone preserves it: CandidateInv.
LEMMA CandidateFrame ==
  ASSUME CandidateInv, UNCHANGED <<lease, jobSlot, reloadPc, swapNew>>
  PROVE  CandidateInv'
  BY SlotAssumption, Zenon DEF CandidateInv

\* A step that leaves the variables of a conjunct alone preserves it: JobInv.
LEMMA JobFrame ==
  ASSUME JobInv, UNCHANGED <<lease, job, jobSlot>>
  PROVE  JobInv'
  BY SlotAssumption, Zenon DEF JobInv

\* A step that leaves the variables of a conjunct alone preserves it: CloseInv.
LEMMA CloseFrame ==
  ASSUME CloseInv, UNCHANGED <<slotState, closer, report, clients>>
  PROVE  CloseInv'
  BY SlotAssumption, Zenon DEF CloseInv

\* A step that leaves the variables of a conjunct alone preserves it: RetireInv.
LEMMA RetireFrame ==
  ASSUME RetireInv, UNCHANGED <<retirePc, lease>>
  PROVE  RetireInv'
  BY SlotAssumption, Zenon DEF RetireInv

\* A step that leaves the variables of a conjunct alone preserves it: QuietInv.
LEMMA QuietFrame ==
  ASSUME QuietInv, UNCHANGED <<clients, lease, job, jobSlot, forced>>
  PROVE  QuietInv'
  BY SlotAssumption, Zenon DEF QuietInv

\* A step that leaves the variables of a conjunct alone preserves it: ShutInv.
LEMMA ShutFrame ==
  ASSUME ShutInv, UNCHANGED <<clients, shutPc, adopted, left, shutCur,
                    forced>>
  PROVE  ShutInv'
  BY SlotAssumption, Zenon DEF ShutInv

\* A step that leaves the variables of a conjunct alone preserves it: ShutLeaseInv.
LEMMA ShutLeaseFrame ==
  ASSUME ShutLeaseInv, UNCHANGED <<lease, shutPc, adopted, forced>>
  PROVE  ShutLeaseInv'
  BY SlotAssumption, Zenon DEF ShutLeaseInv

\* A step that leaves the variables of a conjunct alone preserves it: ShutCloseInv.
LEMMA ShutCloseFrame ==
  ASSUME ShutCloseInv, UNCHANGED <<clients, shutPc, adopted, left, shutCur>>
  PROVE  ShutCloseInv'
  BY SlotAssumption, Zenon DEF ShutCloseInv

\* A step that leaves the variables of a conjunct alone preserves it: LeasedInv.
LEMMA LeasedFrame ==
  ASSUME LeasedInv, UNCHANGED <<slotState, lease, forced>>
  PROVE  LeasedInv'
  BY SlotAssumption, Zenon DEF LeasedInv

\* The functions are total.
LEMMA Domains ==
  ASSUME TypeOK
  PROVE  RequestFns /\ SlotFns
  BY Zenon DEF TypeOK, RequestFns, SlotFns

\* A drain that succeeds leaves no job of the slot except completed ones,
\* once no request leases it.
LEMMA DrainedJobs ==
  ASSUME TypeOK, JobInv, NEW s \in Slots, DrainSucceeds(s),
         \A r \in Requests : lease[r] # s
  PROVE  \A r \in Requests : jobSlot[r] = s => job[r] = "removed"
  BY SlotAssumption DEF TypeOK, JobInv, DrainSucceeds, Jobs, JobsLocked

\* The initial state satisfies IInv.
LEMMA InitIInv ==
  Init => IInv
<1> SUFFICES ASSUME Init PROVE IInv
  OBVIOUS
<1> USE SlotAssumption DEF Init
<1>1. TypeOK
  BY ZenonT(60) DEF TypeOK, SlotStates, RunningTask
<1>2. PointerInv /\ GateInv /\ CandidateInv
  BY Zenon DEF PointerInv, SwapOwnsPointer, BeforeSwap, GateInv, CandidateInv
<1>3. FreshInv /\ JobInv /\ RetireInv
  BY Zenon DEF FreshInv, JobInv, RetireInv
<1>4. AcceptInv /\ LiveInv
  BY ZenonT(60) DEF AcceptInv, LiveInv, BeforeSwap, InSwap
<1>5. CloseInv /\ QuietInv /\ LeasedInv
  BY Zenon DEF CloseInv, QuietInv, LeasedInv
<1>6. ShutInv /\ ShutLeaseInv /\ ShutCloseInv
  BY Zenon DEF ShutInv, ShutLeaseInv, ShutCloseInv
<1> QED
  BY <1>1, <1>2, <1>3, <1>4, <1>5, <1>6, Zenon DEF IInv

\* RetireLeasesDrained preserves IInv.
LEMMA RetireLeasesDrainedPreserves ==
  ASSUME IInv, NEW s \in Slots, RetireLeasesDrained(s)
  PROVE  IInv'
<1> USE SlotAssumption DEF IInv, gateVars, slotVars, taskVars, resourceVars,
           jobVars, requestVars, reloadVars, shutVars
<1> RequestFns /\ SlotFns
  BY Domains, Zenon
<1>1. (PointerInv /\ GateInv /\ AcceptInv /\ CandidateInv /\ JobInv /\
      QuietInv /\ ShutInv /\ ShutLeaseInv /\ ShutCloseInv)'
  BY PointerFrame, GateFrame, AcceptFrame, CandidateFrame, JobFrame,
         QuietFrame, ShutFrame, ShutLeaseFrame, ShutCloseFrame, Zenon
     DEF RetireLeasesDrained
<1>2. TypeOK'
  BY DEF RetireLeasesDrained, TypeOK, RunningTask, SlotStates
<1>3. FreshInv'
  BY Zenon DEF RetireLeasesDrained, FreshInv, SlotFns
<1>4. LiveInv'
  BY DEF RetireLeasesDrained, LiveInv, SlotFns
<1>5. CloseInv'
  BY Zenon DEF RetireLeasesDrained, CloseInv, SlotFns
<1>6. RetireInv'
  BY Zenon DEF RetireLeasesDrained, RetireInv, Leases, LeasesDrained, SlotFns
<1>7. LeasedInv'
  BY DEF RetireLeasesDrained, LeasedInv, Leases, LeasesDrained, SlotFns
<1> QED
  BY <1>1, <1>2, <1>3, <1>4, <1>5, <1>6, <1>7, Zenon DEF IInv

\* RetireTimeout preserves IInv.
LEMMA RetireTimeoutPreserves ==
  ASSUME IInv, NEW s \in Slots, RetireTimeout(s)
  PROVE  IInv'
<1> USE SlotAssumption DEF IInv, gateVars, slotVars, taskVars, resourceVars,
           jobVars, requestVars, reloadVars, shutVars
<1> RequestFns /\ SlotFns
  BY Domains, Zenon
<1>1. (PointerInv /\ GateInv /\ AcceptInv /\ CandidateInv /\ JobInv /\
      QuietInv /\ ShutInv /\ ShutLeaseInv /\ ShutCloseInv)'
  BY PointerFrame, GateFrame, AcceptFrame, CandidateFrame, JobFrame,
         QuietFrame, ShutFrame, ShutLeaseFrame, ShutCloseFrame, Zenon
     DEF RetireTimeout
<1>2. TypeOK'
  BY DEF RetireTimeout, TypeOK, SlotStates
<1>3. FreshInv'
  BY Zenon DEF RetireTimeout, FreshInv, SlotFns
<1>4. LiveInv'
  BY DEF RetireTimeout, LiveInv, SlotFns
<1>5. CloseInv'
  BY Zenon DEF RetireTimeout, CloseInv, SlotFns
<1>6. RetireInv'
  BY Zenon DEF RetireTimeout, RetireInv, SlotFns
<1>7. LeasedInv'
  BY DEF RetireTimeout, LeasedInv, SlotFns
<1> QED
  BY <1>1, <1>2, <1>3, <1>4, <1>5, <1>6, <1>7, Zenon DEF IInv

\* RetireReferencesDrained preserves IInv.
LEMMA RetireReferencesDrainedPreserves ==
  ASSUME IInv, NEW s \in Slots, RetireReferencesDrained(s)
  PROVE  IInv'
<1> USE SlotAssumption DEF IInv, gateVars, slotVars, taskVars, resourceVars,
           jobVars, requestVars, reloadVars, shutVars
<1> RequestFns /\ SlotFns
  BY Domains, Zenon
<1>1. (PointerInv /\ GateInv /\ AcceptInv /\ CandidateInv /\ JobInv /\
      QuietInv /\ ShutInv /\ ShutLeaseInv /\ ShutCloseInv)'
  BY PointerFrame, GateFrame, AcceptFrame, CandidateFrame, JobFrame,
         QuietFrame, ShutFrame, ShutLeaseFrame, ShutCloseFrame, Zenon
     DEF RetireReferencesDrained
<1>2. TypeOK'
  BY DEF RetireReferencesDrained, TypeOK, CloseOwner, RunningTask, SlotStates
<1>3. FreshInv'
  BY Zenon DEF RetireReferencesDrained, FreshInv, SlotFns
<1>4. LiveInv'
  BY DEF RetireReferencesDrained, LiveInv, SlotFns
<1>5. CloseInv'
  BY Zenon DEF RetireReferencesDrained, CloseInv, CloseOwner, SlotFns
<1>6. RetireInv'
  BY Zenon DEF RetireReferencesDrained, RetireInv, SlotFns
<1>7. LeasedInv'
  BY DEF RetireReferencesDrained, RetireInv, LeasedInv, SlotFns
<1> QED
  BY <1>1, <1>2, <1>3, <1>4, <1>5, <1>6, <1>7, Zenon DEF IInv

\* RetireClose preserves IInv.
LEMMA RetireClosePreserves ==
  ASSUME IInv, NEW s \in Slots, NEW outcome \in {"ok", "failed"},
         RetireClose(s, outcome)
  PROVE  IInv'
<1> USE SlotAssumption DEF IInv, gateVars, slotVars, taskVars, resourceVars,
           jobVars, requestVars, reloadVars, shutVars
<1> RequestFns /\ SlotFns
  BY Domains, Zenon
<1>1. (GateInv /\ AcceptInv /\ CandidateInv /\ JobInv /\ ShutLeaseInv)'
  BY GateFrame, AcceptFrame, CandidateFrame, JobFrame, ShutLeaseFrame, Zenon
     DEF RetireClose
<1>2. TypeOK'
  BY DEF RetireClose, TypeOK, SlotStates
<1>3. PointerInv'
  BY DEF RetireClose, PointerInv, SwapOwnsPointer, SlotFns
<1>4. FreshInv'
  BY Zenon DEF RetireClose, FreshInv, SlotFns
<1>5. LiveInv'
  BY DEF RetireClose, LiveInv, SlotFns
<1>6. CloseInv'
  BY DEF RetireClose, TypeOK, CloseInv, CloseYields
<1>7. RetireInv'
  BY Zenon DEF RetireClose, RetireInv, SlotFns
<1>8. QuietInv'
  <2>1. \A r \in Requests : lease[r] # s
    BY Zenon DEF RetireClose, RetireInv
  <2>2. closer[s] = "retirement" /\ outcome = "ok" =>
           \A r \in Requests : jobSlot[r] = s => job[r] = "removed"
    BY <2>1, DrainedJobs, Zenon DEF RetireClose, CloseYields
  <2> QED
    BY <2>1, <2>2 DEF RetireClose, QuietInv, TypeOK
<1>9. ShutInv'
  BY DEF RetireClose, ShutInv, SlotFns
<1>10. ShutCloseInv'
  BY DEF RetireClose, ShutCloseInv, SlotFns
<1>11. LeasedInv'
  BY DEF RetireClose, RetireInv, LeasedInv, SlotFns
<1> QED
  BY <1>1, <1>2, <1>3, <1>4, <1>5, <1>6, <1>7, <1>8, <1>9, <1>10, <1>11, Zenon DEF IInv

\* The retirement task of a slot preserves IInv.
LEMMA RetireStep ==
  ASSUME IInv, NEW s \in Slots, RetireNext(s)
  PROVE  IInv'
  BY RetireLeasesDrainedPreserves, RetireTimeoutPreserves,
         RetireReferencesDrainedPreserves, RetireClosePreserves, Zenon
     DEF RetireNext

-----------------------------------------------------------------------------
(***************************************************************************)
(* Requests and the terminal jobs they register.                           *)
(***************************************************************************)

\* AcquireGranted preserves IInv.
LEMMA AcquireGrantedPreserves ==
  ASSUME IInv, NEW r \in Requests, AcquireGranted(r)
  PROVE  IInv'
<1> USE SlotAssumption DEF IInv, gateVars, slotVars, taskVars, resourceVars,
           jobVars, requestVars, reloadVars, shutVars
<1> RequestFns /\ SlotFns
  BY Domains, Zenon
<1>1. (PointerInv /\ GateInv /\ AcceptInv /\ LiveInv /\ CloseInv /\ ShutInv /\
      ShutCloseInv)'
  BY PointerFrame, GateFrame, AcceptFrame, LiveFrame, CloseFrame, ShutFrame,
         ShutCloseFrame, Zenon
     DEF AcquireGranted
<1>2. TypeOK'
  BY DEF AcquireGranted, TypeOK
<1>3. FreshInv'
  BY Zenon DEF AcquireGranted, PointerInv, FreshInv, RequestFns
<1>4. CandidateInv'
  BY DEF AcquireGranted, TypeOK, PointerInv, GateInv, CandidateInv,
         BeforeSwap, SwapOwnsPointer
<1>5. RetireInv'
  BY Zenon DEF AcquireGranted, LiveInv, RetireInv, RequestFns
<1>6. QuietInv'
  BY DEF AcquireGranted, LiveInv, QuietInv, RequestFns
<1>7. ShutLeaseInv'
  BY Zenon DEF AcquireGranted, GateInv, ShutLeaseInv, RequestFns
<1>8. LeasedInv'
  BY Zenon DEF AcquireGranted, PointerInv, GateInv, LiveInv, LeasedInv, InSwap,
         SwapOwnsPointer, RequestFns
<1>9. JobInv'
  BY Zenon DEF AcquireGranted, JobInv, RequestFns
<1> QED
  BY <1>1, <1>2, <1>3, <1>4, <1>5, <1>6, <1>7, <1>8, <1>9, Zenon DEF IInv

\* AcquireParked preserves IInv.
LEMMA AcquireParkedPreserves ==
  ASSUME IInv, NEW r \in Requests, AcquireParked(r)
  PROVE  IInv'
<1> USE SlotAssumption DEF IInv, gateVars, slotVars, taskVars, resourceVars,
           jobVars, requestVars, reloadVars, shutVars
<1> RequestFns /\ SlotFns
  BY Domains, Zenon
<1>1. (PointerInv /\ GateInv /\ FreshInv /\ AcceptInv /\ LiveInv /\
      CandidateInv /\ JobInv /\ CloseInv /\ RetireInv /\ QuietInv /\ ShutInv
      /\ ShutLeaseInv /\ ShutCloseInv /\ LeasedInv)'
  BY PointerFrame, GateFrame, FreshFrame, AcceptFrame, LiveFrame,
         CandidateFrame, JobFrame, CloseFrame, RetireFrame, QuietFrame,
         ShutFrame, ShutLeaseFrame, ShutCloseFrame, LeasedFrame, Zenon
     DEF AcquireParked
<1>2. TypeOK'
  BY DEF AcquireParked, TypeOK
<1> QED
  BY <1>1, <1>2, Zenon DEF IInv

\* AcquireRefused preserves IInv.
LEMMA AcquireRefusedPreserves ==
  ASSUME IInv, NEW r \in Requests, AcquireRefused(r)
  PROVE  IInv'
<1> USE SlotAssumption DEF IInv, gateVars, slotVars, taskVars, resourceVars,
           jobVars, requestVars, reloadVars, shutVars
<1> RequestFns /\ SlotFns
  BY Domains, Zenon
<1>1. (PointerInv /\ GateInv /\ FreshInv /\ AcceptInv /\ LiveInv /\
      CandidateInv /\ JobInv /\ CloseInv /\ RetireInv /\ QuietInv /\ ShutInv
      /\ ShutLeaseInv /\ ShutCloseInv /\ LeasedInv)'
  BY PointerFrame, GateFrame, FreshFrame, AcceptFrame, LiveFrame,
         CandidateFrame, JobFrame, CloseFrame, RetireFrame, QuietFrame,
         ShutFrame, ShutLeaseFrame, ShutCloseFrame, LeasedFrame, Zenon
     DEF AcquireRefused
<1>2. TypeOK'
  BY DEF AcquireRefused, TypeOK
<1> QED
  BY <1>1, <1>2, Zenon DEF IInv

\* ReleaseLease preserves IInv.
LEMMA ReleaseLeasePreserves ==
  ASSUME IInv, NEW r \in Requests, ReleaseLease(r)
  PROVE  IInv'
<1> USE SlotAssumption DEF IInv, gateVars, slotVars, taskVars, resourceVars,
           jobVars, requestVars, reloadVars, shutVars
<1> RequestFns /\ SlotFns
  BY Domains, Zenon
<1>1. (PointerInv /\ GateInv /\ AcceptInv /\ LiveInv /\ CloseInv /\ ShutInv /\
      ShutCloseInv)'
  BY PointerFrame, GateFrame, AcceptFrame, LiveFrame, CloseFrame, ShutFrame,
         ShutCloseFrame, Zenon
     DEF ReleaseLease
<1>2. TypeOK'
  BY DEF ReleaseLease, TypeOK
<1>3. CandidateInv'
  BY Zenon DEF ReleaseLease, PointerInv, CandidateInv, RequestFns
<1>4. (FreshInv /\ JobInv)'
  BY Zenon DEF ReleaseLease, FreshInv, JobInv, RequestFns
<1>5. (RetireInv /\ QuietInv)'
  BY Zenon DEF ReleaseLease, RetireInv, QuietInv, RequestFns
<1>6. ShutLeaseInv'
  BY DEF ReleaseLease, TypeOK, ShutLeaseInv
<1>7. LeasedInv'
  BY Zenon DEF ReleaseLease, LeasedInv, RequestFns
<1> QED
  BY <1>1, <1>2, <1>3, <1>4, <1>5, <1>6, <1>7, Zenon DEF IInv

\* RegisterReadState preserves IInv.
LEMMA RegisterReadStatePreserves ==
  ASSUME IInv, NEW r \in Requests, RegisterReadState(r)
  PROVE  IInv'
<1> USE SlotAssumption DEF IInv, gateVars, slotVars, taskVars, resourceVars,
           jobVars, requestVars, reloadVars, shutVars
<1> RequestFns /\ SlotFns
  BY Domains, Zenon
<1>1. (PointerInv /\ GateInv /\ AcceptInv /\ LiveInv /\ CloseInv /\ RetireInv
      /\ ShutInv /\ ShutLeaseInv /\ ShutCloseInv /\ LeasedInv)'
  BY PointerFrame, GateFrame, AcceptFrame, LiveFrame, CloseFrame, RetireFrame,
         ShutFrame, ShutLeaseFrame, ShutCloseFrame, LeasedFrame, Zenon
     DEF RegisterReadState
<1>2. TypeOK'
  BY DEF RegisterReadState, TypeOK
<1>3. (FreshInv /\ CandidateInv)'
  BY Zenon DEF RegisterReadState, FreshInv, CandidateInv, RequestFns
<1>4. JobInv'
  BY DEF RegisterReadState, TypeOK, JobInv
<1>5. QuietInv'
  BY Zenon DEF RegisterReadState, QuietInv, RequestFns
<1> QED
  BY <1>1, <1>2, <1>3, <1>4, <1>5, Zenon DEF IInv

\* RegisterCount preserves IInv.
LEMMA RegisterCountPreserves ==
  ASSUME IInv, NEW r \in Requests, RegisterCount(r)
  PROVE  IInv'
<1> USE SlotAssumption DEF IInv, gateVars, slotVars, taskVars, resourceVars,
           jobVars, requestVars, reloadVars, shutVars
<1> RequestFns /\ SlotFns
  BY Domains, Zenon
<1>1. (PointerInv /\ GateInv /\ FreshInv /\ AcceptInv /\ LiveInv /\
      CandidateInv /\ CloseInv /\ RetireInv /\ ShutInv /\ ShutLeaseInv /\
      ShutCloseInv /\ LeasedInv)'
  BY PointerFrame, GateFrame, FreshFrame, AcceptFrame, LiveFrame,
         CandidateFrame, CloseFrame, RetireFrame, ShutFrame, ShutLeaseFrame,
         ShutCloseFrame, LeasedFrame, Zenon
     DEF RegisterCount
<1>2. TypeOK'
  BY DEF RegisterCount, TypeOK
<1>3. (JobInv /\ QuietInv)'
  BY Zenon DEF RegisterCount, JobInv, QuietInv, RequestFns
<1> QED
  BY <1>1, <1>2, <1>3, Zenon DEF IInv

\* RegisterRecheckState preserves IInv.
LEMMA RegisterRecheckStatePreserves ==
  ASSUME IInv, NEW r \in Requests, RegisterRecheckState(r)
  PROVE  IInv'
<1> USE SlotAssumption DEF IInv, gateVars, slotVars, taskVars, resourceVars,
           jobVars, requestVars, reloadVars, shutVars
<1> RequestFns /\ SlotFns
  BY Domains, Zenon
<1>1. (PointerInv /\ GateInv /\ FreshInv /\ AcceptInv /\ LiveInv /\
      CandidateInv /\ CloseInv /\ RetireInv /\ ShutInv /\ ShutLeaseInv /\
      ShutCloseInv /\ LeasedInv)'
  BY PointerFrame, GateFrame, FreshFrame, AcceptFrame, LiveFrame,
         CandidateFrame, CloseFrame, RetireFrame, ShutFrame, ShutLeaseFrame,
         ShutCloseFrame, LeasedFrame, Zenon
     DEF RegisterRecheckState
<1>2. TypeOK'
  BY DEF RegisterRecheckState, TypeOK
<1>3. (JobInv /\ QuietInv)'
  BY Zenon DEF RegisterRecheckState, JobInv, QuietInv, RequestFns
<1> QED
  BY <1>1, <1>2, <1>3, Zenon DEF IInv

\* JobDone preserves IInv.
LEMMA JobDonePreserves ==
  ASSUME IInv, NEW r \in Requests, NEW failed \in BOOLEAN, JobDone(r, failed)
  PROVE  IInv'
<1> USE SlotAssumption DEF IInv, gateVars, slotVars, taskVars, resourceVars,
           jobVars, requestVars, reloadVars, shutVars
<1> RequestFns /\ SlotFns
  BY Domains, Zenon
<1>1. (PointerInv /\ GateInv /\ AcceptInv /\ LiveInv /\ CloseInv /\ RetireInv
      /\ ShutInv /\ ShutLeaseInv /\ ShutCloseInv /\ LeasedInv)'
  BY PointerFrame, GateFrame, AcceptFrame, LiveFrame, CloseFrame, RetireFrame,
         ShutFrame, ShutLeaseFrame, ShutCloseFrame, LeasedFrame, Zenon
     DEF JobDone
<1>2. TypeOK'
  BY DEF JobDone, TypeOK, JobInv
<1>3. CandidateInv'
  BY Zenon DEF JobDone, PointerInv, CandidateInv, RequestFns, SlotFns
<1>4. JobInv'
  BY DEF JobDone, TypeOK, JobInv
<1>5. (FreshInv /\ QuietInv)'
  BY DEF JobDone, FreshInv, QuietInv, RequestFns, SlotFns
<1> QED
  BY <1>1, <1>2, <1>3, <1>4, <1>5, Zenon DEF IInv

\* DropReference preserves IInv.
LEMMA DropReferencePreserves ==
  ASSUME IInv, NEW r \in Requests, DropReference(r)
  PROVE  IInv'
<1> USE SlotAssumption DEF IInv, gateVars, slotVars, taskVars, resourceVars,
           jobVars, requestVars, reloadVars, shutVars
<1> RequestFns /\ SlotFns
  BY Domains, Zenon
<1>1. (PointerInv /\ GateInv /\ AcceptInv /\ LiveInv /\ CloseInv /\ RetireInv
      /\ ShutInv /\ ShutLeaseInv /\ ShutCloseInv /\ LeasedInv)'
  BY PointerFrame, GateFrame, AcceptFrame, LiveFrame, CloseFrame, RetireFrame,
         ShutFrame, ShutLeaseFrame, ShutCloseFrame, LeasedFrame, Zenon
     DEF DropReference
<1>2. TypeOK'
  BY DEF DropReference, TypeOK
<1>3. CandidateInv'
  BY Zenon DEF DropReference, PointerInv, CandidateInv, RequestFns
<1>4. JobInv'
  BY DEF DropReference, TypeOK, JobInv
<1>5. QuietInv'
  BY DEF DropReference, TypeOK, QuietInv
<1>6. FreshInv'
  BY Zenon DEF DropReference, FreshInv, RequestFns
<1> QED
  BY <1>1, <1>2, <1>3, <1>4, <1>5, <1>6, Zenon DEF IInv

\* Requests and the terminal jobs they register preserve IInv.
LEMMA RequestStep ==
  ASSUME IInv, NEW r \in Requests, RequestNext(r)
  PROVE  IInv'
  BY AcquireGrantedPreserves, AcquireParkedPreserves, AcquireRefusedPreserves,
         ReleaseLeasePreserves, RegisterReadStatePreserves,
         RegisterCountPreserves, RegisterRecheckStatePreserves,
         JobDonePreserves, DropReferencePreserves, Zenon
     DEF RequestNext

(***************************************************************************)
(* A reload that goes forward.                                             *)
(***************************************************************************)

\* PrepareCandidate preserves IInv.
LEMMA PrepareCandidatePreserves ==
  ASSUME IInv, NEW s \in Slots, PrepareCandidate(s)
  PROVE  IInv'
<1> USE SlotAssumption DEF IInv, gateVars, slotVars, taskVars, resourceVars,
           jobVars, requestVars, reloadVars, shutVars
<1> RequestFns /\ SlotFns
  BY Domains, Zenon
<1>1. (GateInv /\ JobInv /\ RetireInv /\ ShutLeaseInv /\ LeasedInv)'
  BY GateFrame, JobFrame, RetireFrame, ShutLeaseFrame, LeasedFrame, Zenon
     DEF PrepareCandidate
<1>2. TypeOK'
  BY DEF PrepareCandidate, TypeOK
<1>3. PointerInv'
  BY DEF PrepareCandidate, TypeOK, PointerInv, SwapOwnsPointer
<1>4. (FreshInv /\ AcceptInv)'
  BY Zenon DEF PrepareCandidate, FreshInv, AcceptInv, InSwap, SlotFns
<1>5. LiveInv'
  BY DEF PrepareCandidate, TypeOK, FreshInv, LiveInv, InSwap
<1>6. CandidateInv'
  BY Zenon DEF PrepareCandidate, FreshInv, CandidateInv, SlotFns
<1>7. (CloseInv /\ QuietInv)'
  BY Zenon DEF PrepareCandidate, CloseInv, QuietInv, SlotFns
<1>8. (ShutInv /\ ShutCloseInv)'
  BY DEF PrepareCandidate, ShutInv, ShutCloseInv, SlotFns
<1> QED
  BY <1>1, <1>2, <1>3, <1>4, <1>5, <1>6, <1>7, <1>8, Zenon DEF IInv

\* Stage preserves IInv.
LEMMA StagePreserves ==
  ASSUME IInv, Stage
  PROVE  IInv'
<1> USE SlotAssumption DEF IInv, gateVars, slotVars, taskVars, resourceVars,
           jobVars, requestVars, reloadVars, shutVars
<1> RequestFns /\ SlotFns
  BY Domains, Zenon
<1>1. (JobInv /\ RetireInv /\ QuietInv /\ ShutInv /\ ShutLeaseInv /\
      ShutCloseInv)'
  BY JobFrame, RetireFrame, QuietFrame, ShutFrame, ShutLeaseFrame,
         ShutCloseFrame, Zenon
     DEF Stage
<1>2. TypeOK'
  BY ZenonT(60) DEF Stage, TypeOK, Reaped, SlotStates, StagedAccepting
<1>3. (PointerInv /\ GateInv)'
  BY Zenon DEF Stage, PointerInv, GateInv, BeforeSwap, SwapOwnsPointer, SlotFns
<1>4. (FreshInv /\ AcceptInv)'
  BY Zenon DEF Stage, FreshInv, AcceptInv, InSwap, Reaped, StagedAccepting, SlotFns
<1>5. LiveInv'
  BY Zenon DEF Stage, PointerInv, LiveInv, BeforeSwap, InSwap, Reaped, SlotFns
<1>6. (CandidateInv /\ CloseInv)'
  BY Zenon DEF Stage, CandidateInv, CloseInv, SlotFns
<1>7. LeasedInv'
  <2>1. /\ UNCHANGED <<lease, forced>>
        /\ \A s \in Slots : slotState'[s] = slotState[s] \/ slotState'[s] = "Active"
    BY Zenon DEF Stage, SlotFns
  <2>2. \A r \in Requests : lease[r] # NoSlot => lease[r] \in Slots
    BY Zenon DEF TypeOK
  <2> QED
    BY <2>1, <2>2, Zenon DEF LeasedInv
<1> QED
  BY <1>1, <1>2, <1>3, <1>4, <1>5, <1>6, <1>7, Zenon DEF IInv

\* CommitPointer preserves IInv.
LEMMA CommitPointerPreserves ==
  ASSUME IInv, CommitPointer
  PROVE  IInv'
<1> USE SlotAssumption DEF IInv, gateVars, slotVars, taskVars, resourceVars,
           jobVars, requestVars, reloadVars, shutVars
<1> RequestFns /\ SlotFns
  BY Domains, Zenon
<1>1. (GateInv /\ FreshInv /\ JobInv /\ RetireInv /\ QuietInv /\ ShutInv /\
      ShutLeaseInv /\ ShutCloseInv)'
  BY GateFrame, FreshFrame, JobFrame, RetireFrame, QuietFrame, ShutFrame,
         ShutLeaseFrame, ShutCloseFrame, Zenon
     DEF CommitPointer
<1>2. TypeOK'
  BY ZenonT(60) DEF CommitPointer, TypeOK, PointerInv, SlotStates,
         SwapOwnsPointer
<1>3. AcceptInv'
  BY DEF CommitPointer, TypeOK, AcceptInv
<1>4. (PointerInv /\ LiveInv)'
  BY Zenon DEF CommitPointer, PointerInv, LiveInv, BeforeSwap, InSwap,
         SwapOwnsPointer, SlotFns
<1>5. (CandidateInv /\ CloseInv)'
  BY Zenon DEF CommitPointer, CandidateInv, CloseInv, SlotFns
<1>6. LeasedInv'
  <2>1. /\ UNCHANGED <<lease, forced>>
        /\ \A s \in Slots : slotState'[s] = slotState[s] \/ slotState'[s] = "Retiring"
    BY Zenon DEF CommitPointer, SlotFns
  <2>2. \A r \in Requests : lease[r] # NoSlot => lease[r] \in Slots
    BY Zenon DEF TypeOK
  <2> QED
    BY <2>1, <2>2, Zenon DEF LeasedInv
<1> QED
  BY <1>1, <1>2, <1>3, <1>4, <1>5, <1>6, Zenon DEF IInv

\* DurableCommit preserves IInv.
LEMMA DurableCommitPreserves ==
  ASSUME IInv, DurableCommit
  PROVE  IInv'
<1> USE SlotAssumption DEF IInv, gateVars, slotVars, taskVars, resourceVars,
           jobVars, requestVars, reloadVars, shutVars
<1> RequestFns /\ SlotFns
  BY Domains, Zenon
<1>1. (GateInv /\ FreshInv /\ JobInv /\ CloseInv /\ RetireInv /\ QuietInv /\
      ShutInv /\ ShutLeaseInv /\ ShutCloseInv /\ LeasedInv)'
  BY GateFrame, FreshFrame, JobFrame, CloseFrame, RetireFrame, QuietFrame,
         ShutFrame, ShutLeaseFrame, ShutCloseFrame, LeasedFrame, Zenon
     DEF DurableCommit
<1>2. TypeOK'
  BY SMTT(60) DEF DurableCommit, TypeOK
<1>3. (PointerInv /\ AcceptInv)'
  BY Zenon DEF DurableCommit, PointerInv, AcceptInv, BeforeSwap, InSwap,
         SwapOwnsPointer
<1>4. (LiveInv /\ CandidateInv)'
  BY Zenon DEF DurableCommit, LiveInv, CandidateInv, BeforeSwap, InSwap
<1> QED
  BY <1>1, <1>2, <1>3, <1>4, Zenon DEF IInv

\* Accept preserves IInv.
LEMMA AcceptPreserves ==
  ASSUME IInv, Accept
  PROVE  IInv'
<1> USE SlotAssumption DEF IInv, gateVars, slotVars, taskVars, resourceVars,
           jobVars, requestVars, reloadVars, shutVars
<1> RequestFns /\ SlotFns
  BY Domains, Zenon
<1>1. (JobInv /\ RetireInv /\ QuietInv /\ ShutInv /\ ShutLeaseInv /\
      ShutCloseInv)'
  BY JobFrame, RetireFrame, QuietFrame, ShutFrame, ShutLeaseFrame,
         ShutCloseFrame, Zenon
     DEF Accept
<1>2. TypeOK'
  BY ZenonT(60) DEF Accept, TypeOK, PointerInv, SlotStates, Woken
<1>3. PointerInv'
  BY Zenon DEF Accept, PointerInv, BeforeSwap, SwapOwnsPointer, RequestFns, SlotFns
<1>4. GateInv'
  BY Zenon DEF Accept, GateInv, RequestFns, SlotFns
<1>5. FreshInv'
  BY Zenon DEF Accept, PointerInv, FreshInv, RequestFns, SlotFns
<1>6. AcceptInv'
  BY Zenon DEF Accept, AcceptInv, InSwap, RequestFns, SlotFns
<1>7. LiveInv'
  BY SMTT(60) DEF Accept, TypeOK, PointerInv, LiveInv, InSwap
<1>8. CandidateInv'
  BY Zenon DEF Accept, CandidateInv, RequestFns, SlotFns
<1>9. CloseInv'
  BY Zenon DEF Accept, CloseInv, RequestFns, SlotFns
<1>10. LeasedInv'
  <2>1. /\ UNCHANGED <<lease, forced>>
        /\ \A s \in Slots : slotState'[s] = slotState[s] \/ slotState'[s] = "Active"
    BY Zenon DEF Accept, SlotFns
  <2>2. \A r \in Requests : lease[r] # NoSlot => lease[r] \in Slots
    BY Zenon DEF TypeOK
  <2> QED
    BY <2>1, <2>2, Zenon DEF LeasedInv
<1> QED
  BY <1>1, <1>2, <1>3, <1>4, <1>5, <1>6, <1>7, <1>8, <1>9, <1>10, Zenon DEF IInv

\* AcceptDuringShutdown preserves IInv.
LEMMA AcceptDuringShutdownPreserves ==
  ASSUME IInv, AcceptDuringShutdown
  PROVE  IInv'
<1> USE SlotAssumption DEF IInv, gateVars, slotVars, taskVars, resourceVars,
           jobVars, requestVars, reloadVars, shutVars
<1> RequestFns /\ SlotFns
  BY Domains, Zenon
<1>1. (JobInv /\ RetireInv /\ QuietInv /\ ShutInv /\ ShutLeaseInv /\
      ShutCloseInv)'
  BY JobFrame, RetireFrame, QuietFrame, ShutFrame, ShutLeaseFrame,
         ShutCloseFrame, Zenon
     DEF AcceptDuringShutdown
<1>2. TypeOK'
  BY ZenonT(60) DEF AcceptDuringShutdown, TypeOK, PointerInv, SlotStates,
         Woken
<1>3. (PointerInv /\ GateInv)'
  BY Zenon DEF AcceptDuringShutdown, PointerInv, GateInv, BeforeSwap,
         SwapOwnsPointer, RequestFns, SlotFns
<1>4. FreshInv'
  BY Zenon DEF AcceptDuringShutdown, PointerInv, FreshInv, RequestFns, SlotFns
<1>5. (AcceptInv /\ LiveInv)'
  BY Zenon DEF AcceptDuringShutdown, AcceptInv, LiveInv, InSwap, RequestFns, SlotFns
<1>6. (CandidateInv /\ CloseInv)'
  BY Zenon DEF AcceptDuringShutdown, CandidateInv, CloseInv, RequestFns, SlotFns
<1>7. LeasedInv'
  <2>1. /\ UNCHANGED <<lease, forced>>
        /\ \A s \in Slots : slotState'[s] = slotState[s] \/ slotState'[s] = "Active"
    BY Zenon DEF AcceptDuringShutdown, SlotFns
  <2>2. \A r \in Requests : lease[r] # NoSlot => lease[r] \in Slots
    BY Zenon DEF TypeOK
  <2> QED
    BY <2>1, <2>2, Zenon DEF LeasedInv
<1> QED
  BY <1>1, <1>2, <1>3, <1>4, <1>5, <1>6, <1>7, Zenon DEF IInv

\* ScheduleRetirement preserves IInv.
LEMMA ScheduleRetirementPreserves ==
  ASSUME IInv, ScheduleRetirement
  PROVE  IInv'
<1> USE SlotAssumption DEF IInv, gateVars, slotVars, taskVars, resourceVars,
           jobVars, requestVars, reloadVars, shutVars
<1> RequestFns /\ SlotFns
  BY Domains, Zenon
<1>1. (GateInv /\ JobInv /\ CloseInv /\ QuietInv /\ ShutInv /\ ShutLeaseInv /\
      ShutCloseInv /\ LeasedInv)'
  BY GateFrame, JobFrame, CloseFrame, QuietFrame, ShutFrame, ShutLeaseFrame,
         ShutCloseFrame, LeasedFrame, Zenon
     DEF ScheduleRetirement
<1>2. TypeOK'
  BY SMTT(60) DEF ScheduleRetirement, TypeOK, PointerInv, Reaped, RunningTask
<1>3. FreshInv'
  BY Zenon DEF ScheduleRetirement, PointerInv, FreshInv, Reaped, SlotFns
<1>4. (PointerInv /\ AcceptInv)'
  BY Zenon DEF ScheduleRetirement, PointerInv, AcceptInv, BeforeSwap, InSwap,
         SwapOwnsPointer, SlotFns
<1>5. LiveInv'
  BY Zenon DEF ScheduleRetirement, PointerInv, LiveInv, InSwap, Reaped,
         SwapOwnsPointer, SlotFns
<1>6. (CandidateInv /\ RetireInv)'
  BY Zenon DEF ScheduleRetirement, CandidateInv, RetireInv, SlotFns
<1> QED
  BY <1>1, <1>2, <1>3, <1>4, <1>5, <1>6, Zenon DEF IInv

\* A reload that goes forward preserves IInv.
LEMMA ReloadForward ==
  ASSUME IInv, Stage \/ CommitPointer \/ DurableCommit \/ Accept \/
               AcceptDuringShutdown \/ ScheduleRetirement \/ (\E s \in Slots
               : PrepareCandidate(s))
  PROVE  IInv'
  BY PrepareCandidatePreserves, StagePreserves, CommitPointerPreserves,
         DurableCommitPreserves, AcceptPreserves,
         AcceptDuringShutdownPreserves, ScheduleRetirementPreserves, Zenon

(***************************************************************************)
(* A reload that is undone.                                                *)
(***************************************************************************)

\* StageRefused preserves IInv.
LEMMA StageRefusedPreserves ==
  ASSUME IInv, StageRefused
  PROVE  IInv'
<1> USE SlotAssumption DEF IInv, gateVars, slotVars, taskVars, resourceVars,
           jobVars, requestVars, reloadVars, shutVars
<1> RequestFns /\ SlotFns
  BY Domains, Zenon
<1>1. (GateInv /\ JobInv /\ CloseInv /\ RetireInv /\ QuietInv /\ ShutInv /\
      ShutLeaseInv /\ ShutCloseInv /\ LeasedInv)'
  BY GateFrame, JobFrame, CloseFrame, RetireFrame, QuietFrame, ShutFrame,
         ShutLeaseFrame, ShutCloseFrame, LeasedFrame, Zenon
     DEF StageRefused
<1>2. TypeOK'
  BY SMTT(60) DEF StageRefused, TypeOK, Reaped
<1>3. (PointerInv /\ FreshInv)'
  BY Zenon DEF StageRefused, PointerInv, FreshInv, BeforeSwap, Reaped,
         SwapOwnsPointer
<1>4. (AcceptInv /\ LiveInv)'
  BY Zenon DEF StageRefused, AcceptInv, LiveInv, BeforeSwap, InSwap, Reaped
<1>5. CandidateInv'
  BY Zenon DEF StageRefused, CandidateInv
<1> QED
  BY <1>1, <1>2, <1>3, <1>4, <1>5, Zenon DEF IInv

\* RollbackPointer preserves IInv.
LEMMA RollbackPointerPreserves ==
  ASSUME IInv, RollbackPointer
  PROVE  IInv'
<1> USE SlotAssumption DEF IInv, gateVars, slotVars, taskVars, resourceVars,
           jobVars, requestVars, reloadVars, shutVars
<1> RequestFns /\ SlotFns
  BY Domains, Zenon
<1>1. (GateInv /\ FreshInv /\ JobInv /\ RetireInv /\ QuietInv /\ ShutInv /\
      ShutLeaseInv /\ ShutCloseInv)'
  BY GateFrame, FreshFrame, JobFrame, RetireFrame, QuietFrame, ShutFrame,
         ShutLeaseFrame, ShutCloseFrame, Zenon
     DEF RollbackPointer
<1>2. TypeOK'
  BY ZenonT(60) DEF RollbackPointer, TypeOK, PointerInv, SlotStates,
         SwapOwnsPointer
<1>3. AcceptInv'
  BY SMTT(60) DEF RollbackPointer, TypeOK, AcceptInv, InSwap
<1>4. LiveInv'
  <2>1. /\ swapOld \in Slots /\ swapNew \in Slots /\ swapOld # swapNew
        /\ ~shutdown => /\ clients[swapOld] = "Open" /\ clients[swapNew] = "Open"
                        /\ swapOld \notin retiring /\ swapNew \notin retiring
                        /\ retirePc[swapOld] = "none" /\ retirePc[swapNew] = "none"
    BY Zenon DEF RollbackPointer, TypeOK, PointerInv, LiveInv, InSwap
  <2>2. active' = swapOld /\ reloadPc' = "restored"
    BY Zenon DEF RollbackPointer
  <2>3. ~shutdown => accepting'[swapOld] /\ slotState'[swapOld] = "Active"
    BY <2>1, ZenonT(60) DEF RollbackPointer, TypeOK
  <2>4. UNCHANGED <<shutdown, clients, retiring, retirePc, swapOld, swapNew>>
    BY Zenon DEF RollbackPointer
  <2> QED
    BY <2>1, <2>2, <2>3, <2>4, Zenon DEF LiveInv, BeforeSwap, InSwap
<1>5. (PointerInv /\ CandidateInv)'
  BY Zenon DEF RollbackPointer, PointerInv, CandidateInv, SwapOwnsPointer, SlotFns
<1>6. (CloseInv /\ LeasedInv)'
  <2>1. /\ UNCHANGED <<lease, forced, closer, report, clients>>
        /\ \A s \in Slots : slotState'[s] = slotState[s] \/ slotState'[s] = "Active"
    BY Zenon DEF RollbackPointer, SlotFns
  <2>2. \A r \in Requests : lease[r] # NoSlot => lease[r] \in Slots
    BY Zenon DEF TypeOK
  <2>3. LeasedInv'
    BY <2>1, <2>2, Zenon DEF LeasedInv
  <2>4. CloseInv'
    BY <2>1 DEF CloseInv
  <2> QED
    BY <2>3, <2>4, Zenon
<1> QED
  BY <1>1, <1>2, <1>3, <1>4, <1>5, <1>6, Zenon DEF IInv

\* RollbackBegin preserves IInv.
LEMMA RollbackBeginPreserves ==
  ASSUME IInv, RollbackBegin
  PROVE  IInv'
<1> USE SlotAssumption DEF IInv, gateVars, slotVars, taskVars, resourceVars,
           jobVars, requestVars, reloadVars, shutVars
<1> RequestFns /\ SlotFns
  BY Domains, Zenon
<1>1. (FreshInv /\ JobInv /\ RetireInv /\ QuietInv /\ ShutInv /\ ShutLeaseInv
      /\ ShutCloseInv)'
  BY FreshFrame, JobFrame, RetireFrame, QuietFrame, ShutFrame, ShutLeaseFrame,
         ShutCloseFrame, Zenon
     DEF RollbackBegin
<1>2. TypeOK'
  BY SMTT(60) DEF RollbackBegin, TypeOK, PointerInv, SlotStates
<1>3. (PointerInv /\ GateInv)'
  BY Zenon DEF RollbackBegin, PointerInv, GateInv, SwapOwnsPointer, SlotFns
<1>4. (AcceptInv /\ LiveInv)'
  BY SMTT(60) DEF RollbackBegin, AcceptInv, LiveInv, BeforeSwap, InSwap, SlotFns
<1>5. (CandidateInv /\ CloseInv)'
  BY Zenon DEF RollbackBegin, CandidateInv, CloseInv, SlotFns
<1>6. LeasedInv'
  <2>1. /\ UNCHANGED <<lease, forced>>
        /\ \A s \in Slots : slotState'[s] = slotState[s] \/ slotState'[s] = "Active"
    BY Zenon DEF RollbackBegin, SlotFns
  <2>2. \A r \in Requests : lease[r] # NoSlot => lease[r] \in Slots
    BY Zenon DEF TypeOK
  <2> QED
    BY <2>1, <2>2, Zenon DEF LeasedInv
<1> QED
  BY <1>1, <1>2, <1>3, <1>4, <1>5, <1>6, Zenon DEF IInv

\* RollbackFinish preserves IInv.
LEMMA RollbackFinishPreserves ==
  ASSUME IInv, RollbackFinish
  PROVE  IInv'
<1> USE SlotAssumption DEF IInv, gateVars, slotVars, taskVars, resourceVars,
           jobVars, requestVars, reloadVars, shutVars
<1> RequestFns /\ SlotFns
  BY Domains, Zenon
<1>1. (FreshInv /\ JobInv /\ CloseInv /\ RetireInv /\ QuietInv /\ ShutInv /\
      ShutLeaseInv /\ ShutCloseInv /\ LeasedInv)'
  BY FreshFrame, JobFrame, CloseFrame, RetireFrame, QuietFrame, ShutFrame,
         ShutLeaseFrame, ShutCloseFrame, LeasedFrame, Zenon
     DEF RollbackFinish, FinishGate
<1>2. TypeOK'
  BY ZenonT(60) DEF RollbackFinish, TypeOK, FinishGate, Woken
<1>3. (PointerInv /\ GateInv)'
  BY ZenonT(60) DEF RollbackFinish, PointerInv, GateInv, FinishGate,
         SwapOwnsPointer, RequestFns, SlotFns
<1>4. AcceptInv'
  BY SMTT(60) DEF RollbackFinish, TypeOK, PointerInv, AcceptInv, FinishGate, InSwap,
         SwapOwnsPointer
<1>5. LiveInv'
  BY SMTT(60) DEF RollbackFinish, TypeOK, PointerInv, GateInv, LiveInv, BeforeSwap,
         FinishGate, InSwap
<1>6. CandidateInv'
  BY Zenon DEF RollbackFinish, CandidateInv, FinishGate, RequestFns, SlotFns
<1> QED
  BY <1>1, <1>2, <1>3, <1>4, <1>5, <1>6, Zenon DEF IInv

\* CloseCandidate preserves IInv.
LEMMA CloseCandidatePreserves ==
  ASSUME IInv, CloseCandidate
  PROVE  IInv'
<1> USE SlotAssumption DEF IInv, gateVars, slotVars, taskVars, resourceVars,
           jobVars, requestVars, reloadVars, shutVars
<1> RequestFns /\ SlotFns
  BY Domains, Zenon
<1>1. (GateInv /\ JobInv /\ RetireInv /\ ShutLeaseInv /\ LeasedInv)'
  BY GateFrame, JobFrame, RetireFrame, ShutLeaseFrame, LeasedFrame, Zenon
     DEF CloseCandidate
<1>2. TypeOK'
  BY SMTT(60) DEF CloseCandidate, TypeOK, PointerInv, CloseOwner
<1>3. FreshInv'
  BY SMTT(60) DEF CloseCandidate, TypeOK, FreshInv
<1>4. (PointerInv /\ AcceptInv)'
  BY Zenon DEF CloseCandidate, PointerInv, AcceptInv, BeforeSwap, InSwap,
         SwapOwnsPointer, SlotFns
<1>5. LiveInv'
  BY Zenon DEF CloseCandidate, PointerInv, LiveInv, BeforeSwap, InSwap, SlotFns
<1>6. CloseInv'
  BY SMTT(60) DEF CloseCandidate, TypeOK, CloseInv, CloseOwner
<1>7. QuietInv'
  BY Zenon DEF CloseCandidate, CandidateInv, QuietInv, SlotFns
<1>8. (CandidateInv /\ ShutInv)'
  <2>1. /\ UNCHANGED <<slotState, adopted, left, shutPc, shutCur, forced>>
        /\ \A s \in Slots : clients'[s] = clients[s] \/ clients'[s] = "Closed"
    BY Zenon DEF CloseCandidate, SlotFns
  <2>2. adopted \in SUBSET Slots
    BY Zenon DEF TypeOK
  <2>3. ShutInv'
    BY <2>1, <2>2, Zenon DEF ShutInv
  <2>4. CandidateInv'
    BY Zenon DEF CloseCandidate, CandidateInv, SlotFns
  <2> QED
    BY <2>3, <2>4, Zenon
<1>9. ShutCloseInv'
  BY DEF CloseCandidate, ShutCloseInv, SlotFns
<1> QED
  BY <1>1, <1>2, <1>3, <1>4, <1>5, <1>6, <1>7, <1>8, <1>9, Zenon DEF IInv

\* DropStaged preserves IInv.
LEMMA DropStagedPreserves ==
  ASSUME IInv, DropStaged
  PROVE  IInv'
<1> USE SlotAssumption DEF IInv, gateVars, slotVars, taskVars, resourceVars,
           jobVars, requestVars, reloadVars, shutVars
<1> RequestFns /\ SlotFns
  BY Domains, Zenon
<1>1. (FreshInv /\ JobInv /\ CloseInv /\ RetireInv /\ QuietInv /\ ShutInv /\
      ShutLeaseInv /\ ShutCloseInv /\ LeasedInv)'
  BY FreshFrame, JobFrame, CloseFrame, RetireFrame, QuietFrame, ShutFrame,
         ShutLeaseFrame, ShutCloseFrame, LeasedFrame, Zenon
     DEF DropStaged, FinishGate
<1>2. TypeOK'
  BY ZenonT(60) DEF DropStaged, TypeOK, FinishGate, Woken
<1>3. (PointerInv /\ GateInv)'
  BY ZenonT(60) DEF DropStaged, PointerInv, GateInv, FinishGate,
         SwapOwnsPointer, RequestFns
<1>4. (AcceptInv /\ LiveInv)'
  BY Zenon DEF DropStaged, AcceptInv, LiveInv, BeforeSwap, FinishGate, InSwap,
         RequestFns
<1>5. CandidateInv'
  BY Zenon DEF DropStaged, CandidateInv, FinishGate, RequestFns
<1> QED
  BY <1>1, <1>2, <1>3, <1>4, <1>5, Zenon DEF IInv

\* A reload that is undone preserves IInv.
LEMMA ReloadUndone ==
  ASSUME IInv, StageRefused \/ RollbackPointer \/ RollbackBegin \/
               RollbackFinish \/ CloseCandidate \/ DropStaged
  PROVE  IInv'
  BY StageRefusedPreserves, RollbackPointerPreserves, RollbackBeginPreserves,
         RollbackFinishPreserves, CloseCandidatePreserves, DropStagedPreserves, Zenon

(***************************************************************************)
(* Shutdown.                                                               *)
(***************************************************************************)

\* RequestShutdown preserves IInv.
LEMMA RequestShutdownPreserves ==
  ASSUME IInv, RequestShutdown
  PROVE  IInv'
<1> USE SlotAssumption DEF IInv, gateVars, slotVars, taskVars, resourceVars,
           jobVars, requestVars, reloadVars, shutVars
<1> RequestFns /\ SlotFns
  BY Domains, Zenon
<1>1. (PointerInv /\ FreshInv /\ CandidateInv /\ JobInv /\ CloseInv /\
      RetireInv /\ QuietInv /\ LeasedInv)'
  BY PointerFrame, FreshFrame, CandidateFrame, JobFrame, CloseFrame,
         RetireFrame, QuietFrame, LeasedFrame, Zenon
     DEF RequestShutdown, CloseAdmission
<1>2. TypeOK'
  BY DEF RequestShutdown, TypeOK, CloseAdmission, Woken
<1>3. (GateInv /\ AcceptInv)'
  BY Zenon DEF RequestShutdown, GateInv, AcceptInv, CloseAdmission, RequestFns,
         SlotFns
<1>4. (LiveInv /\ ShutInv)'
  BY Zenon DEF RequestShutdown, LiveInv, ShutInv, CloseAdmission, RequestFns,
         SlotFns
<1>5. (ShutLeaseInv /\ ShutCloseInv)'
  BY Zenon DEF RequestShutdown, ShutLeaseInv, ShutCloseInv, CloseAdmission,
         RequestFns, SlotFns
<1> QED
  BY <1>1, <1>2, <1>3, <1>4, <1>5, Zenon DEF IInv

\* AdoptGenerations preserves IInv.
LEMMA AdoptGenerationsPreserves ==
  ASSUME IInv, NEW initiallyForced \in BOOLEAN,
         AdoptGenerations(initiallyForced)
  PROVE  IInv'
<1> USE SlotAssumption DEF IInv, gateVars, slotVars, taskVars, resourceVars,
           jobVars, requestVars, reloadVars, shutVars
<1> RequestFns /\ SlotFns
  BY Domains, Zenon
<1>1. (PointerInv /\ CandidateInv /\ JobInv /\ CloseInv /\ RetireInv)'
  BY PointerFrame, CandidateFrame, JobFrame, CloseFrame, RetireFrame, Zenon
     DEF AdoptGenerations, CloseAdmission
<1>2. TypeOK'
  BY DEF AdoptGenerations, TypeOK, Adoptable, CloseAdmission, Reaped, Woken
<1>3. (GateInv /\ FreshInv)'
  BY Zenon DEF AdoptGenerations, GateInv, FreshInv, CloseAdmission, Reaped,
         RequestFns, SlotFns
<1>4. (AcceptInv /\ LiveInv)'
  BY Zenon DEF AdoptGenerations, AcceptInv, LiveInv, CloseAdmission, RequestFns,
         SlotFns
<1>5. QuietInv'
  BY Zenon DEF AdoptGenerations, QuietInv, ShutInv, CloseAdmission, RequestFns,
         SlotFns
<1>6. ShutInv'
  BY Zenon DEF AdoptGenerations, TypeOK, PointerInv, FreshInv, ShutInv, Adoptable,
         CloseAdmission, Reaped
<1>7. (ShutLeaseInv /\ ShutCloseInv)'
  BY Zenon DEF AdoptGenerations, ShutLeaseInv, ShutCloseInv, CloseAdmission,
         RequestFns, SlotFns
<1>8. LeasedInv'
  BY Zenon DEF AdoptGenerations, ShutInv, LeasedInv, CloseAdmission, RequestFns,
         SlotFns
<1> QED
  BY <1>1, <1>2, <1>3, <1>4, <1>5, <1>6, <1>7, <1>8, Zenon DEF IInv

\* ShutdownLeasesDrained preserves IInv.
LEMMA ShutdownLeasesDrainedPreserves ==
  ASSUME IInv, ShutdownLeasesDrained
  PROVE  IInv'
<1> USE SlotAssumption DEF IInv, gateVars, slotVars, taskVars, resourceVars,
           jobVars, requestVars, reloadVars, shutVars
<1> RequestFns /\ SlotFns
  BY Domains, Zenon
<1>1. (PointerInv /\ FreshInv /\ AcceptInv /\ LiveInv /\ CandidateInv /\
      JobInv /\ CloseInv /\ RetireInv /\ QuietInv /\ LeasedInv)'
  BY PointerFrame, FreshFrame, AcceptFrame, LiveFrame, CandidateFrame,
         JobFrame, CloseFrame, RetireFrame, QuietFrame, LeasedFrame, Zenon
     DEF ShutdownLeasesDrained
<1>2. TypeOK'
  BY DEF ShutdownLeasesDrained, TypeOK
<1>3. (GateInv /\ ShutInv)'
  BY Zenon DEF ShutdownLeasesDrained, GateInv, ShutInv
<1>4. (ShutLeaseInv /\ ShutCloseInv)'
  BY Zenon DEF ShutdownLeasesDrained, ShutLeaseInv, ShutCloseInv, Leases,
         LeasesDrained
<1> QED
  BY <1>1, <1>2, <1>3, <1>4, Zenon DEF IInv

\* ShutdownTimeout preserves IInv.
LEMMA ShutdownTimeoutPreserves ==
  ASSUME IInv, ShutdownTimeout
  PROVE  IInv'
<1> USE SlotAssumption DEF IInv, gateVars, slotVars, taskVars, resourceVars,
           jobVars, requestVars, reloadVars, shutVars
<1> RequestFns /\ SlotFns
  BY Domains, Zenon
<1>1. (PointerInv /\ FreshInv /\ AcceptInv /\ LiveInv /\ CandidateInv /\
      JobInv /\ CloseInv /\ RetireInv)'
  BY PointerFrame, FreshFrame, AcceptFrame, LiveFrame, CandidateFrame,
         JobFrame, CloseFrame, RetireFrame, Zenon
     DEF ShutdownTimeout
<1>2. TypeOK'
  BY DEF ShutdownTimeout, TypeOK
<1>3. (GateInv /\ QuietInv)'
  BY Zenon DEF ShutdownTimeout, GateInv, QuietInv
<1>4. (ShutInv /\ ShutLeaseInv)'
  BY Zenon DEF ShutdownTimeout, ShutInv, ShutLeaseInv
<1>5. (ShutCloseInv /\ LeasedInv)'
  BY Zenon DEF ShutdownTimeout, ShutCloseInv, LeasedInv
<1> QED
  BY <1>1, <1>2, <1>3, <1>4, <1>5, Zenon DEF IInv

\* ShutdownRetirementsDrained preserves IInv.
LEMMA ShutdownRetirementsDrainedPreserves ==
  ASSUME IInv, ShutdownRetirementsDrained
  PROVE  IInv'
<1> USE SlotAssumption DEF IInv, gateVars, slotVars, taskVars, resourceVars,
           jobVars, requestVars, reloadVars, shutVars
<1> RequestFns /\ SlotFns
  BY Domains, Zenon
<1>1. (PointerInv /\ FreshInv /\ AcceptInv /\ LiveInv /\ CandidateInv /\
      JobInv /\ CloseInv /\ RetireInv /\ QuietInv /\ LeasedInv)'
  BY PointerFrame, FreshFrame, AcceptFrame, LiveFrame, CandidateFrame,
         JobFrame, CloseFrame, RetireFrame, QuietFrame, LeasedFrame, Zenon
     DEF ShutdownRetirementsDrained
<1>2. TypeOK'
  BY DEF ShutdownRetirementsDrained, TypeOK
<1>3. (GateInv /\ ShutInv)'
  BY Zenon DEF ShutdownRetirementsDrained, GateInv, ShutInv
<1>4. ShutCloseInv'
  BY Zenon DEF ShutdownRetirementsDrained, ShutInv, ShutCloseInv
<1>5. ShutLeaseInv'
  BY Zenon DEF ShutdownRetirementsDrained, ShutLeaseInv
<1> QED
  BY <1>1, <1>2, <1>3, <1>4, <1>5, Zenon DEF IInv

\* AbortRetirementTasks preserves IInv.
LEMMA AbortRetirementTasksPreserves ==
  ASSUME IInv, AbortRetirementTasks
  PROVE  IInv'
<1> USE SlotAssumption DEF IInv, gateVars, slotVars, taskVars, resourceVars,
           jobVars, requestVars, reloadVars, shutVars
<1> RequestFns /\ SlotFns
  BY Domains, Zenon
<1>1. (PointerInv /\ AcceptInv /\ CandidateInv /\ JobInv /\ CloseInv /\
      QuietInv /\ LeasedInv)'
  BY PointerFrame, AcceptFrame, CandidateFrame, JobFrame, CloseFrame,
         QuietFrame, LeasedFrame, Zenon
     DEF AbortRetirementTasks
<1>2. TypeOK'
  BY DEF AbortRetirementTasks, TypeOK
<1>3. (GateInv /\ FreshInv)'
  BY Zenon DEF AbortRetirementTasks, GateInv, FreshInv, RunningTask, SlotFns
<1>4. (LiveInv /\ RetireInv)'
  BY Zenon DEF AbortRetirementTasks, LiveInv, RetireInv, RunningTask, SlotFns
<1>5. ShutLeaseInv'
  BY Zenon DEF AbortRetirementTasks, ShutInv, ShutLeaseInv, SlotFns
<1>6. ShutCloseInv'
  BY Zenon DEF AbortRetirementTasks, ShutInv, ShutCloseInv, SlotFns
<1>7. ShutInv'
  BY Zenon DEF AbortRetirementTasks, ShutInv, SlotFns
<1> QED
  BY <1>1, <1>2, <1>3, <1>4, <1>5, <1>6, <1>7, Zenon DEF IInv

\* ShutdownSkipsClosed preserves IInv.
LEMMA ShutdownSkipsClosedPreserves ==
  ASSUME IInv, NEW s \in Slots, ShutdownSkipsClosed(s)
  PROVE  IInv'
<1> USE SlotAssumption DEF IInv, gateVars, slotVars, taskVars, resourceVars,
           jobVars, requestVars, reloadVars, shutVars
<1> RequestFns /\ SlotFns
  BY Domains, Zenon
<1>1. (PointerInv /\ GateInv /\ FreshInv /\ AcceptInv /\ LiveInv /\
      CandidateInv /\ JobInv /\ CloseInv /\ RetireInv /\ QuietInv /\
      ShutLeaseInv /\ LeasedInv)'
  BY PointerFrame, GateFrame, FreshFrame, AcceptFrame, LiveFrame,
         CandidateFrame, JobFrame, CloseFrame, RetireFrame, QuietFrame,
         ShutLeaseFrame, LeasedFrame, Zenon
     DEF ShutdownSkipsClosed
<1>2. TypeOK'
  BY DEF ShutdownSkipsClosed, TypeOK
<1>3. ShutCloseInv'
  BY Zenon DEF ShutdownSkipsClosed, CloseInv, ShutCloseInv, AlreadyClosed
<1>4. ShutInv'
  BY Zenon DEF ShutdownSkipsClosed, ShutInv
<1> QED
  BY <1>1, <1>2, <1>3, <1>4, Zenon DEF IInv

\* ShutdownCloseBegin preserves IInv.
LEMMA ShutdownCloseBeginPreserves ==
  ASSUME IInv, NEW s \in Slots, ShutdownCloseBegin(s)
  PROVE  IInv'
<1> USE SlotAssumption DEF IInv, gateVars, slotVars, taskVars, resourceVars,
           jobVars, requestVars, reloadVars, shutVars
<1> RequestFns /\ SlotFns
  BY Domains, Zenon
<1>1. (PointerInv /\ GateInv /\ AcceptInv /\ CandidateInv /\ JobInv /\
      RetireInv /\ QuietInv /\ ShutLeaseInv)'
  BY PointerFrame, GateFrame, AcceptFrame, CandidateFrame, JobFrame,
         RetireFrame, QuietFrame, ShutLeaseFrame, Zenon
     DEF ShutdownCloseBegin
<1>2. TypeOK'
  BY DEF ShutdownCloseBegin, TypeOK, CloseOwner, SlotStates
<1>3. FreshInv'
  BY Zenon DEF ShutdownCloseBegin, FreshInv, ShutInv, SlotFns
<1>4. LiveInv'
  BY Zenon DEF ShutdownCloseBegin, GateInv, LiveInv, SlotFns
<1>5. (CloseInv /\ ShutInv)'
  BY Zenon DEF ShutdownCloseBegin, CloseInv, ShutInv, CloseOwner, SlotFns
<1>6. ShutCloseInv'
  BY DEF ShutdownCloseBegin, TypeOK, ShutCloseInv
<1>7. LeasedInv'
  <2>1. s \in adopted /\ shutPc = "close"
    BY Zenon DEF ShutdownCloseBegin, ShutInv
  <2>2. ~forced => \A r \in Requests : lease[r] # s
    BY <2>1, Zenon DEF ShutLeaseInv
  <2>3. slotState' = [slotState EXCEPT ![s] = "Closing"] /\ UNCHANGED <<lease, forced>>
    BY Zenon DEF ShutdownCloseBegin
  <2> HIDE DEF IInv
  <2> QED
    BY <2>2, <2>3, SMTT(60) DEF IInv, LeasedInv, SlotFns
<1> QED
  BY <1>1, <1>2, <1>3, <1>4, <1>5, <1>6, <1>7, Zenon DEF IInv

\* ShutdownCloseEnd preserves IInv.
LEMMA ShutdownCloseEndPreserves ==
  ASSUME IInv, NEW outcome \in {"ok", "failed"}, ShutdownCloseEnd(outcome)
  PROVE  IInv'
<1> USE SlotAssumption DEF IInv, gateVars, slotVars, taskVars, resourceVars,
           jobVars, requestVars, reloadVars, shutVars
<1> RequestFns /\ SlotFns
  BY Domains, Zenon
<1>1. (GateInv /\ AcceptInv /\ CandidateInv /\ JobInv /\ RetireInv)'
  BY GateFrame, AcceptFrame, CandidateFrame, JobFrame, RetireFrame, Zenon
     DEF ShutdownCloseEnd
<1>2. TypeOK'
  <2>1. /\ report' \in [Slots -> {"none", "ok", "failed"}]
        /\ clients' \in [Slots -> {"Absent", "Open", "Closed"}]
        /\ slotState' \in [Slots -> SlotStates]
    BY DEF ShutdownCloseEnd, TypeOK, SlotStates
  <2>2. forced' \in BOOLEAN /\ shutCur' \in Slots \union {NoSlot}
    BY Zenon DEF ShutdownCloseEnd, TypeOK
  <2>3. lastFailure' \in [Slots -> BOOLEAN]
    BY Zenon DEF ShutdownCloseEnd, TypeOK
  <2>4. /\ active' \in Slots /\ retiring' \in SUBSET Slots
        /\ admissionClosed' \in BOOLEAN /\ pendingSwap' \in BOOLEAN /\ shutdown' \in BOOLEAN
        /\ accepting' \in [Slots -> BOOLEAN] /\ scheduled' \in [Slots -> BOOLEAN]
    BY Zenon DEF ShutdownCloseEnd, TypeOK
  <2>5. UNCHANGED <<retirePc, closer, reqPc, lease, job, jobSlot, reloadPc,
                    swapOld, swapNew, sawShutdown, shutPc, adopted, left>>
    BY Zenon DEF ShutdownCloseEnd
  <2> QED
    BY <2>1, <2>2, <2>3, <2>4, <2>5, ZenonT(60) DEF TypeOK
<1>3. PointerInv'
  <2>1. /\ UNCHANGED <<active, reloadPc, swapOld, swapNew, pendingSwap>>
        /\ \A s \in Slots : clients'[s] = clients[s] \/ clients'[s] = "Closed"
    BY Zenon DEF ShutdownCloseEnd, SlotFns
  <2>2. active \in Slots
    BY Zenon DEF TypeOK
  <2> QED
    BY <2>1, <2>2, Zenon DEF PointerInv, SwapOwnsPointer
<1>4. FreshInv'
  BY Zenon DEF ShutdownCloseEnd, FreshInv, SlotFns
<1>5. LiveInv'
  BY Zenon DEF ShutdownCloseEnd, GateInv, LiveInv, ShutInv, SlotFns
<1>6. CloseInv'
  BY DEF ShutdownCloseEnd, TypeOK, CloseInv, CloseYields
<1>7. QuietInv'
  <2>1. shutCur \in Slots /\ (~forced => \A r \in Requests : lease[r] # shutCur)
    BY Zenon DEF ShutdownCloseEnd, ShutInv, ShutLeaseInv, TypeOK
  <2>2. CASE forced'
    BY <2>2, Zenon DEF QuietInv
  <2>3. CASE ~forced'
    <3>1. ~forced /\ outcome = "ok"
      BY <2>3, ZenonT(60) DEF ShutdownCloseEnd, TypeOK
    <3>2. clients[shutCur] = "Closed" \/ DrainSucceeds(shutCur)
      BY <2>1, <3>1, Zenon DEF ShutdownCloseEnd, CloseYields, CloseInv
    <3>3. \A r \in Requests : jobSlot[r] = shutCur => job[r] = "removed"
      BY <2>1, <3>1, <3>2, DrainedJobs, Zenon DEF QuietInv
    <3>4. /\ UNCHANGED <<lease, job, jobSlot>>
          /\ \A s \in Slots : s # shutCur => clients'[s] = clients[s]
      BY Zenon DEF ShutdownCloseEnd, SlotFns
    <3> QED
      BY <2>1, <3>1, <3>3, <3>4, Zenon DEF QuietInv
  <2> QED
    BY <2>2, <2>3, Zenon
<1>8. ShutInv'
  <2>1. shutCur \in adopted /\ shutPc = "close"
    BY Zenon DEF ShutdownCloseEnd, ShutInv
  <2>2. /\ clients' = [clients EXCEPT ![shutCur] = "Closed"]
        /\ UNCHANGED <<shutPc, adopted, left>> /\ shutCur' = NoSlot
    BY Zenon DEF ShutdownCloseEnd
  <2>3. shutPc' = "close"
    BY <2>1, <2>2, Zenon
  <2>4. \A s \in adopted : clients'[s] # "Absent"
    BY <2>1, <2>2 DEF ShutInv, SlotFns
  <2> QED
    BY <2>1, <2>2, <2>3, <2>4, Zenon DEF ShutInv
<1>9. ShutLeaseInv'
  BY ZenonT(60) DEF ShutdownCloseEnd, ShutLeaseInv, SlotFns
<1>10. ShutCloseInv'
  BY DEF ShutdownCloseEnd, TypeOK, ShutCloseInv
<1>11. LeasedInv'
  <2>1. shutCur \in adopted /\ shutPc = "close"
    BY Zenon DEF ShutdownCloseEnd, ShutInv
  <2>2. ~forced => \A r \in Requests : lease[r] # shutCur
    BY <2>1, Zenon DEF ShutLeaseInv
  <2>3. /\ lease' = lease
        /\ forced => forced'
        /\ \A s \in Slots : s # shutCur => slotState'[s] = slotState[s]
    BY Zenon DEF ShutdownCloseEnd, SlotFns
  <2>4. \A r \in Requests : lease[r] \in Slots \/ lease[r] = NoSlot
    BY Zenon DEF TypeOK
  <2> QED
    BY <2>2, <2>3, <2>4, Zenon DEF LeasedInv
<1> QED
  BY <1>1, <1>2, <1>3, <1>4, <1>5, <1>6, <1>7, <1>8, <1>9, <1>10, <1>11, Zenon DEF IInv

\* ShutdownDone preserves IInv.
LEMMA ShutdownDonePreserves ==
  ASSUME IInv, ShutdownDone
  PROVE  IInv'
<1> USE SlotAssumption DEF IInv, gateVars, slotVars, taskVars, resourceVars,
           jobVars, requestVars, reloadVars, shutVars
<1> RequestFns /\ SlotFns
  BY Domains, Zenon
<1>1. (PointerInv /\ FreshInv /\ AcceptInv /\ LiveInv /\ CandidateInv /\
      JobInv /\ CloseInv /\ RetireInv /\ QuietInv /\ LeasedInv)'
  BY PointerFrame, FreshFrame, AcceptFrame, LiveFrame, CandidateFrame,
         JobFrame, CloseFrame, RetireFrame, QuietFrame, LeasedFrame, Zenon
     DEF ShutdownDone
<1>2. TypeOK'
  BY DEF ShutdownDone, TypeOK
<1>3. (GateInv /\ ShutInv)'
  BY Zenon DEF ShutdownDone, GateInv, ShutInv
<1>4. (ShutLeaseInv /\ ShutCloseInv)'
  BY Zenon DEF ShutdownDone, ShutLeaseInv, ShutCloseInv
<1> QED
  BY <1>1, <1>2, <1>3, <1>4, Zenon DEF IInv

\* Shutdown preserves IInv.
LEMMA ShutdownStepInv ==
  ASSUME IInv, RequestShutdown \/ ShutdownStep
  PROVE  IInv'
  BY RequestShutdownPreserves, AdoptGenerationsPreserves,
         ShutdownLeasesDrainedPreserves, ShutdownTimeoutPreserves,
         ShutdownRetirementsDrainedPreserves, AbortRetirementTasksPreserves,
         ShutdownSkipsClosedPreserves, ShutdownCloseBeginPreserves,
         ShutdownCloseEndPreserves, ShutdownDonePreserves, Zenon
     DEF ShutdownStep

-----------------------------------------------------------------------------
\* IInv is inductive: every step of every actor, and a stuttering step,
\* preserves it.
LEMMA NextIInv ==
  IInv /\ [Next]_vars => IInv'
<1> SUFFICES ASSUME IInv, [Next]_vars PROVE IInv'
  OBVIOUS
<1>1. CASE UNCHANGED vars
  <2>1. UNCHANGED <<active, admissionClosed, pendingSwap, shutdown, retiring,
                    accepting, slotState, scheduled, retirePc, closer, report,
                    clients, lastFailure, reqPc, lease, job, jobSlot,
                    reloadPc, swapOld, swapNew, sawShutdown, shutPc, adopted,
                    left, shutCur, forced>>
    BY <1>1, Zenon DEF vars, gateVars, slotVars, taskVars, resourceVars, jobVars,
               requestVars, reloadVars, shutVars
  <2> QED
    BY <2>1, TypeFrame, PointerFrame, GateFrame, FreshFrame, AcceptFrame,
           LiveFrame, CandidateFrame, JobFrame, CloseFrame, RetireFrame,
           QuietFrame, ShutFrame, ShutLeaseFrame, ShutCloseFrame, LeasedFrame, Zenon DEF IInv
<1>2. CASE \E r \in Requests : RequestNext(r)
  BY <1>2, RequestStep, Zenon
<1>3. CASE \E s \in Slots : RetireNext(s)
  BY <1>3, RetireStep, Zenon
<1>4. CASE ReloadNext
  BY <1>4, ReloadForward, ReloadUndone, Zenon DEF ReloadNext, ReloadStep
<1>5. CASE RequestShutdown \/ ShutdownStep
  BY <1>5, ShutdownStepInv, Zenon
<1>6. CASE Exited
  BY <1>1, <1>6, Zenon DEF Exited
<1> QED
  BY <1>1, <1>2, <1>3, <1>4, <1>5, <1>6, Zenon DEF Next

\* IInv holds in every reachable state.
THEOREM Inductive ==
  Spec => []IInv
  BY InitIInv, NextIInv, PTL DEF Spec

\* Every variable of the manager, the reload, the retirements and the
\* shutdown keeps its type, for any number of requests and generations.
THEOREM TypeCorrect ==
  Spec => []TypeOK
<1>1. IInv => TypeOK
  BY Zenon DEF IInv
<1> QED
  BY <1>1, Inductive, PTL

\* For any number of requests and reloads, a generation's provider clients
\* are closed only when nothing uses them, unless shutdown is forced.
THEOREM QuietWhenClosedHolds ==
  Spec => []QuietWhenClosed
<1>1. IInv => QuietWhenClosed
  BY DEF IInv, TypeOK, QuietInv, QuietWhenClosed, Leases, Jobs, JobsLocked
<1> QED
  BY <1>1, Inductive, PTL

\* acquire() behind an open gate always finds an accepting, live generation.
THEOREM OpenGateServesHolds ==
  Spec => []OpenGateServes
<1>1. IInv => OpenGateServes
  BY Zenon DEF IInv, TypeOK, PointerInv, GateInv, LiveInv, InSwap, OpenGateServes,
     SwapOwnsPointer
<1> QED
  BY <1>1, Inductive, PTL

\* No request sees a reload's candidate before the reload is durable.
THEOREM CandidateIsInvisibleHolds ==
  Spec => []CandidateIsInvisible
<1>1. IInv => CandidateIsInvisible
  BY DEF IInv, TypeOK, PointerInv, AcceptInv, CandidateInv, CandidateIsInvisible,
     SwapOwnsPointer, BeforeSwap, InSwap, Leases, Jobs
<1> QED
  BY <1>1, Inductive, PTL

\* A staged swap always finds the pointer where it left it, so fail_closed
\* is unreachable.
THEOREM SwapOwnsPointerHolds ==
  Spec => []SwapOwnsPointer
<1>1. IInv => SwapOwnsPointer
  BY Zenon DEF IInv, PointerInv
<1> QED
  BY <1>1, Inductive, PTL

\* Whatever close_for_shutdown adopted is closed when it returns.
THEOREM AdoptedAreClosedHolds ==
  Spec => []AdoptedAreClosed
<1>1. IInv => AdoptedAreClosed
  BY SlotAssumption DEF IInv, TypeOK, ShutInv, ShutCloseInv, AdoptedAreClosed
<1> QED
  BY <1>1, Inductive, PTL

\* Only register() starts a terminal job.
LEMMA OthersStartNoJob ==
  ASSUME [Next]_vars, ~ \E q \in Requests : RequestNext(q)
  PROVE  UNCHANGED job
<1> USE DEF vars, gateVars, slotVars, taskVars, resourceVars, jobVars,
            requestVars, reloadVars, shutVars
<1>1. CASE \E s \in Slots : RetireNext(s)
  BY <1>1, Zenon DEF RetireNext, RetireLeasesDrained, RetireTimeout,
     RetireReferencesDrained, RetireClose
<1>2. CASE ReloadNext
  BY <1>2, ZenonT(60) DEF ReloadNext, ReloadStep, PrepareCandidate, Stage, StageRefused,
     CommitPointer, DurableCommit, RollbackPointer, RollbackBegin,
     RollbackFinish, CloseCandidate, DropStaged, Accept, AcceptDuringShutdown,
     ScheduleRetirement
<1>3. CASE RequestShutdown \/ ShutdownStep
  BY <1>3, Zenon DEF RequestShutdown, ShutdownStep, AdoptGenerations,
     ShutdownLeasesDrained, ShutdownTimeout, ShutdownRetirementsDrained,
     AbortRetirementTasks, ShutdownSkipsClosed, ShutdownCloseBegin,
     ShutdownCloseEnd, ShutdownDone
<1>4. CASE Exited \/ UNCHANGED vars
  BY <1>4, Zenon DEF Exited
<1> QED
  BY <1>1, <1>2, <1>3, <1>4, Zenon DEF Next

\* register() runs a terminal job without a generation reference only on a
\* slot whose retirement failed, or under a forced shutdown.
THEOREM UnreferencedOnlyAfterFailureHolds ==
  Spec => UnreferencedOnlyAfterFailure
<1> DEFINE Starts(r) == job[r] # "bare" /\ job'[r] = "bare"
           Excused(r) == forced \/ slotState[jobSlot'[r]] = "FailedClose"
<1>1. ASSUME IInv, [Next]_vars
      PROVE  \A r \in Requests : Starts(r) => Excused(r)
  <2> SUFFICES ASSUME NEW r \in Requests, Starts(r) PROVE Excused(r)
    OBVIOUS
  <2>0. RequestFns
    BY <1>1, Domains, Zenon DEF IInv
  <2>1. PICK q \in Requests : RequestNext(q)
    BY <1>1, OthersStartNoJob, Zenon
  <2>2. CASE RegisterReadState(q)
    BY <1>1, <2>2, ZenonT(60)
       DEF RegisterReadState, IInv, TypeOK, LeasedInv, Rejecting, RequestFns
  <2>3. CASE RegisterRecheckState(q)
    <3>1. r = q /\ jobSlot'[r] = lease[r] /\ lease[r] # NoSlot
      BY <1>1, <2>0, <2>3, Zenon DEF RegisterRecheckState, IInv, JobInv, RequestFns
    <3>2. slotState[lease[r]] \in Rejecting
      BY <1>1, <2>0, <2>3, <3>1, Zenon DEF RegisterRecheckState, IInv, JobInv, RequestFns
    <3>3. forced \/ slotState[lease[r]] \in {"Active", "Retiring", "FailedClose"}
      BY <1>1, <3>1, Zenon DEF IInv, LeasedInv
    <3> QED
      BY <3>1, <3>2, <3>3 DEF Rejecting
  <2>4. CASE RegisterCount(q) \/ DropReference(q) \/ \E failed \in BOOLEAN : JobDone(q, failed)
    <3>1. \A x \in Requests : job'[x] = job[x] \/ job'[x] \in {"counted", "none", "removed"}
      <4>1. CASE RegisterCount(q) \/ DropReference(q)
        BY <2>0, <4>1, Zenon DEF RegisterCount, DropReference, RequestFns
      <4>2. ASSUME NEW failed \in BOOLEAN, JobDone(q, failed)
            PROVE  job' = [job EXCEPT ![q] = IF job[q] = "held" THEN "removed" ELSE "none"]
        BY <4>2, Zenon DEF JobDone
      <4> QED
        BY <2>0, <2>4, <4>1, <4>2, Zenon DEF RequestFns
    <3> QED
      BY <3>1, Zenon
  <2>5. CASE AcquireGranted(q) \/ AcquireParked(q) \/ AcquireRefused(q) \/ ReleaseLease(q)
    BY <2>5, Zenon DEF AcquireGranted, AcquireParked, AcquireRefused, ReleaseLease, jobVars
  <2> QED
    BY <2>1, <2>2, <2>3, <2>4, <2>5, Zenon DEF RequestNext
<1> QED
  BY <1>1, Inductive, PTL DEF Spec, UnreferencedOnlyAfterFailure
=============================================================================
