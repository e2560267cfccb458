-------------------------- MODULE TaskLifecycle_proofs --------------------------
(***************************************************************************)
(* Proofs about TaskLifecycle, for any finite set of deliveries, any ids,  *)
(* skills, types and limits, and any number of cancellations.              *)
(*                                                                         *)
(* Every step of a coroutine does one of two things to the slots: it moves *)
(* the delivery inside Holders and leaves the counters alone, or it is a   *)
(* Release.  The lemmas say this once; each invariant is then proved with  *)
(* one step per kind of action.                                            *)
(***************************************************************************)
EXTENDS TaskLifecycle, FiniteSetTheorems, TLAPS

\* The state of every variable has its type, whatever the code does next.
THEOREM TypeCorrect == Spec => []TypeOK
<1>. USE LifecycleAssumption
<1>1. Init => TypeOK
  BY DEF Init, TypeOK, Phases, Results, Reports
<1>2. TypeOK /\ [Next]_vars => TypeOK'
  <2>. SUFFICES ASSUME TypeOK, [Next]_vars PROVE TypeOK'
    OBVIOUS
  <2>. USE DEF TypeOK, Phases, Live, Results, Reports, load, bookkeeping, outside
  <2>1. CASE PollRequest
    BY <2>1 DEF PollRequest, AvailableSkills
  <2>2. CASE PollEmpty
    BY <2>2 DEF PollEmpty
  <2>3. CASE StopPolling
    BY <2>3 DEF StopPolling
  <2>4. CASE QueueWorkerEnds
    BY <2>4 DEF QueueWorkerEnds
  <2>5. ASSUME NEW d \in Deliveries, PollDelivers(d) PROVE TypeOK'
    BY <2>5 DEF PollDelivers, Occupy
  <2>6. ASSUME NEW d \in Deliveries, Step(d) PROVE TypeOK'
    <3>. USE DEF MovesTo, Decides, Resumes
    <3>1. CASE Reject(d) \/ RefuseInput(d) \/ Accept(d) \/ HandlerReturns(d)
      BY <3>1 DEF Reject, RefuseInput, Accept, HandlerReturns
    <3>2. CASE CallHandler(d)
      BY <3>2 DEF CallHandler
    <3>3. CASE Finish(d) \/ Fails(d)
      BY <3>3 DEF Finish, Fails
    <3>4. CASE Cancelled(d) \/ SwallowsCancel(d) \/ CancelledOutsideTry(d)
      BY <3>4 DEF Cancelled, SwallowsCancel, CancelledOutsideTry
    <3>5. CASE QueueResult(d)
      BY <3>5 DEF QueueResult, Release
    <3>6. CASE SendResult(d)
      BY <3>6 DEF SendResult, Release
    <3>7. CASE StartSending(d) \/ SendCrashes(d)
      BY <3>7 DEF StartSending, SendCrashes
    <3>. QED
      BY <2>6, <3>1, <3>2, <3>3, <3>4, <3>5, <3>6, <3>7 DEF Step
  <2>7. ASSUME NEW d \in Deliveries, ThreadEnds(d) PROVE TypeOK'
    BY <2>7 DEF ThreadEnds
  <2>8. ASSUME NEW i \in TaskIds, Cancel(i) PROVE TypeOK'
    BY <2>8 DEF Cancel
  <2>9. CASE UNCHANGED vars
    BY <2>9 DEF vars
  <2>. QED
    BY <2>1, <2>2, <2>3, <2>4, <2>5, <2>6, <2>7, <2>8, <2>9 DEF Next
<1>. QED
  BY <1>1, <1>2, PTL DEF Spec

-----------------------------------------------------------------------------
(* What a step does to the slots.                                          *)

\* The coroutine of d goes on, or ends without its last lines.
Moves(d) ==
  /\ phase[d] \in Live
  /\ \E p \in Live \cup {"leaked"} : phase' = [phase EXCEPT ![d] = p]
  /\ UNCHANGED bookkeeping

GivesBack(d) == phase[d] \in InFinally /\ Release(d)

\* A step of a coroutine moves it without a count, or gives its slot back.
LEMMA StepKinds ==
  ASSUME NEW d \in Deliveries, Step(d)
  PROVE  Moves(d) \/ GivesBack(d)
<1>. USE DEF Moves, GivesBack, Live, InFinally, Resumes, MovesTo, bookkeeping
<1>1. CASE Reject(d) \/ RefuseInput(d) \/ Accept(d) \/ CallHandler(d) \/ HandlerReturns(d)
  BY <1>1 DEF Reject, RefuseInput, Accept, CallHandler, HandlerReturns
<1>2. CASE Finish(d) \/ Fails(d)
  BY <1>2 DEF Finish, Fails
<1>3. CASE Cancelled(d) \/ SwallowsCancel(d) \/ CancelledOutsideTry(d)
  BY <1>3 DEF Cancelled, SwallowsCancel, CancelledOutsideTry
<1>4. CASE StartSending(d) \/ SendCrashes(d)
  BY <1>4 DEF StartSending, SendCrashes
<1>5. CASE QueueResult(d) \/ SendResult(d)
  BY <1>5 DEF QueueResult, SendResult
<1>. QED
  BY <1>1, <1>2, <1>3, <1>4, <1>5 DEF Step

\* Besides those only the delivery of a task changes a counter or a phase.
LEMMA NextKinds ==
  ASSUME [Next]_vars
  PROVE  \/ UNCHANGED <<bookkeeping, phase>>
         \/ \E d \in Deliveries : Moves(d) \/ GivesBack(d) \/ PollDelivers(d)
<1>1. CASE PollRequest \/ PollEmpty \/ StopPolling \/ QueueWorkerEnds \/ UNCHANGED vars
  BY <1>1 DEF PollRequest, PollEmpty, StopPolling, QueueWorkerEnds, vars, bookkeeping, load
<1>2. ASSUME NEW d \in Deliveries, Step(d)
      PROVE  Moves(d) \/ GivesBack(d)
  BY <1>2, StepKinds
<1>3. ASSUME NEW d \in Deliveries, ThreadEnds(d)
      PROVE  UNCHANGED <<bookkeeping, phase>>
  BY <1>3 DEF ThreadEnds
<1>4. ASSUME NEW i \in TaskIds, Cancel(i)
      PROVE  UNCHANGED <<bookkeeping, phase>>
  BY <1>4 DEF Cancel, bookkeeping
<1>. QED
  BY <1>1, <1>2, <1>3, <1>4 DEF Next

-----------------------------------------------------------------------------
(* The counters.                                                           *)

\* Those who hold slots can be counted.
LEMMA HoldersFinite ==
  /\ IsFiniteSet(Holders)
  /\ \A t \in Types : IsFiniteSet(HoldersOf(t))
<1>. Holders \in SUBSET Deliveries /\ \A t \in Types : HoldersOf(t) \in SUBSET Deliveries
  BY DEF Holders, HoldersOf
<1>. QED
  BY LifecycleAssumption, FS_Subset

\* A move leaves the holders as they are,
LEMMA MovesKeepsHolders ==
  ASSUME TypeOK, NEW d \in Deliveries, Moves(d)
  PROVE  Holders' = Holders /\ \A t \in Types : HoldersOf(t)' = HoldersOf(t)
<1>1. Holders' = Holders
  BY DEF TypeOK, Moves, Holders, Live
<1>. QED
  BY <1>1 DEF HoldersOf, HasType

\* a delivery adds one,
LEMMA OccupyAddsHolder ==
  ASSUME TypeOK, NEW d \in Deliveries, phase[d] = "unseen", Occupy(d)
  PROVE  /\ Holders' = Holders \cup {d} /\ d \notin Holders
         /\ \A t \in Types :
              HoldersOf(t)' = IF HasType(d, t) THEN HoldersOf(t) \cup {d} ELSE HoldersOf(t)
<1>1. Holders' = Holders \cup {d} /\ d \notin Holders
  BY DEF TypeOK, Occupy, Holders, Live
<1>. QED
  BY <1>1 DEF HoldersOf, HasType

\* and a release takes one away.
LEMMA ReleaseRemovesHolder ==
  ASSUME TypeOK, NEW d \in Deliveries, GivesBack(d)
  PROVE  /\ Holders' = Holders \ {d} /\ d \in Holders
         /\ \A t \in Types :
              HoldersOf(t)' = IF HasType(d, t) THEN HoldersOf(t) \ {d} ELSE HoldersOf(t)
<1>1. Holders' = Holders \ {d} /\ d \in Holders
  BY DEF TypeOK, GivesBack, Release, Holders, Live, InFinally
<1>. QED
  BY <1>1 DEF HoldersOf, HasType

\* A step of the worker keeps both counters equal to the slots they count.
LEMMA CountersStep ==
  ASSUME TypeOK, LoadAccounting, [Next]_vars
  PROVE  LoadAccounting'
<1>1. CASE UNCHANGED <<bookkeeping, phase>>
  BY <1>1 DEF LoadAccounting, Holders, HoldersOf, HasType, bookkeeping, load
<1>2. ASSUME NEW d \in Deliveries, Moves(d) PROVE LoadAccounting'
  BY <1>2, MovesKeepsHolders DEF LoadAccounting, Moves, bookkeeping, load
<1>3. ASSUME NEW d \in Deliveries, GivesBack(d) PROVE LoadAccounting'
  <2>1. currentLoad' = Cardinality(Holders')
    BY <1>3, ReleaseRemovesHolder, HoldersFinite, FS_RemoveElement
       DEF LoadAccounting, GivesBack, Release
  <2>2. ASSUME NEW t \in Types
        PROVE  currentLoadByType'[t] = Cardinality(HoldersOf(t)')
    <3>1. currentLoadByType'[t] = IF HasType(d, t) THEN Cardinality(HoldersOf(t)) - 1
                                                   ELSE Cardinality(HoldersOf(t))
      BY <1>3 DEF LoadAccounting, GivesBack, Release
    <3>2. HasType(d, t) => d \in HoldersOf(t)
      BY <1>3, ReleaseRemovesHolder DEF HoldersOf
    <3>. QED
      BY <1>3, <3>1, <3>2, ReleaseRemovesHolder, HoldersFinite, FS_RemoveElement
  <2>. QED
    BY <2>1, <2>2 DEF LoadAccounting
<1>4. ASSUME NEW d \in Deliveries, PollDelivers(d) PROVE LoadAccounting'
  <2>1. currentLoad' = Cardinality(Holders')
    <3>1. Holders' = Holders \cup {d} /\ d \notin Holders
      BY <1>4, OccupyAddsHolder DEF PollDelivers
    <3>2. Cardinality(Holders \cup {d}) = Cardinality(Holders) + 1
      BY <3>1, HoldersFinite, FS_AddElement
    <3>. QED
      BY <1>4, <3>1, <3>2 DEF LoadAccounting, PollDelivers, Occupy
  <2>2. ASSUME NEW t \in Types
        PROVE  currentLoadByType'[t] = Cardinality(HoldersOf(t)')
    <3>1. currentLoadByType'[t] = IF HasType(d, t) THEN Cardinality(HoldersOf(t)) + 1
                                                   ELSE Cardinality(HoldersOf(t))
      BY <1>4 DEF LoadAccounting, PollDelivers, Occupy
    <3>2. d \notin HoldersOf(t)
      BY <1>4, OccupyAddsHolder DEF HoldersOf, PollDelivers
    <3>. QED
      BY <1>4, <3>1, <3>2, OccupyAddsHolder, HoldersFinite, FS_AddElement DEF PollDelivers
  <2>. QED
    BY <2>1, <2>2 DEF LoadAccounting
<1>. QED
  BY <1>1, <1>2, <1>3, <1>4, NextKinds

\* The counters agree with the coroutines in every reachable state, in every
\* interleaving of polls, releases and cancellations.
THEOREM CountersCorrect == Spec => []LoadAccounting
<1>1. Init => LoadAccounting
  <2>. SUFFICES ASSUME Init PROVE LoadAccounting
    OBVIOUS
  <2>1. Holders = {} /\ \A t \in Types : HoldersOf(t) = {}
    BY DEF Init, Holders, HoldersOf, Live
  <2>. QED
    BY <2>1, FS_EmptySet DEF Init, LoadAccounting
<1>2. TypeOK /\ LoadAccounting /\ [Next]_vars => LoadAccounting'
  BY CountersStep
<1>. QED
  BY <1>1, <1>2, TypeCorrect, PTL DEF Spec

-----------------------------------------------------------------------------
(* The limits.  An offer in flight is what makes them inductive: the check *)
(* is made when the poll is sent, the count when it is answered.           *)

Limits == OfferStillGood /\ CapacityRespected

\* An offer is only ever made by PollRequest; every other step keeps or ends it.
LEMMA OfferKinds ==
  ASSUME [Next]_vars
  PROVE  PollRequest \/ offered' \in {offered, {}}
<1>1. CASE PollEmpty \/ StopPolling \/ QueueWorkerEnds \/ UNCHANGED vars
  BY <1>1 DEF PollEmpty, StopPolling, QueueWorkerEnds, vars
<1>2. ASSUME NEW d \in Deliveries, Step(d) PROVE offered' = offered
  BY <1>2 DEF Step, outside, Reject, RefuseInput, Accept, CallHandler, HandlerReturns,
     Finish, Fails, Cancelled, SwallowsCancel, CancelledOutsideTry, QueueResult,
     StartSending, SendResult, SendCrashes
<1>3. ASSUME NEW d \in Deliveries, PollDelivers(d) \/ ThreadEnds(d)
      PROVE  offered' \in {offered, {}}
  BY <1>3 DEF PollDelivers, ThreadEnds, outside
<1>4. ASSUME NEW i \in TaskIds, Cancel(i) PROVE offered' = offered
  BY <1>4 DEF Cancel
<1>. QED
  BY <1>1, <1>2, <1>3, <1>4 DEF Next

\* What the poll's answer may rely on.
LEMMA DeliveryFits ==
  ASSUME TypeOK, OfferStillGood, NEW d \in Deliveries, PollDelivers(d)
  PROVE  /\ currentLoad < MaxConcurrentTasks
         /\ \A t \in LimitedTypes : HasType(d, t) => currentLoadByType[t] < TypeLimit[t]
<1>. USE LifecycleAssumption
<1>1. currentLoad < MaxConcurrentTasks
  BY DEF OfferStillGood, AvailableSkills, PollDelivers
<1>2. ASSUME NEW t \in LimitedTypes, HasType(d, t)
      PROVE  currentLoadByType[t] < TypeLimit[t]
  <2>1. SkillOf[d] \in offered
    BY <1>2 DEF PollDelivers, HasType
  <2>. QED
    BY <1>2, <2>1 DEF OfferStillGood, AvailableSkills, HasType
<1>. QED
  BY <1>1, <1>2

\* Every step keeps the limits and what was offered available.
LEMMA LimitsStep ==
  ASSUME TypeOK, Limits, [Next]_vars
  PROVE  Limits'
<1>. USE LifecycleAssumption
<1>1. CASE PollRequest
  BY <1>1 DEF PollRequest, Limits, OfferStillGood, CapacityRespected, AvailableSkills, load
<1>2. CASE offered' \in {offered, {}}
  <2>1. CASE UNCHANGED load
    BY <1>2, <2>1 DEF Limits, OfferStillGood, CapacityRespected, AvailableSkills, load
  <2>2. ASSUME NEW d \in Deliveries, GivesBack(d) PROVE Limits'
    <3>1. /\ currentLoad' = currentLoad - 1
          /\ \A t \in Types : currentLoadByType'[t] \in
                {currentLoadByType[t], currentLoadByType[t] - 1}
      BY <2>2 DEF GivesBack, Release
    <3>2. currentLoad \in Int /\ \A t \in Types : currentLoadByType[t] \in Int
      BY DEF TypeOK
    <3>3. CapacityRespected'
      BY <3>1, <3>2 DEF Limits, CapacityRespected
    <3>4. AvailableSkills \subseteq AvailableSkills'
      BY <3>1, <3>2 DEF AvailableSkills
    <3>. QED
      BY <1>2, <3>3, <3>4 DEF Limits, OfferStillGood
  <2>3. ASSUME NEW d \in Deliveries, PollDelivers(d) PROVE Limits'
    <3>1. OfferStillGood'
      BY <2>3 DEF PollDelivers, OfferStillGood
    <3>2. CapacityRespected'
      <4>1. /\ currentLoad < MaxConcurrentTasks
            /\ \A t \in LimitedTypes : HasType(d, t) => currentLoadByType[t] < TypeLimit[t]
        BY <2>3, DeliveryFits DEF Limits
      <4>2. /\ currentLoad \in Int /\ currentLoad' = currentLoad + 1
            /\ \A t \in Types :
                 /\ currentLoadByType[t] \in Int
                 /\ currentLoadByType'[t] = IF HasType(d, t) THEN currentLoadByType[t] + 1
                                                             ELSE currentLoadByType[t]
        BY <2>3 DEF TypeOK, PollDelivers, Occupy
      <4>. QED
        BY <4>1, <4>2 DEF Limits, CapacityRespected
    <3>. QED
      BY <3>1, <3>2 DEF Limits
  <2>. QED
    BY <2>1, <2>2, <2>3, NextKinds DEF Moves, bookkeeping
<1>. QED
  BY <1>1, <1>2, OfferKinds

\* So they always hold.
LEMMA LimitsInvariant == Spec => []Limits
<1>1. Init => Limits
  BY LifecycleAssumption DEF Init, Limits, OfferStillGood, CapacityRespected
<1>2. TypeOK /\ Limits /\ [Next]_vars => Limits'
  BY LimitsStep
<1>. QED
  BY <1>1, <1>2, TypeCorrect, PTL DEF Spec

\* The worker never holds more tasks than MAX_CONCURRENT_TASKS, nor more of a type
\* than skill_type_limits allows.
THEOREM CapacityIsRespected == Spec => []CapacityRespected
<1>1. Limits => CapacityRespected
  BY DEF Limits
<1>. QED
  BY <1>1, LimitsInvariant, PTL

-----------------------------------------------------------------------------
(* The registry of active tasks.                                           *)

\* A cancel command never reaches a task whose slot was given back, and while no
\* task is delivered twice it reaches every task in progress.
THEOREM RegistryCorrect == Spec => [](RegistrySound /\ RegistryComplete)
<1>. USE LifecycleAssumption
<1>. DEFINE Registry == RegistrySound /\ RegistryComplete
<1>1. Init => Registry
  BY DEF Init, RegistrySound, RegistryComplete, Holders, Live
<1>2. TypeOK /\ Registry /\ [Next]_vars => Registry'
  <2>. SUFFICES ASSUME TypeOK, Registry, [Next]_vars PROVE Registry'
    OBVIOUS
  <2>1. CASE UNCHANGED <<bookkeeping, phase>>
    BY <2>1 DEF RegistrySound, RegistryComplete, OnlyWithItsId, Holders, bookkeeping
  <2>2. ASSUME NEW d \in Deliveries, Moves(d) PROVE Registry'
    <3>1. Holders' = Holders /\ UNCHANGED activeTasks
      BY <2>2, MovesKeepsHolders DEF Moves, bookkeeping, load
    <3>2. \A e \in Deliveries : phase'[e] = "unseen" => phase[e] = "unseen"
      BY <2>2 DEF Moves, Live, TypeOK
    <3>. QED
      BY <3>1, <3>2 DEF RegistrySound, RegistryComplete, OnlyWithItsId, Holders
  <2>3. ASSUME NEW d \in Deliveries, GivesBack(d) PROVE Registry'
    <3>1. Holders' = Holders \ {d} /\ activeTasks' = [activeTasks EXCEPT ![IdOf[d]] = NoTask]
      BY <2>3, ReleaseRemovesHolder DEF GivesBack, Release
    <3>2. RegistrySound'
      BY <3>1 DEF RegistrySound, TypeOK
    <3>3. phase[d] # "unseen" /\ phase' = [phase EXCEPT ![d] = "released"]
      BY <2>3 DEF GivesBack, Release, InFinally
    <3>4. RegistryComplete'
      BY <3>1, <3>3 DEF RegistryComplete, OnlyWithItsId, Holders, TypeOK
    <3>. QED
      BY <3>2, <3>4
  <2>4. ASSUME NEW d \in Deliveries, PollDelivers(d) PROVE Registry'
    <3>1. Holders' = Holders \cup {d} /\ activeTasks' = [activeTasks EXCEPT ![IdOf[d]] = d]
      BY <2>4, OccupyAddsHolder DEF PollDelivers, Occupy
    <3>2. RegistrySound'
      BY <3>1 DEF RegistrySound, TypeOK
    <3>3. phase[d] = "unseen" /\ phase' = [phase EXCEPT ![d] = "created"]
      BY <2>4 DEF PollDelivers, Occupy
    <3>4. RegistryComplete'
      BY <3>1, <3>3 DEF RegistryComplete, OnlyWithItsId, Holders, TypeOK
    <3>. QED
      BY <3>2, <3>4
  <2>. QED
    BY <2>1, <2>2, <2>3, <2>4, NextKinds
<1>. QED
  BY <1>1, <1>2, TypeCorrect, PTL DEF Spec

-----------------------------------------------------------------------------
(* Results.                                                                *)

\* A slot is given back exactly when the task's result was handed over.
THEOREM ReleasedIffReportedCorrect == Spec => []ReleasedIffReported
<1>1. Init => ReleasedIffReported
  BY DEF Init, ReleasedIffReported, InFinally
<1>2. TypeOK /\ ReleasedIffReported /\ [Next]_vars => ReleasedIffReported'
  <2>. SUFFICES ASSUME TypeOK, ReleasedIffReported, [Next]_vars
                PROVE  ReleasedIffReported'
    OBVIOUS
  <2>. USE DEF TypeOK, ReleasedIffReported, InFinally
  <2>1. CASE UNCHANGED <<phase, result, reported>>
    BY <2>1
  <2>2. CASE PollRequest \/ PollEmpty \/ StopPolling \/ QueueWorkerEnds \/ UNCHANGED vars
    BY <2>1, <2>2 DEF PollRequest, PollEmpty, StopPolling, QueueWorkerEnds, vars
  <2>3. ASSUME NEW d \in Deliveries, PollDelivers(d) PROVE ReleasedIffReported'
    BY <2>3 DEF PollDelivers, Occupy
  <2>4. ASSUME NEW d \in Deliveries, Step(d) PROVE ReleasedIffReported'
    <3>. USE DEF Resumes, MovesTo, Decides
    <3>1. CASE Reject(d) \/ Accept(d) \/ CallHandler(d) \/ HandlerReturns(d)
      BY <3>1 DEF Reject, Accept, CallHandler, HandlerReturns
    <3>2. CASE RefuseInput(d) \/ Fails(d) \/ Cancelled(d)
      BY <3>2 DEF RefuseInput, Fails, Cancelled
    <3>3. CASE Finish(d)
      BY <3>3 DEF Finish
    <3>4. CASE SwallowsCancel(d) \/ CancelledOutsideTry(d) \/ SendCrashes(d)
      BY <3>4 DEF SwallowsCancel, CancelledOutsideTry, SendCrashes
    <3>5. CASE StartSending(d)
      BY <3>5 DEF StartSending
    <3>6. CASE QueueResult(d)
      BY <3>6 DEF QueueResult, Release
    <3>7. CASE SendResult(d)
      BY <3>7 DEF SendResult, Release
    <3>. QED
      BY <2>4, <3>1, <3>2, <3>3, <3>4, <3>5, <3>6, <3>7 DEF Step
  <2>5. ASSUME NEW d \in Deliveries, ThreadEnds(d) PROVE ReleasedIffReported'
    BY <2>1, <2>5 DEF ThreadEnds
  <2>6. ASSUME NEW i \in TaskIds, Cancel(i) PROVE ReleasedIffReported'
    BY <2>1, <2>6 DEF Cancel
  <2>. QED
    BY <2>2, <2>3, <2>4, <2>5, <2>6 DEF Next
<1>. QED
  BY <1>1, <1>2, TypeCorrect, PTL DEF Spec

\* What makes LeakNeedsDisturbance inductive: a pending cancellation was counted,
\* and only a worker whose queue worker ended sends a result by itself.
LeakCauses ==
  /\ LeakNeedsDisturbance
  /\ cancelRequested # {} => cancels > 0
  /\ \A d \in Deliveries : phase[d] = "sending" => ~queueWorker

\* Without a rejected task, a cancellation or the end of the queue worker no slot
\* is ever lost.
THEOREM LeakNeedsDisturbanceCorrect == Spec => []LeakNeedsDisturbance
<1>1. Init => LeakCauses
  BY DEF Init, LeakCauses, LeakNeedsDisturbance
<1>2. TypeOK /\ LeakCauses /\ [Next]_vars => LeakCauses'
  <2>. SUFFICES ASSUME TypeOK, LeakCauses, [Next]_vars PROVE LeakCauses'
    OBVIOUS
  <2>. USE DEF TypeOK, LeakCauses, LeakNeedsDisturbance, outside
  <2>1. CASE PollRequest \/ PollEmpty \/ StopPolling \/ QueueWorkerEnds \/ UNCHANGED vars
    BY <2>1 DEF PollRequest, PollEmpty, StopPolling, QueueWorkerEnds, vars
  <2>2. ASSUME NEW d \in Deliveries, PollDelivers(d) PROVE LeakCauses'
    BY <2>2 DEF PollDelivers, Occupy
  <2>3. ASSUME NEW d \in Deliveries, Step(d) PROVE LeakCauses'
    <3>. USE DEF Resumes, MovesTo
    <3>1. CASE Reject(d) \/ RefuseInput(d) \/ Accept(d) \/ CallHandler(d) \/ HandlerReturns(d)
      BY <3>1 DEF Reject, RefuseInput, Accept, CallHandler, HandlerReturns
    <3>2. CASE Finish(d) \/ Fails(d)
      BY <3>2 DEF Finish, Fails
    <3>3. CASE Cancelled(d) \/ SwallowsCancel(d) \/ CancelledOutsideTry(d)
      BY <3>3 DEF Cancelled, SwallowsCancel, CancelledOutsideTry
    <3>4. CASE StartSending(d) \/ SendCrashes(d)
      BY <3>4 DEF StartSending, SendCrashes
    <3>5. CASE QueueResult(d) \/ SendResult(d)
      BY <3>5 DEF QueueResult, SendResult, Release
    <3>. QED
      BY <2>3, <3>1, <3>2, <3>3, <3>4, <3>5 DEF Step
  <2>4. ASSUME NEW d \in Deliveries, ThreadEnds(d) PROVE LeakCauses'
    BY <2>4 DEF ThreadEnds
  <2>5. ASSUME NEW i \in TaskIds, Cancel(i) PROVE LeakCauses'
    BY <2>5 DEF Cancel
  <2>. QED
    BY <2>1, <2>2, <2>3, <2>4, <2>5 DEF Next
<1>3. LeakCauses => LeakNeedsDisturbance
  BY DEF LeakCauses
<1>. QED
  BY <1>1, <1>2, <1>3, TypeCorrect, PTL DEF Spec

\* Once a task has reported, no step touches its result or runs it again.
THEOREM OutcomeIsFinalCorrect == Spec => OutcomeIsFinal
<1>. DEFINE Final == \A d \in Deliveries :
                       /\ reported[d] # "none" => reported'[d] = reported[d]
                       /\ phase[d] = "released" => phase'[d] = "released"
<1>1. TypeOK /\ ReleasedIffReported /\ [Next]_vars => Final
  <2>. SUFFICES ASSUME TypeOK, ReleasedIffReported, [Next]_vars PROVE Final
    OBVIOUS
  <2>. USE DEF TypeOK, ReleasedIffReported
  <2>1. CASE UNCHANGED <<phase, reported>>
    BY <2>1
  <2>2. CASE PollRequest \/ PollEmpty \/ StopPolling \/ QueueWorkerEnds \/ UNCHANGED vars
    BY <2>1, <2>2 DEF PollRequest, PollEmpty, StopPolling, QueueWorkerEnds, vars
  <2>3. ASSUME NEW d \in Deliveries, PollDelivers(d) PROVE Final
    BY <2>3 DEF PollDelivers, Occupy
  <2>4. ASSUME NEW d \in Deliveries, Step(d) PROVE Final
    <3>1. phase[d] # "released"
      BY <2>4, StepKinds DEF Moves, GivesBack, Live, InFinally
    <3>2. \A e \in Deliveries \ {d} : phase'[e] = phase[e]
      BY <2>4, StepKinds DEF Moves, GivesBack, Release
    <3>3. \A e \in Deliveries \ {d} : reported'[e] = reported[e]
      <4>1. CASE QueueResult(d) \/ SendResult(d)
        BY <4>1 DEF QueueResult, SendResult
      <4>2. CASE ~(QueueResult(d) \/ SendResult(d))
        BY <2>4, <4>2 DEF Step, Reject, RefuseInput, Accept, CallHandler, HandlerReturns,
             Finish, Fails, Cancelled, SwallowsCancel, CancelledOutsideTry, StartSending,
             SendCrashes
      <4>. QED
        BY <4>1, <4>2
    <3>. QED
      BY <3>1, <3>2, <3>3
  <2>5. ASSUME NEW d \in Deliveries, ThreadEnds(d) PROVE Final
    BY <2>1, <2>5 DEF ThreadEnds
  <2>6. ASSUME NEW i \in TaskIds, Cancel(i) PROVE Final
    BY <2>1, <2>6 DEF Cancel
  <2>. QED
    BY <2>2, <2>3, <2>4, <2>5, <2>6 DEF Next
<1>. QED
  BY <1>1, TypeCorrect, ReleasedIffReportedCorrect, PTL DEF Spec, OutcomeIsFinal

-----------------------------------------------------------------------------
(* Handlers in execution.                                                  *)

\* While nothing was cancelled, a thread runs only for a task that awaits it.
ThreadsAreAwaited ==
  cancels = 0 => cancelRequested = {} /\ \A d \in threads : phase[d] = "running"

\* So without cancellations every thread is awaited.
LEMMA ThreadsInvariant == Spec => []ThreadsAreAwaited
<1>1. Init => ThreadsAreAwaited
  BY DEF Init, ThreadsAreAwaited
<1>2. TypeOK /\ ThreadsAreAwaited /\ [Next]_vars => ThreadsAreAwaited'
  <2>. SUFFICES ASSUME TypeOK, ThreadsAreAwaited, [Next]_vars PROVE ThreadsAreAwaited'
    OBVIOUS
  <2>. USE DEF TypeOK, ThreadsAreAwaited, outside
  <2>1. CASE PollRequest \/ PollEmpty \/ StopPolling \/ QueueWorkerEnds \/ UNCHANGED vars
    BY <2>1 DEF PollRequest, PollEmpty, StopPolling, QueueWorkerEnds, vars
  <2>2. ASSUME NEW d \in Deliveries, PollDelivers(d) PROVE ThreadsAreAwaited'
    BY <2>2 DEF PollDelivers, Occupy
  <2>3. ASSUME NEW d \in Deliveries, Step(d) PROVE ThreadsAreAwaited'
    <3>. USE DEF Resumes, MovesTo
    <3>1. CASE Reject(d) \/ RefuseInput(d) \/ Accept(d) \/ HandlerReturns(d)
      BY <3>1 DEF Reject, RefuseInput, Accept, HandlerReturns
    <3>2. CASE CallHandler(d)
      BY <3>2 DEF CallHandler
    <3>3. CASE Finish(d) \/ Fails(d)
      BY <3>3 DEF Finish, Fails
    <3>4. CASE Cancelled(d) \/ SwallowsCancel(d) \/ CancelledOutsideTry(d)
      BY <3>4 DEF Cancelled, SwallowsCancel, CancelledOutsideTry
    <3>5. CASE StartSending(d) \/ SendCrashes(d)
      BY <3>5 DEF StartSending, SendCrashes
    <3>6. CASE QueueResult(d) \/ SendResult(d)
      BY <3>6 DEF QueueResult, SendResult, Release
    <3>. QED
      BY <2>3, <3>1, <3>2, <3>3, <3>4, <3>5, <3>6 DEF Step
  <2>4. ASSUME NEW d \in Deliveries, ThreadEnds(d) PROVE ThreadsAreAwaited'
    BY <2>4 DEF ThreadEnds
  <2>5. ASSUME NEW i \in TaskIds, Cancel(i) PROVE ThreadsAreAwaited'
    BY <2>5 DEF Cancel
  <2>. QED
    BY <2>1, <2>2, <2>3, <2>4, <2>5 DEF Next
<1>. QED
  BY <1>1, <1>2, TypeCorrect, PTL DEF Spec

\* Without cancellations no more handlers execute, threads included, than
\* MAX_CONCURRENT_TASKS: each one's task still holds a slot.
THEOREM ExecutionIsWithinLimit == Spec => []ExecutionWithinLimit
<1>1. TypeOK /\ ThreadsAreAwaited /\ LoadAccounting /\ CapacityRespected
        => ExecutionWithinLimit
  <2>. SUFFICES ASSUME TypeOK, ThreadsAreAwaited, LoadAccounting, CapacityRespected,
                       cancels = 0
                PROVE  Cardinality(Executing) <= MaxConcurrentTasks
    BY DEF ExecutionWithinLimit
  <2>1. Executing \subseteq Holders
    BY DEF ThreadsAreAwaited, Executing, Holders, Live, TypeOK
  <2>2. IsFiniteSet(Executing) /\ Cardinality(Executing) <= Cardinality(Holders)
    BY <2>1, HoldersFinite, FS_Subset
  <2>3. Cardinality(Executing) \in Nat
    BY <2>2, FS_CardinalityType
  <2>. QED
    BY <2>2, <2>3, LifecycleAssumption DEF LoadAccounting, CapacityRespected, TypeOK
<1>. QED
  BY <1>1, TypeCorrect, ThreadsInvariant, CountersCorrect, CapacityIsRespected, PTL

-----------------------------------------------------------------------------
(* The refinement.                                                         *)

\* The instance brings its own copy of Cardinality.
LEMMA SameCardinality ==
  ASSUME NEW S
  PROVE  Pool!Cardinality(S) = Cardinality(S)
BY DEF Pool!Cardinality, Cardinality

\* The slots taken in the abstract pool are those of the holders.
LEMMA TakenIsHolders ==
  ASSUME TypeOK
  PROVE  /\ Pool!Taken = Holders
         /\ \A t \in LimitedTypes :
              Pool!Taken \cap {d \in Deliveries : HasType(d, t)} = HoldersOf(t)
<1>1. Pool!Taken = Holders
  BY DEF Pool!Taken, Holders, SlotOf, TypeOK, Phases, Live
<1>. QED
  BY <1>1 DEF HoldersOf, Holders

\* The counters and the polls implement the slot pool: a delivery is accepted only
\* into a free slot of the pool and of its type, and gives it back at most once.
THEOREM ImplementsSlotPool == Spec => RefinesSlotPool
<1>. DEFINE slots == [d \in Deliveries |-> SlotOf(d)]
<1>1. Init => Pool!Init
  BY DEF Init, Pool!Init, SlotOf, Live
<1>2. TypeOK /\ LoadAccounting /\ Limits /\ [Next]_vars => [Pool!Next]_slots
  <2>. SUFFICES ASSUME TypeOK, LoadAccounting, Limits, [Next]_vars
                PROVE  Pool!Next \/ slots' = slots
    BY DEF Pool!Next
  <2>1. CASE UNCHANGED <<bookkeeping, phase>>
    BY <2>1 DEF SlotOf
  <2>2. ASSUME NEW d \in Deliveries, Moves(d)
        PROVE  Pool!Lose(d) \/ slots' = slots
    <3>1. PICK p \in Live \cup {"leaked"} : phase' = [phase EXCEPT ![d] = p]
      BY <2>2 DEF Moves
    <3>2. phase[d] \in Live
      BY <2>2 DEF Moves
    <3>3. CASE p \in Live
      BY <3>1, <3>2, <3>3 DEF SlotOf, TypeOK
    <3>4. CASE p = "leaked"
      <4>1. slots[d] = "held"
        BY <3>2 DEF SlotOf
      <4>2. ASSUME NEW e \in Deliveries
            PROVE  SlotOf(e)' = IF e = d THEN "lost" ELSE SlotOf(e)
        BY <3>1, <3>4 DEF SlotOf, TypeOK, Live
      <4>. QED
        BY <4>1, <4>2 DEF Pool!Lose
    <3>. QED
      BY <3>3, <3>4
  <2>3. ASSUME NEW d \in Deliveries, GivesBack(d) PROVE Pool!Return(d)
    <3>1. slots[d] = "held"
      BY <2>3 DEF GivesBack, SlotOf, Live, InFinally
    <3>2. ASSUME NEW e \in Deliveries
          PROVE  SlotOf(e)' = IF e = d THEN "returned" ELSE SlotOf(e)
      BY <2>3 DEF GivesBack, Release, SlotOf, TypeOK, Live
    <3>. QED
      BY <3>1, <3>2 DEF Pool!Return
  <2>4. ASSUME NEW d \in Deliveries, PollDelivers(d) PROVE Pool!Take(d)
    <3>1. slots[d] = "none" /\ slots' = [slots EXCEPT ![d] = "held"]
      <4>1. slots[d] = "none"
        BY <2>4 DEF PollDelivers, SlotOf, Live
      <4>2. ASSUME NEW e \in Deliveries
            PROVE  SlotOf(e)' = IF e = d THEN "held" ELSE SlotOf(e)
        BY <2>4 DEF PollDelivers, Occupy, SlotOf, TypeOK, Live
      <4>. QED
        BY <4>1, <4>2
    <3>2. Cardinality(Holders) < MaxConcurrentTasks
      BY <2>4, DeliveryFits DEF Limits, LoadAccounting
    <3>3. ASSUME NEW t \in LimitedTypes, HasType(d, t)
          PROVE  Cardinality(HoldersOf(t)) < TypeLimit[t]
      BY <2>4, <3>3, DeliveryFits, LifecycleAssumption DEF Limits, LoadAccounting
    <3>. QED
      BY <3>1, <3>2, <3>3, TakenIsHolders, SameCardinality DEF Pool!Take
  <2>. QED
    BY <2>1, <2>2, <2>3, <2>4, NextKinds DEF Pool!Next
<1>. QED
  BY <1>1, <1>2, TypeCorrect, CountersCorrect, LimitsInvariant, PTL
     DEF Spec, Pool!Spec, RefinesSlotPool

=============================================================================
