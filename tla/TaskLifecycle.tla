------------------------------ MODULE TaskLifecycle ------------------------------
(***************************************************************************)
(* The life of the tasks of one Worker, from the poll that receives a task *)
(* to the release of its slot: _poll_for_tasks_with_status, _process_task  *)
(* and the bookkeeping they share (_current_load, _current_load_by_type,   *)
(* _active_tasks).                                                         *)
(*                                                                         *)
(* The worker is one asyncio event loop, so an action is what a coroutine  *)
(* does between two awaits.  What runs outside the loop is the thread of a *)
(* synchronous handler (to_thread), which outlives the coroutine that      *)
(* waits for it when that coroutine is cancelled.                          *)
(*                                                                         *)
(* A delivery is one task handed over by one poll.  Two deliveries may     *)
(* carry the same task id (an orchestrator that delivers a task again).    *)
(***************************************************************************)
EXTENDS Integers, FiniteSets

CONSTANTS Deliveries,          \* the tasks polls may return
          TaskIds, IdOf,       \* IdOf[d]: the task_id delivery d carries
          Skills, SkillOf,     \* SkillOf[d]: the skill d asks for
          Unsupported,         \* a skill name no handler is registered for
          Types, TypeOf,       \* TypeOf[s]: the type skill s counts against
          LimitedTypes,        \* the keys of skill_type_limits
          TypeLimit,           \* and their values
          SyncSkills,          \* skills whose handler is a plain function
          Forbidden,           \* deliveries the signature or the policy check refuses
          MaxConcurrentTasks,
          MaxCancels,          \* BOUND: how many cancel() calls a behaviour may have
          NoTask               \* "this id is not in _active_tasks"

ASSUME LifecycleAssumption ==
  /\ IsFiniteSet(Deliveries)
  /\ IdOf \in [Deliveries -> TaskIds]
  /\ SkillOf \in [Deliveries -> Skills \cup {Unsupported}]
  /\ Unsupported \notin Skills
  /\ TypeOf \in [Skills -> Types]
  /\ LimitedTypes \subseteq Types
  /\ TypeLimit \in [LimitedTypes -> Nat]
  /\ SyncSkills \subseteq Skills
  /\ Forbidden \subseteq Deliveries
  /\ MaxConcurrentTasks \in Nat
  /\ MaxCancels \in Nat
  /\ NoTask \notin Deliveries

VARIABLES
  currentLoad,         \* Worker._current_load
  currentLoadByType,   \* Worker._current_load_by_type
  activeTasks,         \* Worker._active_tasks: id -> delivery whose Task is stored
  phase,               \* where the coroutine of each delivery stands
  cancelRequested,     \* Task.cancel() was called and CancelledError is not raised yet
  result,              \* status of the local result_obj
  reported,            \* what became of the result
  polling,             \* the polling task is alive
  offered,             \* available_skills of the poll in flight, {} when there is none
  queueWorker,         \* the task of _result_queue_worker is alive
  threads,             \* deliveries whose synchronous handler is executing in a thread
  cancels              \* cancel() calls so far

load == <<currentLoad, currentLoadByType>>
vars == <<currentLoad, currentLoadByType, activeTasks, phase, cancelRequested,
          result, reported, polling, offered, queueWorker, threads, cancels>>

(***************************************************************************)
(* Phases of a delivery.  "created": create_task was called, the coroutine *)
(* has not run.  "preparing": in process_params.  "running": in the        *)
(* handler.  "finishing": in process_result.  "cleanup" and "sending": in  *)
(* the finally block, in s3 cleanup and in the direct send_result.         *)
(* "released": the finally block ran to its end.  "leaked": the coroutine  *)
(* ended before the lines of the finally block that give the slot back.    *)
(***************************************************************************)
Live == {"created", "preparing", "running", "finishing", "cleanup", "sending"}
Phases == {"unseen", "released", "leaked"} \cup Live
InFinally == {"cleanup", "sending"}

Results == {"none", "success", "failure", "cancelled"}
Reports == {"none", "queued", "sent", "unsent"}

HasType(d, t) == SkillOf[d] \in Skills /\ TypeOf[SkillOf[d]] = t

IsSync(d) == SkillOf[d] \in SyncSkills

Init ==
  /\ currentLoad = 0
  /\ currentLoadByType = [t \in Types |-> 0]
  /\ activeTasks = [i \in TaskIds |-> NoTask]
  /\ phase = [d \in Deliveries |-> "unseen"]
  /\ cancelRequested = {}
  /\ result = [d \in Deliveries |-> "none"]
  /\ reported = [d \in Deliveries |-> "none"]
  /\ polling = TRUE
  /\ offered = {}
  /\ queueWorker = TRUE
  /\ threads = {}
  /\ cancels = 0

-----------------------------------------------------------------------------
(* Polling: _get_current_state and _poll_for_tasks_with_status.            *)

\* MUTANT: the load may exceed the limit by one.
AvailableOneTooMany ==
  {s \in Skills : /\ currentLoad <= MaxConcurrentTasks
                  /\ TypeOf[s] \in LimitedTypes =>
                        currentLoadByType[TypeOf[s]] < TypeLimit[TypeOf[s]]}

\* MUTANT: skill_type_limits is not looked at.
AvailableOfAnyType == {s \in Skills : currentLoad < MaxConcurrentTasks}

(***************************************************************************)
(* The skills _get_current_state calls available, before the application's *)
(* capacity_checker removes any: none when the worker is full, otherwise   *)
(* those whose type is below its limit.                                    *)
(***************************************************************************)
AvailableSkills ==
  {s \in Skills : /\ currentLoad < MaxConcurrentTasks
                  /\ TypeOf[s] \in LimitedTypes =>
                        currentLoadByType[TypeOf[s]] < TypeLimit[TypeOf[s]]}

\* The polling task asks one orchestrator for work.  The capacity_checker may
\* hide any of the available skills; with none left nothing is asked.
PollRequest ==
  /\ polling /\ offered = {}
  /\ \E hidden \in SUBSET AvailableSkills : offered' = AvailableSkills \ hidden
  /\ offered' # {}
  /\ UNCHANGED <<load, activeTasks, phase, cancelRequested, result, reported,
                 polling, queueWorker, threads, cancels>>

\* What the code after the await does with a task: count it, by type too when a
\* handler is registered for it, and store its Task under its id.
Occupy(d) ==
  /\ currentLoad' = currentLoad + 1
  /\ currentLoadByType' =
       [t \in Types |-> IF HasType(d, t) THEN currentLoadByType[t] + 1
                                         ELSE currentLoadByType[t]]
  /\ activeTasks' = [activeTasks EXCEPT ![IdOf[d]] = d]
  /\ phase' = [phase EXCEPT ![d] = "created"]

\* The poll returns a task.  ENVIRONMENT: the orchestrator sends a task of a
\* skill it was offered, or of one this worker has no handler for.
PollDelivers(d) ==
  /\ polling /\ offered # {}
  /\ phase[d] = "unseen"
  /\ SkillOf[d] \in offered \cup {Unsupported}
  /\ Occupy(d)
  /\ offered' = {}
  /\ UNCHANGED <<cancelRequested, result, reported, polling, queueWorker,
                 threads, cancels>>

\* The poll returns nothing, or fails.
PollEmpty ==
  /\ polling /\ offered # {}
  /\ offered' = {}
  /\ UNCHANGED <<load, activeTasks, phase, cancelRequested, result, reported,
                 polling, queueWorker, threads, cancels>>

\* Shutdown cancels the polling task, and later the result queue worker.
StopPolling ==
  /\ polling
  /\ polling' = FALSE
  /\ offered' = {}
  /\ UNCHANGED <<load, activeTasks, phase, cancelRequested, result, reported,
                 queueWorker, threads, cancels>>

QueueWorkerEnds ==
  /\ ~polling /\ queueWorker
  /\ queueWorker' = FALSE
  /\ UNCHANGED <<load, activeTasks, phase, cancelRequested, result, reported,
                 polling, offered, threads, cancels>>

-----------------------------------------------------------------------------
(* Cancellation: heartbeat feedback, websocket command, shutdown timeout.  *)

\* MUTANT: whatever the lookup of the id returns is cancelled.
CancelUnknown(i) ==
  /\ cancels < MaxCancels
  /\ cancelRequested' = cancelRequested \cup {activeTasks[i]}
  /\ cancels' = cancels + 1
  /\ UNCHANGED <<load, activeTasks, phase, result, reported, polling, offered,
                 queueWorker, threads>>

\* MUTANT: the cancel takes the Task out of _active_tasks.
CancelForgets(i) ==
  /\ cancels < MaxCancels
  /\ activeTasks[i] # NoTask
  /\ phase[activeTasks[i]] \in Live
  /\ cancelRequested' = cancelRequested \cup {activeTasks[i]}
  /\ activeTasks' = [activeTasks EXCEPT ![i] = NoTask]
  /\ cancels' = cancels + 1
  /\ UNCHANGED <<load, phase, result, reported, polling, offered, queueWorker, threads>>

\* cancel() on the Task stored under an id.  A Task that is done ignores it.
Cancel(i) ==
  /\ cancels < MaxCancels
  /\ activeTasks[i] # NoTask
  /\ phase[activeTasks[i]] \in Live
  /\ activeTasks[i] \notin cancelRequested
  /\ cancelRequested' = cancelRequested \cup {activeTasks[i]}
  /\ cancels' = cancels + 1
  /\ UNCHANGED <<load, activeTasks, phase, result, reported, polling, offered,
                 queueWorker, threads>>

-----------------------------------------------------------------------------
(* The coroutine _process_task of one delivery.                            *)

\* d's coroutine resumes at phase p, and not to have CancelledError raised in it.
Resumes(d, p) == phase[d] = p /\ d \notin cancelRequested

MovesTo(d, p) == phase' = [phase EXCEPT ![d] = p]

Decides(d, r) == result' = [result EXCEPT ![d] = r]

bookkeeping == <<load, activeTasks>>
outside == <<polling, offered, queueWorker, cancels>>

\* The first step refuses a payload it cannot convert, a bad signature or a skill
\* outside the policy by raising before the try block: the finally block never runs.
Reject(d) ==
  /\ Resumes(d, "created")
  /\ d \in Forbidden
  /\ MovesTo(d, "leaked")
  /\ UNCHANGED <<bookkeeping, outside, cancelRequested, result, reported, threads>>

\* Parameters that fail the skill's schema, or a skill without a handler.
RefuseInput(d) ==
  /\ Resumes(d, "created")
  /\ d \notin Forbidden
  /\ MovesTo(d, "cleanup")
  /\ Decides(d, "failure")
  /\ UNCHANGED <<bookkeeping, outside, cancelRequested, reported, threads>>

\* The first step up to the await of process_params.
Accept(d) ==
  /\ Resumes(d, "created")
  /\ d \notin Forbidden
  /\ SkillOf[d] # Unsupported
  /\ MovesTo(d, "preparing")
  /\ UNCHANGED <<bookkeeping, outside, cancelRequested, result, reported, threads>>

\* Parameters are ready and the handler starts, in a thread if it is synchronous.
CallHandler(d) ==
  /\ Resumes(d, "preparing")
  /\ MovesTo(d, "running")
  /\ threads' = IF IsSync(d) THEN threads \cup {d} ELSE threads
  /\ UNCHANGED <<bookkeeping, outside, cancelRequested, result, reported>>

\* The function of a synchronous handler returns in its thread.
ThreadEnds(d) ==
  /\ d \in threads
  /\ threads' = threads \ {d}
  /\ UNCHANGED <<bookkeeping, outside, phase, cancelRequested, result, reported>>

\* MUTANT: the thread of a synchronous handler is not awaited.
HandlerReturnsEarly(d) ==
  /\ Resumes(d, "running")
  /\ MovesTo(d, "finishing")
  /\ UNCHANGED <<bookkeeping, outside, cancelRequested, result, reported, threads>>

\* The handler's value is back in the coroutine, which awaits process_result.
HandlerReturns(d) ==
  /\ Resumes(d, "running")
  /\ d \notin threads
  /\ MovesTo(d, "finishing")
  /\ UNCHANGED <<bookkeeping, outside, cancelRequested, result, reported, threads>>

\* Outputs are uploaded and the TaskResult is built; the handler or the output
\* schema decides its status.
Finish(d) ==
  /\ Resumes(d, "finishing")
  /\ MovesTo(d, "cleanup")
  /\ \E r \in {"success", "failure"} : Decides(d, r)
  /\ UNCHANGED <<bookkeeping, outside, cancelRequested, reported, threads>>

\* MUTANT: an exception no except clause expects skips the end of the finally block.
FailsOutsideTry(d) ==
  /\ \E p \in {"preparing", "running", "finishing"} : Resumes(d, p)
  /\ phase[d] = "running" => d \notin threads
  /\ MovesTo(d, "leaked")
  /\ UNCHANGED <<bookkeeping, outside, cancelRequested, result, reported, threads>>

\* One of the except clauses turns an exception of these steps into a result.
Fails(d) ==
  /\ \E p \in {"preparing", "running", "finishing"} : Resumes(d, p)
  /\ phase[d] = "running" => d \notin threads
  /\ MovesTo(d, "cleanup")
  /\ Decides(d, "failure")
  /\ UNCHANGED <<bookkeeping, outside, cancelRequested, reported, threads>>

\* MUTANT: a cancelled task gets no result.
CancelledSilently(d) ==
  /\ d \in cancelRequested
  /\ phase[d] \in {"preparing", "running", "finishing"}
  /\ cancelRequested' = cancelRequested \ {d}
  /\ MovesTo(d, "cleanup")
  /\ UNCHANGED <<bookkeeping, outside, result, reported, threads>>

\* CancelledError is raised at the await the coroutine stands at.  The thread
\* of a synchronous handler is not interrupted.
Cancelled(d) ==
  /\ d \in cancelRequested
  /\ phase[d] \in {"preparing", "running", "finishing"}
  /\ cancelRequested' = cancelRequested \ {d}
  /\ MovesTo(d, "cleanup")
  /\ Decides(d, "cancelled")
  /\ UNCHANGED <<bookkeeping, outside, reported, threads>>

\* A handler or a middleware catches CancelledError and returns a value.
SwallowsCancel(d) ==
  /\ d \in cancelRequested
  /\ phase[d] = "running"
  /\ cancelRequested' = cancelRequested \ {d}
  /\ MovesTo(d, "finishing")
  /\ UNCHANGED <<bookkeeping, outside, result, reported, threads>>

\* A Task cancelled before its first step never runs its body, and one that is
\* cancelled in the finally block leaves it at the await it stands at.
CancelledOutsideTry(d) ==
  /\ d \in cancelRequested
  /\ phase[d] \in {"created"} \cup InFinally
  /\ cancelRequested' = cancelRequested \ {d}
  /\ MovesTo(d, "leaked")
  /\ UNCHANGED <<bookkeeping, outside, result, reported, threads>>

\* MUTANT: only the total is decremented.
ReleaseTotalOnly(d) ==
  /\ activeTasks' = [activeTasks EXCEPT ![IdOf[d]] = NoTask]
  /\ currentLoad' = currentLoad - 1
  /\ UNCHANGED currentLoadByType
  /\ phase' = [phase EXCEPT ![d] = "released"]

\* The end of the finally block: forget the Task, give the slot back.
Release(d) ==
  /\ activeTasks' = [activeTasks EXCEPT ![IdOf[d]] = NoTask]
  /\ currentLoad' = currentLoad - 1
  /\ currentLoadByType' =
       [t \in Types |-> IF HasType(d, t) THEN currentLoadByType[t] - 1
                                         ELSE currentLoadByType[t]]
  /\ phase' = [phase EXCEPT ![d] = "released"]

\* MUTANT: a queued result is sent as well.
QueueAndSend(d) ==
  /\ Resumes(d, "cleanup")
  /\ queueWorker
  /\ reported' = [reported EXCEPT ![d] = "queued"]
  /\ MovesTo(d, "sending")
  /\ UNCHANGED <<bookkeeping, outside, cancelRequested, result, threads>>

\* The task directory is gone.  While the queue worker lives the result is
\* queued (put on an unbounded Queue does not suspend) and the slot is released.
QueueResult(d) ==
  /\ Resumes(d, "cleanup")
  /\ queueWorker
  /\ reported' = [reported EXCEPT ![d] = IF result[d] = "none" THEN "none" ELSE "queued"]
  /\ Release(d)
  /\ UNCHANGED <<outside, cancelRequested, result, threads>>

\* Otherwise the coroutine sends the result itself.
StartSending(d) ==
  /\ Resumes(d, "cleanup")
  /\ ~queueWorker
  /\ MovesTo(d, "sending")
  /\ UNCHANGED <<bookkeeping, outside, cancelRequested, result, reported, threads>>

\* MUTANT: a direct send that fails is tried again without limit.
SendRetries(d) ==
  /\ Resumes(d, "sending")
  /\ \/ /\ reported' = [reported EXCEPT ![d] = "sent"]
        /\ Release(d)
     \/ /\ MovesTo(d, "cleanup")
        /\ UNCHANGED <<bookkeeping, reported>>
  /\ UNCHANGED <<outside, cancelRequested, result, threads>>

\* send_result is answered, or fails with an RxonError that is only logged.
SendResult(d) ==
  /\ Resumes(d, "sending")
  /\ \E r \in {"sent", "unsent"} : reported' = [reported EXCEPT ![d] = r]
  /\ Release(d)
  /\ UNCHANGED <<outside, cancelRequested, result, threads>>

\* send_result fails with an exception that is no RxonError.
SendCrashes(d) ==
  /\ Resumes(d, "sending")
  /\ MovesTo(d, "leaked")
  /\ UNCHANGED <<bookkeeping, outside, cancelRequested, result, reported, threads>>

Step(d) ==
  \/ Reject(d) \/ RefuseInput(d) \/ Accept(d) \/ CallHandler(d)
  \/ HandlerReturns(d) \/ Finish(d) \/ Fails(d)
  \/ Cancelled(d) \/ SwallowsCancel(d) \/ CancelledOutsideTry(d)
  \/ QueueResult(d) \/ StartSending(d) \/ SendResult(d) \/ SendCrashes(d)

Next ==
  \/ PollRequest \/ PollEmpty \/ StopPolling \/ QueueWorkerEnds
  \/ \E d \in Deliveries : PollDelivers(d) \/ Step(d) \/ ThreadEnds(d)
  \/ \E i \in TaskIds : Cancel(i)

Spec == Init /\ [][Next]_vars

(***************************************************************************)
(* The event loop resumes every ready coroutine, transfers and requests    *)
(* have timeouts, and handlers are assumed to return: each coroutine and   *)
(* each thread makes progress.  Nothing is assumed of the polls (an        *)
(* orchestrator may have no work), of cancellations or of shutdown.        *)
(***************************************************************************)
Fairness == \A d \in Deliveries : WF_vars(Step(d)) /\ WF_vars(ThreadEnds(d))

FairSpec == Spec /\ Fairness

-----------------------------------------------------------------------------
(* Properties.                                                             *)

TypeOK ==
  /\ currentLoad \in Int
  /\ currentLoadByType \in [Types -> Int]
  /\ activeTasks \in [TaskIds -> Deliveries \cup {NoTask}]
  /\ phase \in [Deliveries -> Phases]
  /\ cancelRequested \subseteq Deliveries
  /\ result \in [Deliveries -> Results]
  /\ reported \in [Deliveries -> Reports]
  /\ polling \in BOOLEAN
  /\ offered \subseteq Skills
  /\ queueWorker \in BOOLEAN
  /\ threads \subseteq Deliveries
  /\ cancels \in Nat

\* The deliveries that occupy a slot: those in progress and those that ended
\* without giving their slot back.
Holders == {d \in Deliveries : phase[d] \in Live \cup {"leaked"}}
HoldersOf(t) == {d \in Holders : HasType(d, t)}

\* The two counters agree with the coroutines, whatever the interleaving of
\* polls, cancellations and releases: _current_load counts exactly the slots
\* taken and not returned, and _current_load_by_type those of each type.
LoadAccounting ==
  /\ currentLoad = Cardinality(Holders)
  /\ \A t \in Types : currentLoadByType[t] = Cardinality(HoldersOf(t))

\* A skill that was available when the poll was sent still is when the answer
\* comes, although the check is made before the await and the count after it:
\* with a single poll in flight the load can only fall in between.
OfferStillGood == offered \subseteq AvailableSkills

\* No more tasks are accepted than MAX_CONCURRENT_TASKS, nor of a type than its
\* entry of skill_type_limits.
CapacityRespected ==
  /\ currentLoad <= MaxConcurrentTasks
  /\ \A t \in LimitedTypes : currentLoadByType[t] <= TypeLimit[t]

\* _active_tasks (the heartbeat's current_tasks, and what a cancel looks up)
\* names a Task under its own id, and never a task whose slot was given back.
RegistrySound ==
  \A i \in TaskIds : activeTasks[i] # NoTask =>
     IdOf[activeTasks[i]] = i /\ activeTasks[i] \in Holders

\* A cancel command finds every task in progress whose id was handed over once: no end
\* of another task, cancellation or poll takes it out of _active_tasks.  (A second task
\* of the same id replaces the first, and its end removes what is stored.)
OnlyWithItsId(d) ==
  \A e \in Deliveries : IdOf[e] = IdOf[d] => e = d \/ phase[e] = "unseen"

RegistryComplete ==
  \A d \in Holders : OnlyWithItsId(d) => activeTasks[IdOf[d]] = d

\* A slot is free again exactly when the result went to the queue or its direct send
\* was answered or refused: no task is released without a result, none is reported twice
\* over (once queued and once sent), none reports before it stops.
ReleasedIffReported ==
  \A d \in Deliveries :
     /\ phase[d] = "released" <=> reported[d] # "none"
     /\ phase[d] \in InFinally \cup {"released"} => result[d] # "none"

\* Slots are lost only to the signature or policy check, to a cancellation, or to
\* a direct send after the queue worker has ended.
LeakNeedsDisturbance ==
  \A d \in Deliveries :
     phase[d] = "leaked" => d \in Forbidden \/ cancels > 0 \/ ~queueWorker

\* What is reported of a task is final, and a released task stays so.
OutcomeIsFinal ==
  [][\A d \in Deliveries :
       /\ reported[d] # "none" => reported'[d] = reported[d]
       /\ phase[d] = "released" => phase'[d] = "released"]_vars

\* Handlers in execution: coroutines in the handler, and threads of synchronous ones.
Executing == threads \cup {d \in Deliveries : phase[d] = "running" /\ ~IsSync(d)}

\* README: MAX_CONCURRENT_TASKS is the "Global limit for concurrent task execution".
\* It is, as long as no task is cancelled: then no thread outlives its task's slot.
ExecutionWithinLimit ==
  cancels = 0 => Cardinality(Executing) <= MaxConcurrentTasks

\* _process_task "Handles the lifecycle of a single task: setup, execution, and
\* reporting": no delivery ends without giving its slot back and reporting.
EveryTaskReports == \A d \in Deliveries : phase[d] # "leaked"

\* Every task that was accepted ends.
AcceptedTaskEnds ==
  \A d \in Deliveries : phase[d] \in Live ~> phase[d] \in {"released", "leaked"}

\* The worker's accounting implements the slot pool it promises.
SlotOf(d) ==
  IF phase[d] \in Live
  THEN "held"
  ELSE [unseen |-> "none", released |-> "returned", leaked |-> "lost"][phase[d]]

Pool == INSTANCE SlotPool WITH
          Tasks <- Deliveries,
          Capacity <- MaxConcurrentTasks,
          Groups <- LimitedTypes,
          Members <- [t \in LimitedTypes |-> {d \in Deliveries : HasType(d, t)}],
          GroupLimit <- TypeLimit,
          slot <- [d \in Deliveries |-> SlotOf(d)]

RefinesSlotPool == Pool!Spec

=============================================================================
