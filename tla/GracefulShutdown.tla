----------------------------- MODULE GracefulShutdown -----------------------------
(***************************************************************************)
(* _perform_shutdown_cleanup, step by step, while the worker's tasks still *)
(* end and the result uploader still works: polling stops, the orchestra-  *)
(* tors are told "offline", the result queue is drained and its worker     *)
(* stopped, the tasks in progress are awaited, the transports closed.      *)
(* Composes ResultUploader with the tasks, the cleanup coroutine and the   *)
(* heartbeats to one orchestrator that may still be under way.             *)
(*                                                                         *)
(* Each task has one result.  Of a task only its end matters here          *)
(* (TaskLifecycle has the rest): it queues its result while the queue      *)
(* worker's task is not done, and sends it by itself afterwards.  All ids  *)
(* are different, so _active_tasks holds the tasks in progress.  Of the    *)
(* heartbeats only who sends one when matters (HeartbeatThrottle has the   *)
(* rest).  Websocket listeners, which send nothing by themselves, are left *)
(* out.                                                                    *)
(***************************************************************************)
EXTENDS ResultUploader

CONSTANT Earlier     \* a change of state before the shutdown, e.g. a task accepted; or
                     \* a periodic heartbeat that the cooldown put off

ASSUME ShutdownAssumption == Earlier \notin Results

\* What spawns a heartbeat: that change, and the end of each task.
Changes == Results \cup {Earlier}

VARIABLES
  stage,       \* where the cleanup coroutine stands
  task,        \* the task of each result: "running", "sending" (by itself) or "done"
  toldToEnd,   \* tasks cancel() was called on that have not noticed yet
  joined,      \* unfinished was 0 at some time since the cleanup awaits join()
  timedOut,    \* a timeout of the cleanup has expired
  due,         \* how many results had been queued when it began to
  notice,      \* the heartbeat a change spawned: "none", "spawned" and perhaps put off
               \* by the cooldown, "sending" or "over"
  manager,     \* the orchestrator's manager: "waiting", "sending" a heartbeat, "ended"
  unsettled,   \* when the offline heartbeat left, a task had not ended or a spawned
               \* heartbeat was not over
  late         \* some heartbeat left after the offline one

heartbeats == <<notice, manager, unsettled, late>>
cleanup == <<stage, toldToEnd, joined, timedOut, due>>
vars == <<uploader, cleanup, task, heartbeats>>

Stages == {"serving", "s3", "offline", "draining", "stopping", "waiting", "cancelling",
           "closing", "closed", "broken"}

ShutdownInit ==
  /\ Init
  /\ stage = "serving"
  /\ task = [r \in Results |-> "running"]
  /\ toldToEnd = {}
  /\ joined = FALSE
  /\ timedOut = FALSE
  /\ due = 0
  /\ notice = [c \in Changes |-> IF c = Earlier THEN "spawned" ELSE "none"]
  /\ manager = "waiting"
  /\ unsettled = FALSE
  /\ late = FALSE

Running == {r \in Results : task[r] # "done"}

-----------------------------------------------------------------------------
(* The tasks and the uploader.                                             *)

\* The last line of the finally block spawns a heartbeat.
Notifies(r) ==
  /\ notice' = [notice EXCEPT ![r] = "spawned"]
  /\ UNCHANGED <<manager, unsettled, late>>

\* A task ends: its result goes to the queue.
TaskQueues(r) ==
  /\ task[r] = "running"
  /\ Put(r)
  /\ task' = [task EXCEPT ![r] = "done"]
  /\ Notifies(r)
  /\ UNCHANGED cleanup

\* Without a queue worker it first sends the result itself (a cancellation has ended the
\* handler and is over by then),
TaskSends(r) ==
  /\ task[r] = "running"
  /\ WorkerDone
  /\ task' = [task EXCEPT ![r] = "sending"]
  /\ toldToEnd' = toldToEnd \ {r}
  /\ UNCHANGED <<uploader, stage, joined, timedOut, due, heartbeats>>

TaskSent(r) ==
  /\ task[r] = "sending" /\ r \notin toldToEnd
  /\ \E f \in {"accepted", "dropped"} : fate' = [fate EXCEPT ![r] = f]
  /\ task' = [task EXCEPT ![r] = "done"]
  /\ Notifies(r)
  /\ UNCHANGED <<queue, unfinished, worker, inHand, attempts, toldToStop, arrived,
                 taken, cleanup>>

\* and a cancellation at that await, or an exception that is no RxonError, ends it
\* without a result and without a heartbeat.
TaskCutOff(r) ==
  /\ task[r] = "sending"
  /\ fate' = [fate EXCEPT ![r] = "lost"]
  /\ task' = [task EXCEPT ![r] = "done"]
  /\ UNCHANGED <<queue, unfinished, worker, inHand, attempts, toldToStop, arrived,
                 taken, cleanup, heartbeats>>

\* A task that is rejected before the try block, or cancelled in the cleanup of its
\* files, ends without either too.
TaskLeaks(r) ==
  /\ task[r] = "running"
  /\ task' = [task EXCEPT ![r] = "done"]
  /\ UNCHANGED <<uploader, cleanup, heartbeats>>

\* The cleanup's join() is woken whenever the count of unfinished results reaches 0.
UploaderStep ==
  /\ WorkerStep
  /\ joined' = (joined \/ (stage = "draining" /\ unfinished' = 0))
  /\ UNCHANGED <<stage, task, toldToEnd, timedOut, due, heartbeats>>

-----------------------------------------------------------------------------
(* The heartbeats.                                                         *)

Told == stage \notin {"serving", "s3"}

\* A spawned heartbeat leaves, whatever the cleanup is about,
NoticeSent(c) ==
  /\ notice[c] = "spawned"
  /\ notice' = [notice EXCEPT ![c] = "sending"]
  /\ late' = (late \/ Told)
  /\ UNCHANGED <<uploader, cleanup, task, manager, unsettled>>

\* and is answered or fails; or it is not sent because another one will be.
NoticeOver(c) ==
  /\ notice[c] \in {"spawned", "sending"}
  /\ notice' = [notice EXCEPT ![c] = "over"]
  /\ UNCHANGED <<uploader, cleanup, task, manager, unsettled, late>>

\* The manager's periodic heartbeat.
ManagerSends ==
  /\ manager = "waiting"
  /\ manager' = "sending"
  /\ late' = (late \/ Told)
  /\ UNCHANGED <<uploader, cleanup, task, notice, unsettled>>

ManagerAnswered ==
  /\ manager = "sending"
  /\ manager' = "waiting"
  /\ UNCHANGED <<uploader, cleanup, task, notice, unsettled, late>>

Heartbeats ==
  \/ ManagerSends \/ ManagerAnswered
  \/ \E c \in Changes : NoticeSent(c) \/ NoticeOver(c)

-----------------------------------------------------------------------------
(* The cleanup coroutine.                                                  *)

Goes(from, to) == stage = from /\ stage' = to

\* MUTANT: the managers are not cancelled.
ShutdownKeepsManagers ==
  /\ Goes("serving", "s3")
  /\ UNCHANGED <<uploader, task, toldToEnd, joined, timedOut, due, heartbeats>>

\* The shutdown event: managers, with the heartbeats they wait for, and polling are
\* cancelled; S3 transfers are awaited, for 30 seconds at most.
Shutdown ==
  /\ Goes("serving", "s3")
  /\ manager' = "ended"
  /\ UNCHANGED <<uploader, task, toldToEnd, joined, timedOut, due, notice, unsettled,
                 late>>

\* Changes whose heartbeat is under way.
Unheard == {c \in Changes : notice[c] \in {"spawned", "sending"}}

\* The offline heartbeat is sent to all orchestrators.
SendOffline ==
  /\ Goes("s3", "offline")
  /\ unsettled' = (Running # {} \/ Unheard # {})
  /\ UNCHANGED <<uploader, task, toldToEnd, joined, timedOut, due, notice, manager,
                 late>>

StartDrain ==
  /\ Goes("offline", "draining")
  /\ joined' = (unfinished = 0)
  /\ due' = Len(arrived)
  /\ UNCHANGED <<uploader, task, toldToEnd, timedOut, heartbeats>>

\* MUTANT: the queue is not joined before its worker is stopped.
EndDrainAtOnce ==
  /\ Goes("draining", "stopping")
  /\ Stop
  /\ UNCHANGED <<task, toldToEnd, joined, timedOut, due, heartbeats>>

\* join() returned, or its 10 seconds are over: the queue worker is cancelled.
EndDrain ==
  /\ Goes("draining", "stopping")
  /\ timedOut' = ~joined
  /\ Stop
  /\ UNCHANGED <<task, toldToEnd, joined, due, heartbeats>>

\* The queue worker's task has ended by leaving its loop.
WorkerReturned ==
  /\ Goes("stopping", "waiting")
  /\ worker = "returned"
  /\ UNCHANGED <<uploader, task, toldToEnd, joined, timedOut, due, heartbeats>>

\* It has ended as cancelled: the await re-raises CancelledError, which is no
\* Exception, so suppress(Exception) lets it end the cleanup.  The process ends;
\* asyncio.run cancels what is still running.
WorkerCancelled ==
  /\ Goes("stopping", "broken")
  /\ worker = "cancelled"
  /\ toldToEnd' = toldToEnd \cup Running
  /\ UNCHANGED <<uploader, task, joined, timedOut, due, heartbeats>>

\* MUTANT: the tasks are awaited without a timeout.
CancelNone == stage = "waiting" /\ UNCHANGED vars

\* SHUTDOWN_TIMEOUT is over: wait_for cancels the tasks it awaits, and still awaits
\* their end.
CancelTasks ==
  /\ Goes("waiting", "cancelling")
  /\ Running # {}
  /\ timedOut' = TRUE
  /\ toldToEnd' = toldToEnd \cup Running
  /\ UNCHANGED <<uploader, task, joined, due, heartbeats>>

TasksEnded ==
  /\ stage \in {"waiting", "cancelling"} /\ stage' = "closing"
  /\ Running = {}
  /\ UNCHANGED <<uploader, task, toldToEnd, joined, timedOut, due, heartbeats>>

CloseClients ==
  /\ Goes("closing", "closed")
  /\ UNCHANGED <<uploader, task, toldToEnd, joined, timedOut, due, heartbeats>>

Cleanup ==
  \/ Shutdown \/ SendOffline \/ StartDrain \/ EndDrain \/ WorkerReturned
  \/ WorkerCancelled \/ CancelTasks \/ TasksEnded \/ CloseClients

TaskStep(r) ==
  TaskQueues(r) \/ TaskSends(r) \/ TaskSent(r) \/ TaskCutOff(r) \/ TaskLeaks(r)

ShutdownNext ==
  /\ stage # "closed"
  /\ Cleanup \/ UploaderStep \/ Heartbeats \/ \E r \in Results : TaskStep(r)

ShutdownSpec == ShutdownInit /\ [][ShutdownNext]_vars

(***************************************************************************)
(* Once the shutdown event is set the cleanup goes on, timeouts expire,    *)
(* the uploader and direct sends make progress.  A handler need not return *)
(* by itself; a cancelled one does.  Heartbeats need not go on.            *)
(***************************************************************************)
Fairness ==
  /\ WF_vars(stage # "serving" /\ Cleanup)
  /\ WF_vars(stage # "closed" /\ UploaderStep)
  /\ \A r \in Results :
       WF_vars((r \in toldToEnd \/ task[r] = "sending") /\ stage # "closed" /\ TaskStep(r))

FairShutdownSpec == ShutdownSpec /\ Fairness

-----------------------------------------------------------------------------
(* Properties.                                                             *)

ShutdownTypeOK ==
  /\ TypeOK
  /\ stage \in Stages
  /\ task \in [Results -> {"running", "sending", "done"}]
  /\ toldToEnd \subseteq Results
  /\ joined \in BOOLEAN
  /\ timedOut \in BOOLEAN
  /\ due \in Nat
  /\ notice \in [Changes -> {"none", "spawned", "sending", "over"}]
  /\ manager \in {"waiting", "sending", "ended"}
  /\ unsettled \in BOOLEAN
  /\ late \in BOOLEAN

\* worker.py: "Sending final 'offline' heartbeat".  It is the last one, and none is under
\* way when the transports are closed, if every task had ended and every heartbeat that
\* a change had spawned was over when it left: nothing else speaks after it.  Otherwise
\* the orchestrator may hear "idle" or "busy" last, or a transport may be closed under
\* such a heartbeat; but in no case under a result, or under the manager.
OfflineIsLast ==
  /\ Told /\ ~unsettled => ~late /\ Unheard = {}
  /\ stage \in {"closing", "closed"} =>
       WorkerDone /\ inHand = Nothing /\ Running = {} /\ manager = "ended"

\* While no timeout expires, whatever had been queued before the drain began has been
\* sent or given up by regular means when the queue worker is stopped, although tasks
\* that end meanwhile queue more and nobody stops them.
DueResultsSent ==
  ~timedOut /\ stage \notin {"serving", "s3", "offline", "draining"} =>
    \A i \in 1..due : fate[arrived[i]] \in {"accepted", "dropped", "abandoned"}

\* A shutdown ends, even when handlers do not return by themselves: closed in order, or
\* broken off.
ShutdownEnds == stage # "serving" ~> stage \in {"closed", "broken"}

\* worker.py: the helper is there "to execute all shutdown steps".
CleanupIsComplete == stage # "broken"

=============================================================================
