------------------------- MODULE GracefulShutdown_proofs -------------------------
(***************************************************************************)
(* Proofs about GracefulShutdown, for any results and attempts.  What they *)
(* need of the uploader is proved in ResultUploader_proofs.                *)
(***************************************************************************)
EXTENDS GracefulShutdown, ResultUploader_proofs

-----------------------------------------------------------------------------
(* What the proofs need of the uploader, of the tasks and of the cleanup.  *)

Uploads == Typed /\ Fresh /\ QueuedIsThere /\ JoinIsExact

(***************************************************************************)
(* A task whose result has a fate is over, it sends by itself only when    *)
(* the queue worker is done, and no result is lost before that is stopped. *)
(***************************************************************************)
Tasks ==
  /\ task \in [Results -> {"running", "sending", "done"}]
  /\ toldToEnd \subseteq Results
  /\ \A r \in Results :
       /\ fate[r] # "none" => task[r] = "done"
       /\ task[r] = "sending" => WorkerDone
       /\ fate[r] = "lost" => toldToStop
  /\ \A i \in 1..Len(arrived) : fate[arrived[i]] # "none"

(***************************************************************************)
(* The order of the steps: the queue worker is stopped after the drain and *)
(* has returned before the tasks are awaited, and they are over before the *)
(* transports are closed.                                                  *)
(***************************************************************************)
Steps ==
  /\ stage \in Stages
  /\ toldToStop <=> stage \notin {"serving", "s3", "offline", "draining"}
  /\ WorkerDone => toldToStop
  /\ stage \in {"waiting", "cancelling", "closing", "closed"} => worker = "returned"
  /\ stage \in {"closing", "closed"} => Running = {}

Resolved(r) == fate[r] \in {"accepted", "dropped", "abandoned"}
DueResolved == \A i \in 1..due : Resolved(arrived[i])
AllResolved == \A i \in 1..Len(arrived) : Resolved(arrived[i])
NothingLeft == unfinished = 0 /\ ~toldToStop => AllResolved

(***************************************************************************)
(* What was due when the drain began is over as soon as join() may return. *)
(***************************************************************************)
Drain ==
  /\ joined \in BOOLEAN /\ timedOut \in BOOLEAN /\ due \in Nat
  /\ due <= Len(arrived)
  /\ stage = "draining" /\ joined => DueResolved
  /\ ~timedOut /\ stage \notin {"serving", "s3", "offline", "draining"} => DueResolved

Shutting == Uploads /\ Tasks /\ Steps /\ Drain

(***************************************************************************)
(* Who can still send a heartbeat: the managers only before the shutdown,  *)
(* and after the offline heartbeat nobody but tasks and spawned heartbeats *)
(* that were there when it left.                                           *)
(***************************************************************************)
Speech ==
  /\ notice \in [Changes -> {"none", "spawned", "sending", "over"}]
  /\ manager \in {"waiting", "sending", "ended"}
  /\ unsettled \in BOOLEAN
  /\ late \in BOOLEAN
  /\ stage # "serving" => manager = "ended"
  /\ late => Told
  /\ Told /\ ~unsettled => ~late /\ Unheard = {} /\ Running = {}

-----------------------------------------------------------------------------
\* A step of the uploader keeps what is needed of it.
LEMMA UploadsStay ==
  ASSUME Uploads, [Next]_(uploader)
  PROVE  Uploads'
<1>1. Typed'
  BY TypedStep DEF Uploads
<1>2. Fresh'
  BY FreshStep DEF Uploads
<1>3. QueuedIsThere'
  BY QueuedIsThereStep DEF Uploads
<1>4. JoinIsExact'
  BY JoinIsExactStep DEF Uploads
<1> QED
  BY <1>1, <1>2, <1>3, <1>4 DEF Uploads

(***************************************************************************)
(* A direct send touches no result of the queue.                           *)
(***************************************************************************)
LEMMA UploadsBesideSends ==
  ASSUME Uploads, NEW r \in Results, fate[r] = "none",
         NEW f \in {"accepted", "dropped", "lost"}, fate' = [fate EXCEPT ![r] = f],
         UNCHANGED <<queue, unfinished, worker, inHand, attempts, toldToStop, arrived, taken>>
  PROVE  Uploads'
<1> USE DEF Uploads, Typed, TypeOK
<1>1. Typed'
  BY DEF HandIsBusy, Fates
<1>2. Fresh'
  BY DEF Fresh, QueueIsFresh, HandMayBeSent, UnseenIsFresh
<1>3. QueuedIsThere'
  BY DEF QueuedIsThere
<1>4. JoinIsExact'
  BY DEF JoinIsExact, Hand
<1> QED
  BY <1>1, <1>2, <1>3, <1>4

(***************************************************************************)
(* When the count is 0 nothing queued is left.                             *)
(***************************************************************************)
LEMMA JoinedIsDone ==
  ASSUME Uploads, unfinished = 0, NEW r \in Results
  PROVE  fate[r] # "queued"
<1>1. Len(queue) = 0 /\ inHand = Nothing
  BY DEF Uploads, Typed, TypeOK, JoinIsExact, Hand
<1>2. r # inHand
  BY <1>1, UploaderAssumption
<1> QED
  BY <1>1, <1>2 DEF Uploads, QueuedIsThere

\* When the count is 0 before the stop, all that arrived is sent or given up.
LEMMA NothingDueIsLeft ==
  Uploads /\ Tasks => NothingLeft
<1> SUFFICES ASSUME Uploads, Tasks, unfinished = 0, ~toldToStop, NEW i \in 1..Len(arrived)
             PROVE  Resolved(arrived[i])
  BY DEF AllResolved, NothingLeft
<1>1. arrived[i] \in Results /\ fate[arrived[i]] \in Fates
  BY DEF Uploads, Typed, TypeOK
<1>2. fate[arrived[i]] # "queued"
  BY <1>1, JoinedIsDone
<1> QED
  BY <1>1, <1>2 DEF Tasks, Resolved, Fates

(***************************************************************************)
(* Steps that leave the fates of what arrived, and what was due, alone.    *)
(***************************************************************************)
LEMMA DueStays ==
  ASSUME Uploads, Drain, due' = due, DueResolved,
         \A i \in 1..Len(arrived) : arrived'[i] = arrived[i],
         \A r \in Results : Resolved(r) => Resolved(r)'
  PROVE  DueResolved'
<1> SUFFICES ASSUME NEW i \in 1..due PROVE Resolved(arrived[i])'
  BY DEF DueResolved
<1>1. i \in 1..Len(arrived) /\ arrived[i] \in Results
  BY DEF Drain, Uploads, Typed, TypeOK
<1> QED
  BY <1>1 DEF DueResolved, Resolved

-----------------------------------------------------------------------------
(* The steps of the tasks and of the uploader.                             *)

\* A task that puts its result into the queue.
LEMMA TaskQueuesKeeps ==
  ASSUME Shutting, NEW r \in Results, TaskQueues(r)
  PROVE  Shutting'
<1> USE DEF Shutting
<1>1. Put(r) /\ fate[r] = "none" /\ ~WorkerDone
  BY DEF TaskQueues, Put
<1>2. /\ arrived' = Append(arrived, r) /\ fate' = [fate EXCEPT ![r] = "queued"]
      /\ UNCHANGED <<worker, toldToStop>> /\ task' = [task EXCEPT ![r] = "done"]
      /\ UNCHANGED <<stage, toldToEnd, joined, timedOut, due>>
  BY <1>1 DEF TaskQueues, Put, cleanup
<1>3. Uploads'
  BY <1>1, UploadsStay DEF Next
<1>4. /\ fate \in [Results -> Fates] /\ Len(arrived) \in Nat
      /\ \A i \in 1..Len(arrived) : arrived[i] \in Results
      /\ Len(arrived') = Len(arrived) + 1 /\ arrived'[Len(arrived) + 1] = r
      /\ \A i \in 1..Len(arrived) : arrived'[i] = arrived[i]
  BY <1>2 DEF Uploads, Typed, TypeOK
<1>5. Tasks'
  <2>1. \A i \in 1..Len(arrived') : i \in 1..Len(arrived) \/ i = Len(arrived) + 1
    BY <1>4
  <2>2. \A i \in 1..Len(arrived') : fate'[arrived'[i]] # "none"
    BY <1>2, <1>4, <2>1 DEF Tasks
  <2> QED
    BY <1>2, <1>4, <2>2 DEF Tasks, WorkerDone
<1>6. Steps'
  <2>1. Running' \subseteq Running
    BY <1>2 DEF Running, Tasks
  <2> QED
    BY <1>2, <2>1 DEF Steps, WorkerDone
<1>7. Drain'
  <2>1. \A s \in Results : Resolved(s) => Resolved(s)'
    BY <1>1, <1>2, <1>4 DEF Resolved
  <2>2. DueResolved => DueResolved'
    BY <1>2, <1>4, <2>1, DueStays
  <2> QED
    BY <1>2, <1>4, <2>2 DEF Drain
<1> QED
  BY <1>3, <1>5, <1>6, <1>7

\* A task that sends its result itself and is done.
LEMMA SendsKeep ==
  ASSUME Shutting, NEW r \in Results, TaskSent(r) \/ TaskCutOff(r)
  PROVE  Shutting'
<1> USE DEF Shutting
<1>1. /\ task[r] = "sending" /\ fate[r] = "none" /\ WorkerDone /\ toldToStop
      /\ task' = [task EXCEPT ![r] = "done"]
      /\ UNCHANGED <<queue, unfinished, worker, inHand, attempts, toldToStop, arrived, taken>>
      /\ UNCHANGED <<stage, toldToEnd, joined, timedOut, due>>
  BY DEF TaskSent, TaskCutOff, cleanup, Tasks, Steps
<1>2. PICK f \in {"accepted", "dropped", "lost"} : fate' = [fate EXCEPT ![r] = f]
  BY DEF TaskSent, TaskCutOff
<1>3. Uploads'
  BY <1>1, <1>2, UploadsBesideSends
<1>4. /\ fate \in [Results -> Fates] /\ Len(arrived) \in Nat
      /\ \A i \in 1..Len(arrived) : arrived[i] \in Results
  BY DEF Uploads, Typed, TypeOK
<1>5. Tasks'
  BY <1>1, <1>2, <1>4 DEF Tasks, WorkerDone
<1>6. Steps'
  <2>1. Running' \subseteq Running
    BY <1>1 DEF Running, Tasks
  <2> QED
    BY <1>1, <2>1 DEF Steps, WorkerDone
<1>7. Drain'
  <2>1. \A s \in Results : Resolved(s) => Resolved(s)'
    BY <1>1, <1>2, <1>4 DEF Resolved
  <2>2. DueResolved => DueResolved'
    BY <1>1, <2>1, DueStays
  <2> QED
    BY <1>1, <2>2 DEF Drain
<1> QED
  BY <1>3, <1>5, <1>6, <1>7

\* A task that ends without a result, and the heartbeats, touch nothing else.
LEMMA BesideResultsKeeps ==
  ASSUME Shutting, UNCHANGED <<uploader, cleanup>>,
         task' = task \/ \E r \in Results : task' = [task EXCEPT ![r] = "done"]
  PROVE  Shutting'
<1> USE DEF Shutting
<1>1. /\ UNCHANGED <<queue, unfinished, worker, inHand, attempts, toldToStop, arrived, taken,
                     fate>>
      /\ UNCHANGED <<stage, toldToEnd, joined, timedOut, due>>
  BY DEF uploader, cleanup
<1>2. Uploads'
  BY UploadsStay
<1>3. Tasks'
  BY <1>1 DEF Tasks, WorkerDone
<1>4. Steps'
  <2>1. Running' \subseteq Running
    BY DEF Running, Tasks
  <2> QED
    BY <1>1, <2>1 DEF Steps, WorkerDone
<1>5. Drain'
  BY <1>1 DEF Drain, DueResolved, Resolved
<1> QED
  BY <1>2, <1>3, <1>4, <1>5

\* A step of the queue worker.
LEMMA UploaderKeeps ==
  ASSUME Shutting, UploaderStep
  PROVE  Shutting'
<1> USE DEF Shutting
<1>1. /\ WorkerStep /\ UNCHANGED <<stage, task, toldToEnd, timedOut, due>>
      /\ joined' = (joined \/ (stage = "draining" /\ unfinished' = 0))
  BY DEF UploaderStep
<1>2. ~WorkerDone /\ (WorkerDone' => toldToStop) /\ UNCHANGED <<arrived, toldToStop>>
  BY <1>1, WorkerKeeps
<1>3. \A r \in Results :
        \/ fate'[r] = fate[r]
        \/ /\ fate[r] = "queued"
           /\ fate'[r] \in {"accepted", "dropped", "abandoned"} \/ (fate'[r] = "lost" /\ toldToStop)
  BY <1>1, FateMoves DEF Uploads
<1>4. Uploads'
  BY <1>1, UploadsStay DEF Next
<1>5. \A i \in 1..Len(arrived) : arrived[i] \in Results
  BY DEF Uploads, Typed, TypeOK
<1>6. Tasks'
  BY <1>1, <1>2, <1>3, <1>5 DEF Tasks
<1>7. Steps'
  <2>1. stage \notin {"waiting", "cancelling", "closing", "closed"}
    BY <1>2 DEF Steps, WorkerDone
  <2> QED
    BY <1>1, <1>2, <2>1 DEF Steps
<1>8. Drain'
  <2>1. \A s \in Results : Resolved(s) => Resolved(s)'
    BY <1>3 DEF Resolved
  <2>2. DueResolved => DueResolved'
    BY <1>1, <1>2, <2>1, DueStays
  <2>3. ASSUME stage = "draining", unfinished' = 0
        PROVE  DueResolved'
    <3>1. ~toldToStop'
      BY <1>2, <2>3 DEF Steps
    <3>2. AllResolved'
      <4>1. NothingLeft'
        BY <1>4, <1>6, NothingDueIsLeft, PTL
      <4> QED
        BY <4>1, <2>3, <3>1 DEF NothingLeft
    <3>3. \A i \in 1..due : i \in 1..Len(arrived)
      BY DEF Drain, Uploads, Typed, TypeOK
    <3> QED
      BY <1>1, <1>2, <3>2, <3>3 DEF DueResolved, AllResolved
  <2> QED
    BY <1>1, <1>2, <2>2, <2>3 DEF Drain
<1> QED
  BY <1>4, <1>6, <1>7, <1>8

(***************************************************************************)
(* A task that begins to send by itself, and every step of the cleanup     *)
(* but the one that stops the queue worker, leave the uploader alone.      *)
(***************************************************************************)
LEMMA TaskSendsKeeps ==
  ASSUME Shutting, NEW r \in Results, TaskSends(r)
  PROVE  Shutting'
<1> USE DEF Shutting
<1>1. /\ task[r] = "running" /\ WorkerDone
      /\ task' = [task EXCEPT ![r] = "sending"] /\ toldToEnd' = toldToEnd \ {r}
      /\ UNCHANGED <<uploader, stage, joined, timedOut, due>>
  BY DEF TaskSends
<1>2. UNCHANGED <<queue, unfinished, worker, inHand, attempts, toldToStop, arrived, taken, fate>>
  BY <1>1 DEF uploader
<1>3. Uploads'
  BY <1>1, UploadsStay
<1>4. Tasks'
  BY <1>1, <1>2 DEF Tasks, WorkerDone
<1>5. Steps'
  <2>1. Running' \subseteq Running
    BY <1>1 DEF Running, Tasks
  <2> QED
    BY <1>1, <1>2, <2>1 DEF Steps, WorkerDone
<1>6. Drain'
  BY <1>1, <1>2 DEF Drain, DueResolved, Resolved
<1> QED
  BY <1>3, <1>4, <1>5, <1>6

-----------------------------------------------------------------------------
(* The steps of the cleanup.                                               *)

\* Every step of _perform_shutdown_cleanup.
LEMMA CleanupKeeps ==
  ASSUME Shutting, Cleanup
  PROVE  Shutting'
<1> USE DEF Shutting, Goes, Stages
<1>1. ASSUME UNCHANGED <<uploader, task>>, toldToEnd' \subseteq Results
      PROVE  Uploads' /\ Tasks' /\ (DueResolved /\ UNCHANGED due => DueResolved')
             /\ UNCHANGED <<Running, toldToStop, worker, WorkerDone, arrived, unfinished>>
  <2>1. UNCHANGED <<queue, unfinished, worker, inHand, attempts, toldToStop, arrived, taken,
                    fate>>
    BY <1>1 DEF uploader
  <2> QED
    BY <1>1, <2>1, UploadsStay DEF Tasks, WorkerDone, DueResolved, Resolved, Running
<1>2. toldToEnd \subseteq Results /\ toldToEnd \cup Running \subseteq Results
  BY DEF Tasks, Running
<1>3. CASE Shutdown \/ SendOffline \/ CloseClients \/ TasksEnded \/ WorkerReturned
  <2>1. UNCHANGED <<uploader, task, toldToEnd, joined, timedOut, due>>
    BY <1>3 DEF Shutdown, SendOffline, CloseClients, TasksEnded, WorkerReturned
  <2>2. Steps'
    BY <1>1, <1>2, <1>3, <2>1
       DEF Steps, Shutdown, SendOffline, CloseClients, TasksEnded, WorkerReturned
  <2>3. Drain'
    BY <1>1, <1>2, <1>3, <2>1
       DEF Drain, Shutdown, SendOffline, CloseClients, TasksEnded, WorkerReturned
  <2> QED
    BY <1>1, <1>2, <2>1, <2>2, <2>3
<1>4. CASE StartDrain
  <2>1. /\ stage = "offline" /\ stage' = "draining" /\ due' = Len(arrived)
        /\ joined' = (unfinished = 0) /\ UNCHANGED <<uploader, task, toldToEnd, timedOut>>
    BY <1>4 DEF StartDrain
  <2>2. ~toldToStop
    BY <2>1 DEF Steps
  <2>3. unfinished = 0 => DueResolved'
    BY <1>1, <1>2, <2>1, <2>2, NothingDueIsLeft
       DEF NothingLeft, AllResolved, DueResolved, Resolved, uploader
  <2>4. Len(arrived) \in Nat
    BY DEF Uploads, Typed, TypeOK
  <2>5. Steps'
    BY <1>1, <1>2, <2>1 DEF Steps
  <2>6. Drain'
    <3>1. joined' \in BOOLEAN
      BY <2>1, Zenon
    <3>2. joined' => DueResolved'
      BY <2>1, <2>3, Zenon
    <3>3. timedOut' \in BOOLEAN /\ due' \in Nat /\ due' <= Len(arrived')
      BY <2>1, <2>4, <1>1, <1>2 DEF Drain
    <3> QED
      BY <2>1, <3>1, <3>2, <3>3 DEF Drain
  <2> QED
    BY <1>1, <1>2, <2>1, <2>5, <2>6
<1>5. CASE EndDrain
  <2>1. /\ stage = "draining" /\ stage' = "stopping" /\ timedOut' = ~joined /\ Stop
        /\ UNCHANGED <<task, toldToEnd, joined, due>>
    BY <1>5 DEF EndDrain
  <2>2. /\ toldToStop' = TRUE
        /\ UNCHANGED <<queue, unfinished, worker, inHand, attempts, arrived, taken, fate>>
    BY <2>1 DEF Stop
  <2>3. Uploads'
    BY <2>1, UploadsStay DEF Next
  <2>4. Tasks'
    BY <2>1, <2>2 DEF Tasks, WorkerDone
  <2>5. Steps'
    BY <2>1, <2>2 DEF Steps, WorkerDone
  <2>6. Drain'
    BY <2>1, <2>2 DEF Drain, DueResolved, Resolved
  <2> QED
    BY <2>3, <2>4, <2>5, <2>6
<1>6. CASE WorkerCancelled
  BY <1>1, <1>2, <1>6 DEF WorkerCancelled, Steps, Drain
<1>7. CASE CancelTasks
  BY <1>1, <1>2, <1>7 DEF CancelTasks, Steps, Drain
<1> QED
  BY <1>3, <1>4, <1>5, <1>6, <1>7 DEF Cleanup

-----------------------------------------------------------------------------
(* The invariant, and what it says.                                        *)

\* Before the shutdown nothing has happened yet.
LEMMA ShuttingInit == ShutdownInit => Shutting
<1> SUFFICES ASSUME ShutdownInit PROVE Shutting
  OBVIOUS
<1>1. Init
  BY DEF ShutdownInit
<1>2. Uploads
  BY <1>1, TypedInit, UploaderAssumption
     DEF Uploads, Init, Fresh, QueueIsFresh, HandMayBeSent, UnseenIsFresh, QueuedIsThere,
         JoinIsExact, Hand
<1>3. Tasks
  BY <1>1 DEF ShutdownInit, Init, Tasks
<1>4. Steps
  BY <1>1 DEF ShutdownInit, Init, Steps, WorkerDone, Stages
<1>5. Drain
  <2>1. joined = FALSE /\ timedOut = FALSE /\ due = 0 /\ stage = "serving"
    BY DEF ShutdownInit
  <2>2. Len(arrived) = 0
    BY <1>1 DEF Init
  <2>3. joined \in BOOLEAN /\ timedOut \in BOOLEAN
    BY <2>1, Zenon
  <2> QED
    BY <2>1, <2>2, <2>3 DEF Drain
<1> QED
  BY <1>2, <1>3, <1>4, <1>5 DEF Shutting

\* Every step keeps the invariant, whoever takes it.
LEMMA ShuttingStep ==
  ASSUME Shutting, [ShutdownNext]_vars
  PROVE  Shutting'
<1>1. CASE Cleanup
  BY <1>1, CleanupKeeps
<1>2. CASE UploaderStep
  BY <1>2, UploaderKeeps
<1>3. CASE \E r \in Results : TaskStep(r)
  <2>1. PICK r \in Results : TaskStep(r)
    BY <1>3
  <2>2. CASE TaskLeaks(r)
    BY <2>2, BesideResultsKeeps DEF TaskLeaks
  <2> QED
    BY <2>1, <2>2, TaskQueuesKeeps, TaskSendsKeeps, SendsKeep DEF TaskStep
<1>5. CASE Heartbeats
  BY <1>5, BesideResultsKeeps
     DEF Heartbeats, ManagerSends, ManagerAnswered, NoticeSent, NoticeOver
<1>4. CASE UNCHANGED vars
  <2>1. UNCHANGED <<queue, unfinished, worker, inHand, attempts, toldToStop, arrived, taken,
                    fate, stage, task, toldToEnd, joined, timedOut, due>>
    BY <1>4 DEF vars, uploader, cleanup
  <2>2. Uploads'
    BY <1>4, UploadsStay DEF vars, Shutting
  <2> QED
    BY <2>1, <2>2
       DEF Shutting, Tasks, Steps, Drain, WorkerDone, Running, DueResolved, Resolved
<1> QED
  BY <1>1, <1>2, <1>3, <1>4, <1>5 DEF ShutdownNext

(***************************************************************************)
(* The cleanup, the tasks and the uploader always fit together as Shutting *)
(* says, in whatever order their steps happen.                             *)
(***************************************************************************)
THEOREM ShuttingCorrect == ShutdownSpec => []Shutting
<1> QED
  BY ShuttingInit, ShuttingStep, PTL DEF ShutdownSpec

-----------------------------------------------------------------------------
(* The heartbeats.                                                         *)

\* What the truth value becomes that SendOffline computes.
LEMMA SendOfflineFacts ==
  ASSUME SendOffline
  PROVE  /\ unsettled' \in BOOLEAN
         /\ ~unsettled' => Running = {} /\ Unheard = {}
BY Zenon DEF SendOffline

\* A heartbeat that leaves after the offline one makes it late.
LEMMA LateFacts ==
  ASSUME ManagerSends \/ \E c \in Changes : NoticeSent(c)
  PROVE  /\ late' \in BOOLEAN
         /\ late' => late \/ Told
BY Zenon DEF ManagerSends, NoticeSent

\* Before the shutdown nothing has been told yet.
LEMMA SpeechInit == ShutdownInit => Speech
<1> SUFFICES ASSUME ShutdownInit PROVE Speech
  OBVIOUS
<1>1. unsettled = FALSE /\ late = FALSE /\ stage = "serving" /\ manager = "waiting"
      /\ notice = [c \in Changes |-> IF c = Earlier THEN "spawned" ELSE "none"]
  BY DEF ShutdownInit
<1>2. unsettled \in BOOLEAN /\ late \in BOOLEAN
  BY <1>1, Zenon
<1> QED
  BY <1>1, <1>2 DEF Speech, Told

\* Whoever speaks after the offline heartbeat, or makes another speak, was there when
\* it left.
LEMMA SpeechStep ==
  ASSUME Shutting, Speech, [ShutdownNext]_vars
  PROVE  Speech'
<1> USE DEF Speech, Told, Unheard, Running, Changes
<1>0. task \in [Results -> {"running", "sending", "done"}]
  BY DEF Shutting, Tasks
<1>1. ASSUME UNCHANGED <<task, heartbeats>>, stage' # "serving" => manager = "ended",
             Told' <=> Told
      PROVE  Speech'
  BY <1>1 DEF heartbeats
<1>2. ASSUME NEW r \in Results, task[r] # "done", UNCHANGED stage,
             \/ task' = [task EXCEPT ![r] = "done"]
             \/ task' = [task EXCEPT ![r] = "sending"],
             Notifies(r) \/ UNCHANGED heartbeats
      PROVE  Speech'
  <2>1. r \in Running
    BY <1>2
  <2>2. notice' \in [Changes -> {"none", "spawned", "sending", "over"}]
        /\ UNCHANGED <<manager, unsettled, late, stage>>
    BY <1>2 DEF Notifies, heartbeats
  <2> QED
    BY <2>1, <2>2
<1>3. CASE \E r \in Results : TaskStep(r)
  <2>1. PICK r \in Results : TaskStep(r)
    BY <1>3
  <2>2. task[r] # "done" /\ UNCHANGED stage
    BY <2>1 DEF TaskStep, TaskQueues, TaskSends, TaskSent, TaskCutOff, TaskLeaks, cleanup
  <2>3. \/ task' = [task EXCEPT ![r] = "done"]
        \/ task' = [task EXCEPT ![r] = "sending"]
    BY <2>1 DEF TaskStep, TaskQueues, TaskSends, TaskSent, TaskCutOff, TaskLeaks
  <2>4. Notifies(r) \/ UNCHANGED heartbeats
    BY <2>1 DEF TaskStep, TaskQueues, TaskSends, TaskSent, TaskCutOff, TaskLeaks, heartbeats
  <2> QED
    BY <1>2, <2>2, <2>3, <2>4
<1>4. CASE UploaderStep
  BY <1>1, <1>4 DEF UploaderStep, heartbeats
<1>5. CASE Heartbeats
  <2>1. UNCHANGED <<stage, task, unsettled>>
    BY <1>5 DEF Heartbeats, ManagerSends, ManagerAnswered, NoticeSent, NoticeOver, cleanup
  <2>2. CASE ManagerSends
    <3>1. stage = "serving" /\ manager' = "sending" /\ UNCHANGED notice
      BY <2>2 DEF ManagerSends
    <3> QED
      BY <2>1, <2>2, <3>1, LateFacts
  <2>3. CASE ManagerAnswered
    BY <2>1, <2>3 DEF ManagerAnswered
  <2>4. ASSUME NEW c \in Changes, NoticeSent(c) PROVE Speech'
    <3>1. c \in Unheard /\ notice' = [notice EXCEPT ![c] = "sending"] /\ UNCHANGED manager
      BY <2>4 DEF NoticeSent
    <3> QED
      BY <2>1, <2>4, <3>1, LateFacts
  <2>5. ASSUME NEW c \in Changes, NoticeOver(c) PROVE Speech'
    <3>1. notice' = [notice EXCEPT ![c] = "over"] /\ UNCHANGED <<manager, late>>
      BY <2>5 DEF NoticeOver
    <3>2. Unheard' \subseteq Unheard
      BY <3>1
    <3> QED
      BY <2>1, <3>1, <3>2
  <2> QED
    BY <1>5, <2>2, <2>3, <2>4, <2>5 DEF Heartbeats
<1>6. CASE Shutdown
  <2>1. stage = "serving" /\ stage' = "s3" /\ manager' = "ended"
        /\ UNCHANGED <<task, notice, unsettled, late>>
    BY <1>6 DEF Shutdown, Goes
  <2> QED
    BY <2>1
<1>7. CASE SendOffline
  <2>1. stage = "s3" /\ stage' = "offline" /\ UNCHANGED <<task, notice, manager, late>>
    BY <1>7 DEF SendOffline, Goes
  <2>2. ~late
    BY <2>1
  <2> QED
    BY <1>7, <2>1, <2>2, SendOfflineFacts
<1>8. CASE \/ StartDrain \/ EndDrain \/ WorkerReturned
           \/ WorkerCancelled \/ CancelTasks \/ TasksEnded \/ CloseClients
  <2>1. UNCHANGED <<task, heartbeats>>
    BY <1>8 DEF StartDrain, EndDrain, WorkerReturned, WorkerCancelled, CancelTasks,
                TasksEnded, CloseClients, heartbeats
  <2>2. stage \notin {"serving", "s3"} /\ stage' \notin {"serving", "s3"}
    BY <1>8 DEF StartDrain, EndDrain, WorkerReturned, WorkerCancelled, CancelTasks,
                TasksEnded, CloseClients, Goes
  <2> QED
    BY <1>1, <2>1, <2>2
<1>9. CASE UNCHANGED vars
  BY <1>1, <1>9 DEF vars, cleanup
<1> QED
  BY <1>3, <1>4, <1>5, <1>6, <1>7, <1>8, <1>9 DEF ShutdownNext, Cleanup

\* The heartbeats keep to this in whatever order the steps happen.
LEMMA SpeechCorrect == ShutdownSpec => []Speech
<1> QED
  BY SpeechInit, SpeechStep, ShuttingCorrect, PTL DEF ShutdownSpec

(***************************************************************************)
(* Every variable of the shutdown keeps its type.                          *)
(***************************************************************************)
THEOREM ShutdownTypeCorrect == ShutdownSpec => []ShutdownTypeOK
<1>1. Shutting /\ Speech => ShutdownTypeOK
  BY DEF Shutting, Uploads, Typed, Tasks, Steps, Drain, Speech, ShutdownTypeOK
<1> QED
  BY <1>1, ShuttingCorrect, SpeechCorrect, PTL

(***************************************************************************)
(* The offline heartbeat is the last thing an orchestrator hears, and no   *)
(* heartbeat is under way when the transports are closed, unless a task or *)
(* a spawned heartbeat was not over when it left; and a transport is never *)
(* closed under a result or a manager.                                     *)
(***************************************************************************)
THEOREM OfflineIsLastCorrect == ShutdownSpec => []OfflineIsLast
<1>1. Shutting /\ Speech => OfflineIsLast
  BY DEF Shutting, Uploads, Typed, HandIsBusy, Steps, Speech, OfflineIsLast, WorkerDone
<1> QED
  BY <1>1, ShuttingCorrect, SpeechCorrect, PTL

(***************************************************************************)
(* Unless a timeout expired, every result queued before the drain began    *)
(* has been sent or given up by regular means when the queue worker is     *)
(* stopped, although tasks that end meanwhile queue more.                  *)
(***************************************************************************)
THEOREM DueResultsSentCorrect == ShutdownSpec => []DueResultsSent
<1>1. Shutting => DueResultsSent
  BY DEF Shutting, Drain, DueResolved, Resolved, DueResultsSent
<1> QED
  BY <1>1, ShuttingCorrect, PTL

=============================================================================
