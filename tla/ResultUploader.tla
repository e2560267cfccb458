------------------------------ MODULE ResultUploader ------------------------------
(***************************************************************************)
(* The asynchronous uploader of results: finished tasks put their result   *)
(* into _result_queue, and one task, _result_queue_worker, takes them out  *)
(* in order and sends each to the orchestrator it belongs to, trying up to *)
(* RESULT_MAX_RETRIES times.  Sleeping between attempts is done by that    *)
(* same task, whoever the next result in the queue is for.                 *)
(*                                                                         *)
(* How long it sleeps (a delay that doubles, or Retry-After if longer) is  *)
(* abstracted: a sleep ends at some time.                                  *)
(***************************************************************************)
EXTENDS Integers, Sequences

CONSTANTS Results,           \* one per finished task
          Clients, ClientOf, \* ClientOf[r]: the transport of r's orchestrator
          MaxRetries,        \* RESULT_MAX_RETRIES
          Nothing            \* "the worker holds no result"

ASSUME UploaderAssumption ==
  /\ ClientOf \in [Results -> Clients]
  /\ MaxRetries \in Nat
  /\ Nothing \notin Results

VARIABLES
  queue,          \* contents of _result_queue
  unfinished,     \* what its join() waits to become 0
  worker,         \* where _result_queue_worker stands
  inHand,         \* the result it took last, Nothing after task_done
  attempts,       \* attempts[r]: calls of send_result with r
  toldToStop,     \* cancel() was called on it
  fate,           \* what became of each result
  arrived, taken  \* results in the order they were queued, and done with

uploader == <<queue, unfinished, worker, inHand, attempts, toldToStop, fate,
              arrived, taken>>

Fates == {"none", "queued", "accepted", "dropped", "abandoned", "lost"}

\* done() of the worker's task: it left its loop, or CancelledError ended it.
WorkerDone == worker \in {"returned", "cancelled"}

Init ==
  /\ queue = <<>>
  /\ unfinished = 0
  /\ worker = "getting"
  /\ inHand = Nothing
  /\ attempts = [r \in Results |-> 0]
  /\ toldToStop = FALSE
  /\ fate = [r \in Results |-> "none"]
  /\ arrived = <<>>
  /\ taken = <<>>

\* A task that ends queues its result as long as the worker's task is not done.
Put(r) ==
  /\ fate[r] = "none"
  /\ ~WorkerDone
  /\ queue' = Append(queue, r)
  /\ arrived' = Append(arrived, r)
  /\ unfinished' = unfinished + 1
  /\ fate' = [fate EXCEPT ![r] = "queued"]
  /\ UNCHANGED <<worker, inHand, attempts, toldToStop, taken>>

\* The end of the loop body for result r: task_done() in the finally block.
TaskDone(r, outcome) ==
  /\ unfinished' = unfinished - 1
  /\ taken' = Append(taken, r)
  /\ fate' = [fate EXCEPT ![r] = outcome]
  /\ inHand' = Nothing

\* The worker runs on its own unless a cancellation is pending.
Working(at) == worker = at /\ ~toldToStop

\* It takes the oldest result and sends it; with no attempt allowed it is done with.
Get ==
  /\ Working("getting")
  /\ queue # <<>>
  /\ queue' = Tail(queue)
  /\ IF MaxRetries = 0
     THEN TaskDone(Head(queue), "dropped") /\ UNCHANGED worker
     ELSE /\ inHand' = Head(queue)
          /\ worker' = "sending"
          /\ UNCHANGED <<unfinished, fate, taken>>
  /\ UNCHANGED <<attempts, toldToStop, arrived>>

\* MUTANT: attempts are not counted.
SentUncounted == UNCHANGED attempts

Sent == attempts' = [attempts EXCEPT ![inHand] = @ + 1]

Sleep ==
  /\ worker' = "sleeping"
  /\ UNCHANGED <<queue, unfinished, inHand, toldToStop, fate, arrived, taken>>

\* The orchestrator answers; a result it ignores is only logged.
SendAnswered ==
  /\ Working("sending")
  /\ Sent
  /\ TaskDone(inHand, "accepted")
  /\ worker' = "getting"
  /\ UNCHANGED <<queue, toldToStop, arrived>>

\* MUTANT: a result that is rate limited goes to the end of the queue.
SendRateLimitedLast ==
  /\ Working("sending")
  /\ Sent
  /\ queue' = Append(queue, inHand)
  /\ inHand' = Nothing
  /\ worker' = "getting"
  /\ UNCHANGED <<unfinished, toldToStop, fate, arrived, taken>>

\* send_result is rate limited: it sleeps, after the last attempt too.
SendRateLimited == Working("sending") /\ Sent /\ Sleep

\* The error of the rate limit carries no details: asking them for retry_after raises
\* inside the handler, and the handler around the loop is done with the result.
SendRateLimitedUnexplained ==
  /\ Working("sending")
  /\ Sent
  /\ TaskDone(inHand, "abandoned")
  /\ worker' = "getting"
  /\ UNCHANGED <<queue, toldToStop, arrived>>

\* Any other exception: it sleeps unless this was the last attempt.
SendFails ==
  /\ Working("sending")
  /\ attempts[inHand] + 1 < MaxRetries
  /\ Sent
  /\ Sleep

\* MUTANT: the last attempt is not made.
SendFailsTooEarly ==
  /\ Working("sending")
  /\ attempts[inHand] + 1 >= MaxRetries - 1
  /\ Sent
  /\ TaskDone(inHand, "dropped")
  /\ worker' = "getting"
  /\ UNCHANGED <<queue, toldToStop, arrived>>

SendFailsForGood ==
  /\ Working("sending")
  /\ attempts[inHand] + 1 >= MaxRetries
  /\ Sent
  /\ TaskDone(inHand, "dropped")
  /\ worker' = "getting"
  /\ UNCHANGED <<queue, toldToStop, arrived>>

\* The next turn of the for loop,
WakeUp ==
  /\ Working("sleeping")
  /\ attempts[inHand] < MaxRetries
  /\ worker' = "sending"
  /\ UNCHANGED <<queue, unfinished, inHand, attempts, toldToStop, fate, arrived, taken>>

\* or its end, the result not sent.
GiveUp ==
  /\ Working("sleeping")
  /\ attempts[inHand] >= MaxRetries
  /\ TaskDone(inHand, "dropped")
  /\ worker' = "getting"
  /\ UNCHANGED <<queue, attempts, toldToStop, arrived>>

\* cancel() on the worker's task.
Stop ==
  /\ ~WorkerDone /\ ~toldToStop
  /\ toldToStop' = TRUE
  /\ UNCHANGED <<queue, unfinished, worker, inHand, attempts, fate, arrived, taken>>

\* Its next step: it leaves the loop if it was waiting for a result,
EndIdle ==
  /\ toldToStop /\ worker = "getting"
  /\ worker' = "returned"
  /\ UNCHANGED <<queue, unfinished, inHand, attempts, toldToStop, fate, arrived, taken>>

\* MUTANT: task_done() is called for a get() that was cancelled too.
EndAny ==
  /\ toldToStop /\ worker \in {"getting", "sending", "sleeping"}
  /\ worker' = "cancelled"
  /\ TaskDone(inHand, "lost")
  /\ UNCHANGED <<queue, attempts, toldToStop, arrived>>

\* MUTANT: task_done() is not called when a send is cancelled.
EndUndone ==
  /\ toldToStop /\ worker \in {"sending", "sleeping"}
  /\ worker' = "cancelled"
  /\ taken' = Append(taken, inHand)
  /\ fate' = [fate EXCEPT ![inHand] = "lost"]
  /\ inHand' = Nothing
  /\ UNCHANGED <<queue, unfinished, attempts, toldToStop, arrived>>

\* and otherwise loses the one in hand and ends as cancelled.
EndBusy ==
  /\ toldToStop /\ worker \in {"sending", "sleeping"}
  /\ worker' = "cancelled"
  /\ TaskDone(inHand, "lost")
  /\ UNCHANGED <<queue, attempts, toldToStop, arrived>>

WorkerStep ==
  \/ Get \/ SendAnswered \/ SendRateLimited \/ SendRateLimitedUnexplained
  \/ SendFails \/ SendFailsForGood \/ WakeUp \/ GiveUp \/ EndIdle \/ EndBusy

Next == Stop \/ WorkerStep \/ \E r \in Results : Put(r)

Spec == Init /\ [][Next]_uploader

\* The event loop resumes the worker, requests time out and sleeps end.
FairSpec == Spec /\ WF_uploader(WorkerStep)

-----------------------------------------------------------------------------
(* Properties.                                                             *)

TypeOK ==
  /\ queue \in Seq(Results)
  /\ unfinished \in Int
  /\ worker \in {"getting", "sending", "sleeping", "returned", "cancelled"}
  /\ inHand \in Results \cup {Nothing}
  /\ attempts \in [Results -> Nat]
  /\ toldToStop \in BOOLEAN
  /\ fate \in [Results -> Fates]
  /\ arrived \in Seq(Results)
  /\ taken \in Seq(Results)

Hand == IF inHand = Nothing THEN <<>> ELSE <<inHand>>

\* Results are never lost from the queue, duplicated in it or overtaken: those that
\* arrived are, in this order, those done with, the one in hand and those waiting.
InOrder == arrived = taken \o Hand \o queue

\* join() returns exactly when no result waits or is being sent: every way out of the
\* loop body, cancellation included, calls task_done() once.
JoinIsExact == unfinished = Len(queue) + Len(Hand)

\* A result is given up only after RESULT_MAX_RETRIES calls of send_result, or after a
\* rate limit without details, none is handed to the transport more often than that, and
\* only stopping the worker loses one.
GivenUpAfterAllAttempts ==
  \A r \in Results :
     /\ attempts[r] <= MaxRetries
     /\ fate[r] = "dropped" => attempts[r] = MaxRetries
     /\ fate[r] = "lost" => worker = "cancelled"

\* Every queued result is sent or given up, unless the worker is stopped: retries to an
\* orchestrator that is down delay the others' results but do not block them.
QueuedIsResolved ==
  \A r \in Results : fate[r] = "queued" ~> (fate[r] # "queued" \/ WorkerDone)

=============================================================================
