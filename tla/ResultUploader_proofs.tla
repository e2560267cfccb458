-------------------------- MODULE ResultUploader_proofs --------------------------
(***************************************************************************)
(* Proofs about ResultUploader, for any results, any assignment of them to *)
(* orchestrators and any RESULT_MAX_RETRIES.                               *)
(***************************************************************************)
EXTENDS ResultUploader, SequenceTheorems, TLAPS

\* The worker has a result in hand exactly while it sends or sleeps for one.
HandIsBusy == inHand # Nothing <=> worker \in {"sending", "sleeping"}

Typed == TypeOK /\ HandIsBusy

\* The end of the loop body, and an attempt, keep the types.
LEMMA TaskDoneTyped ==
  ASSUME TypeOK, NEW r \in Results, NEW outcome \in Fates, TaskDone(r, outcome)
  PROVE  /\ unfinished' \in Int
         /\ taken' \in Seq(Results)
         /\ fate' \in [Results -> Fates]
         /\ inHand' = Nothing
BY DEF TypeOK, TaskDone

\* A sending counts as one attempt.
LEMMA SentTyped ==
  ASSUME TypeOK, inHand \in Results, Sent
  PROVE  attempts' \in [Results -> Nat]
BY DEF TypeOK, Sent

\* Every action keeps the types and the link between the worker's place and its hand.
LEMMA TypedStep ==
  ASSUME Typed, [Next]_uploader
  PROVE  Typed'
<1>. USE UploaderAssumption DEF Typed, TypeOK, HandIsBusy, Working
<1>1. ASSUME NEW r \in Results, Put(r) PROVE Typed'
  BY <1>1 DEF Put, WorkerDone, Fates
<1>2. CASE Get
  <2>1. Head(queue) \in Results /\ Tail(queue) \in Seq(Results)
    BY <1>2 DEF Get
  <2>2. CASE MaxRetries = 0
    <3>1. TaskDone(Head(queue), "dropped") /\ worker' = "getting"
      BY <1>2, <2>2 DEF Get
    <3>. QED
      BY <1>2, <2>1, <3>1, TaskDoneTyped DEF Get, Fates
  <2>3. CASE MaxRetries # 0
    BY <1>2, <2>1, <2>3 DEF Get
  <2>. QED
    BY <2>2, <2>3
<1>3. CASE SendAnswered \/ SendRateLimitedUnexplained \/ SendFailsForGood
  <2>1. inHand \in Results /\ worker' = "getting"
    BY <1>3 DEF SendAnswered, SendRateLimitedUnexplained, SendFailsForGood
  <2>2. attempts' \in [Results -> Nat]
    BY <1>3, <2>1, SentTyped DEF SendAnswered, SendRateLimitedUnexplained, SendFailsForGood
  <2>3. \E outcome \in Fates : TaskDone(inHand, outcome)
    BY <1>3 DEF SendAnswered, SendRateLimitedUnexplained, SendFailsForGood, Fates
  <2>4. UNCHANGED <<queue, toldToStop, arrived>>
    BY <1>3 DEF SendAnswered, SendRateLimitedUnexplained, SendFailsForGood
  <2>. QED
    BY <2>1, <2>2, <2>3, <2>4, TaskDoneTyped
<1>4. CASE GiveUp \/ EndBusy
  <2>1. inHand \in Results /\ worker' \in {"getting", "cancelled"}
    BY <1>4 DEF GiveUp, EndBusy
  <2>2. \E outcome \in Fates : TaskDone(inHand, outcome)
    BY <1>4 DEF GiveUp, EndBusy, Fates
  <2>3. UNCHANGED <<queue, attempts, toldToStop, arrived>>
    BY <1>4 DEF GiveUp, EndBusy
  <2>. QED
    BY <2>1, <2>2, <2>3, TaskDoneTyped
<1>5. CASE SendRateLimited \/ SendFails
  <2>1. inHand \in Results /\ Sleep
    BY <1>5 DEF SendRateLimited, SendFails
  <2>2. attempts' \in [Results -> Nat]
    BY <1>5, <2>1, SentTyped DEF SendRateLimited, SendFails
  <2>. QED
    BY <2>1, <2>2 DEF Sleep
<1>6. CASE WakeUp
  BY <1>6 DEF WakeUp
<1>7. CASE Stop \/ EndIdle
  BY <1>7 DEF Stop, EndIdle
<1>8. CASE UNCHANGED uploader
  BY <1>8 DEF uploader
<1>. QED
  BY <1>1, <1>2, <1>3, <1>4, <1>5, <1>6, <1>7, <1>8 DEF Next, WorkerStep

\* The types hold at the start,
LEMMA TypedInit == Init => Typed
<1>1. <<>> \in Seq(Results)
  BY EmptySeq
<1>2. Init => attempts \in [Results -> Nat] /\ fate \in [Results -> Fates]
  BY DEF Init, Fates
<1>3. Init => /\ queue \in Seq(Results) /\ arrived \in Seq(Results)
              /\ taken \in Seq(Results)
  BY <1>1, Zenon DEF Init
<1>4. Init => unfinished \in Int
  BY DEF Init
<1>5. Init => toldToStop \in BOOLEAN
  BY Zenon DEF Init
<1>6. Init => HandIsBusy
  BY DEF Init, HandIsBusy
<1>7. Init => inHand \in Results \cup {Nothing}
              /\ worker \in {"getting", "sending", "sleeping", "returned", "cancelled"}
  BY DEF Init
<1>. QED
  BY <1>2, <1>3, <1>4, <1>5, <1>6, <1>7 DEF Typed, TypeOK

\* and always.
LEMMA TypedInvariant == Spec => []Typed
<1>. QED
  BY TypedInit, TypedStep, PTL DEF Spec

\* Every variable of the uploader keeps its type, however sends and cancellations go.
THEOREM UploaderTypeCorrect == Spec => []TypeOK
<1>1. Typed => TypeOK
  BY DEF Typed
<1>. QED
  BY <1>1, TypedInvariant, PTL

-----------------------------------------------------------------------------
(* What a step does to the results: one arrives, one is taken in hand, one *)
(* is done with, or none moves.                                            *)

Arrives == \E r \in Results :
  /\ arrived' = Append(arrived, r) /\ queue' = Append(queue, r)
  /\ unfinished' = unfinished + 1
  /\ UNCHANGED <<inHand, taken>>

IsTakenInHand ==
  /\ queue # <<>> /\ inHand = Nothing
  /\ inHand' = Head(queue) /\ queue' = Tail(queue)
  /\ UNCHANGED <<arrived, taken, unfinished>>

IsDoneAtOnce ==
  /\ queue # <<>> /\ inHand = Nothing
  /\ taken' = Append(taken, Head(queue)) /\ queue' = Tail(queue)
  /\ unfinished' = unfinished - 1
  /\ inHand' = Nothing
  /\ UNCHANGED arrived

IsDone ==
  /\ inHand # Nothing
  /\ taken' = Append(taken, inHand) /\ inHand' = Nothing
  /\ unfinished' = unfinished - 1
  /\ UNCHANGED <<queue, arrived>>

\* No action does anything else to the sequences and the count.
LEMMA ResultMoves ==
  ASSUME Typed, [Next]_uploader
  PROVE  \/ UNCHANGED <<queue, arrived, taken, inHand, unfinished>>
         \/ Arrives \/ IsTakenInHand \/ IsDoneAtOnce \/ IsDone
<1>. USE DEF Typed, HandIsBusy, Working, TaskDone
<1>1. ASSUME NEW r \in Results, Put(r) PROVE Arrives
  BY <1>1 DEF Put, Arrives
<1>2. CASE Get
  BY <1>2 DEF Get, IsTakenInHand, IsDoneAtOnce
<1>3. CASE \/ SendAnswered \/ SendRateLimitedUnexplained
         \/ SendFailsForGood \/ GiveUp \/ EndBusy
  BY <1>3 DEF SendAnswered, SendRateLimitedUnexplained, SendFailsForGood, GiveUp, EndBusy, IsDone
<1>4. CASE SendRateLimited \/ SendFails \/ WakeUp \/ Stop \/ EndIdle \/ UNCHANGED uploader
  BY <1>4 DEF SendRateLimited, SendFails, WakeUp, Stop, EndIdle, Sleep, uploader
<1>. QED
  BY <1>1, <1>2, <1>3, <1>4 DEF Next, WorkerStep

\* A sequence is its head and its tail.
LEMMA FirstAndRest ==
  ASSUME NEW S, NEW s \in Seq(S), s # <<>>
  PROVE  s = <<Head(s)>> \o Tail(s)
<1>1. /\ Len(s) \in Nat \ {0}
      /\ Head(s) \in S /\ Tail(s) \in Seq(S) /\ Len(Tail(s)) = Len(s) - 1
      /\ \A i \in 1..Len(Tail(s)) : Tail(s)[i] = s[i + 1]
  BY EmptySeq, HeadTailProperties
<1>2. <<Head(s)>> \in Seq(S) /\ Len(<<Head(s)>>) = 1 /\ <<Head(s)>>[1] = s[1]
  BY <1>1
<1>. DEFINE t == <<Head(s)>> \o Tail(s)
<1>3. /\ t \in Seq(S) /\ Len(t) = Len(s)
      /\ \A i \in 1..Len(s) : t[i] = IF i <= 1 THEN <<Head(s)>>[i] ELSE Tail(s)[i - 1]
  BY <1>1, <1>2, ConcatProperties
<1>4. \A i \in 1..Len(s) : t[i] = s[i]
  BY <1>1, <1>2, <1>3
<1>. QED
  BY <1>3, <1>4, SeqEqual

\* No step changes that order.
LEMMA OrderStep ==
  ASSUME Typed, InOrder, [Next]_uploader
  PROVE  InOrder'
<1>1. /\ queue \in Seq(Results) /\ arrived \in Seq(Results) /\ taken \in Seq(Results)
      /\ inHand \in Results \cup {Nothing} /\ Hand \in Seq(Results)
  BY DEF Typed, TypeOK, Hand
<1>2. CASE UNCHANGED <<queue, arrived, taken, inHand, unfinished>>
  BY <1>2 DEF InOrder, Hand
<1>3. CASE Arrives
  <2>1. PICK r \in Results : /\ arrived' = Append(arrived, r)
                             /\ queue' = Append(queue, r)
                             /\ UNCHANGED <<inHand, taken>>
    BY <1>3 DEF Arrives
  <2>2. /\ arrived' = arrived \o <<r>> /\ queue' = queue \o <<r>>
        /\ <<r>> \in Seq(Results) /\ Hand' = Hand
    BY <1>1, <2>1, AppendIsConcat DEF Hand
  <2>3. taken \o Hand \in Seq(Results)
    BY <1>1, ConcatProperties
  <2>4. \A s \in Seq(Results) : (s \o queue) \o <<r>> = s \o (queue \o <<r>>)
    BY <1>1, <2>2, ConcatAssociative
  <2>. QED
    BY <2>1, <2>2, <2>3, <2>4 DEF InOrder
<1>4. CASE IsTakenInHand
  <2>1. queue = <<Head(queue)>> \o Tail(queue) /\ Head(queue) \in Results
    BY <1>1, <1>4, FirstAndRest, HeadTailProperties DEF IsTakenInHand
  <2>2. Hand' = <<Head(queue)>> /\ Hand = <<>>
    BY <1>4, <2>1, UploaderAssumption DEF IsTakenInHand, Hand
  <2>3. <<Head(queue)>> \in Seq(Results) /\ Tail(queue) \in Seq(Results)
    BY <1>1, <1>4, <2>1, HeadTailProperties DEF IsTakenInHand
  <2>4. taken \o <<>> = taken
    BY <1>1, ConcatEmptySeq
  <2>5. (taken \o <<Head(queue)>>) \o Tail(queue) = taken \o queue
    BY <1>1, <2>1, <2>3, ConcatAssociative
  <2>. QED
    BY <1>4, <2>2, <2>4, <2>5 DEF InOrder, IsTakenInHand
<1>5. CASE IsDoneAtOnce
  <2>1. queue = <<Head(queue)>> \o Tail(queue) /\ Head(queue) \in Results
    BY <1>1, <1>5, FirstAndRest, HeadTailProperties DEF IsDoneAtOnce
  <2>2. Hand' = <<>> /\ Hand = <<>>
    BY <1>5 DEF IsDoneAtOnce, Hand
  <2>3. <<Head(queue)>> \in Seq(Results) /\ Tail(queue) \in Seq(Results)
    BY <1>1, <1>5, <2>1, HeadTailProperties DEF IsDoneAtOnce
  <2>4. taken' = taken \o <<Head(queue)>> /\ taken' \in Seq(Results)
    BY <1>1, <1>5, <2>1, AppendIsConcat, AppendProperties DEF IsDoneAtOnce
  <2>5. taken' \o <<>> = taken' /\ taken \o <<>> = taken
    BY <1>1, <2>4, ConcatEmptySeq
  <2>6. (taken \o <<Head(queue)>>) \o Tail(queue) = taken \o queue
    BY <1>1, <2>1, <2>3, ConcatAssociative
  <2>. QED
    BY <1>5, <2>2, <2>4, <2>5, <2>6 DEF InOrder, IsDoneAtOnce
<1>6. CASE IsDone
  <2>1. Hand' = <<>> /\ Hand = <<inHand>> /\ inHand \in Results
    BY <1>1, <1>6 DEF IsDone, Hand
  <2>2. taken' = taken \o <<inHand>> /\ taken' \in Seq(Results)
    BY <1>1, <1>6, <2>1, AppendIsConcat, AppendProperties DEF IsDone
  <2>3. taken' \o <<>> = taken'
    BY <2>2, ConcatEmptySeq
  <2>. QED
    BY <1>6, <2>1, <2>2, <2>3 DEF InOrder, IsDone
<1>. QED
  BY <1>2, <1>3, <1>4, <1>5, <1>6, ResultMoves

\* Results leave in the order they came, none twice and none missing, through every
\* retry, rate limit and cancellation.
THEOREM OrderIsKept == Spec => []InOrder
<1>1. Init => InOrder
  BY DEF Init, InOrder, Hand
<1>. QED
  BY <1>1, OrderStep, TypedInvariant, PTL DEF Spec

\* Every step changes the count as it changes the queue and the hand.
LEMMA JoinIsExactStep ==
  ASSUME Typed, JoinIsExact, [Next]_uploader
  PROVE  JoinIsExact'
<1>. USE DEF JoinIsExact, Hand, Typed, TypeOK
<1>1. CASE UNCHANGED <<queue, arrived, taken, inHand, unfinished>>
  BY <1>1
<1>2. CASE Arrives
  BY <1>2 DEF Arrives
<1>3. CASE IsTakenInHand
  BY <1>3, UploaderAssumption DEF IsTakenInHand
<1>4. CASE IsDoneAtOnce
  BY <1>4 DEF IsDoneAtOnce
<1>5. CASE IsDone
  BY <1>5 DEF IsDone
<1>. QED
  BY <1>1, <1>2, <1>3, <1>4, <1>5, ResultMoves

\* The count that join() waits for is the number of results waiting or in hand, so every
\* way through the loop body calls task_done() once.
THEOREM JoinIsExactCorrect == Spec => []JoinIsExact
<1>1. Init => JoinIsExact
  BY DEF Init, JoinIsExact, Hand
<1>. QED
  BY <1>1, JoinIsExactStep, TypedInvariant, PTL DEF Spec

-----------------------------------------------------------------------------
(* Attempts.  A result in the queue is there once, has not been sent and   *)
(* is not the one in hand; the one in hand may be sent once more.          *)

QueueIsFresh ==
  \A i \in 1..Len(queue) :
     /\ fate[queue[i]] = "queued" /\ attempts[queue[i]] = 0 /\ queue[i] # inHand
     /\ \A j \in 1..Len(queue) : queue[i] = queue[j] => i = j

HandMayBeSent ==
  /\ inHand # Nothing => fate[inHand] = "queued"
  /\ worker = "sending" => attempts[inHand] < MaxRetries

UnseenIsFresh == \A r \in Results : fate[r] = "none" => attempts[r] = 0

Fresh == QueueIsFresh /\ HandMayBeSent /\ UnseenIsFresh

Attempted == Fresh /\ GivenUpAfterAllAttempts

\* What holds of every result that waits holds of the oldest and of the others.
LEMMA RestIsFresh ==
  ASSUME Typed, QueueIsFresh, queue # <<>>
  PROVE  /\ Head(queue) \in Results
         /\ fate[Head(queue)] = "queued" /\ attempts[Head(queue)] = 0
         /\ Tail(queue) \in Seq(Results)
         /\ \A i \in 1..Len(Tail(queue)) :
              /\ Tail(queue)[i] \in Results /\ Tail(queue)[i] # Head(queue)
              /\ fate[Tail(queue)[i]] = "queued" /\ attempts[Tail(queue)[i]] = 0
              /\ Tail(queue)[i] # inHand
              /\ \A j \in 1..Len(Tail(queue)) : Tail(queue)[i] = Tail(queue)[j] => i = j
<1>1. queue \in Seq(Results) /\ Len(queue) \in Nat \ {0}
  BY EmptySeq DEF Typed, TypeOK
<1>2. /\ Head(queue) = queue[1] /\ Head(queue) \in Results
      /\ Tail(queue) \in Seq(Results) /\ Len(Tail(queue)) = Len(queue) - 1
      /\ \A i \in 1..Len(Tail(queue)) : Tail(queue)[i] = queue[i + 1]
  BY <1>1, HeadTailProperties
<1>3. ASSUME NEW i \in 1..Len(Tail(queue))
      PROVE  /\ i + 1 \in 1..Len(queue) /\ Tail(queue)[i] = queue[i + 1]
             /\ i + 1 # 1 /\ Tail(queue)[i] \in Results
  BY <1>1, <1>2
<1>4. 1 \in 1..Len(queue)
  BY <1>1
<1>. QED
  BY <1>2, <1>3, <1>4 DEF QueueIsFresh

\* No step changes what waits, but in the order above.
LEMMA FreshStep ==
  ASSUME Typed, Fresh, [Next]_uploader
  PROVE  Fresh'
<1>. USE UploaderAssumption
<1>. USE DEF Fresh, Typed, TypeOK, HandIsBusy, HandMayBeSent, UnseenIsFresh, Working
<1>0. \A i \in 1..Len(queue) : queue[i] \in Results
  OBVIOUS
<1>1. ASSUME NEW r \in Results, Put(r) PROVE Fresh'
  <2>1. /\ queue' \in Seq(Results) /\ Len(queue') = Len(queue) + 1
        /\ \A i \in 1..Len(queue) : queue'[i] = queue[i]
        /\ queue'[Len(queue) + 1] = r
    BY <1>1, AppendProperties DEF Put
  <2>2. fate[r] = "none" /\ attempts[r] = 0 /\ r # inHand
    BY <1>1 DEF Put
  <2>3. \A i \in 1..Len(queue) : queue[i] # r
    BY <2>2 DEF QueueIsFresh
  <2>4. QueueIsFresh'
    <3>1. \A i \in 1..Len(queue') : i \in 1..Len(queue) \/ i = Len(queue) + 1
      BY <2>1
    <3>. QED
      BY <1>0, <1>1, <2>1, <2>2, <2>3, <3>1 DEF Put, QueueIsFresh
  <2>. QED
    BY <1>1, <2>2, <2>4 DEF Put, WorkerDone
<1>2. CASE Get
  <2>1. queue # <<>> /\ queue' = Tail(queue) /\ inHand = Nothing
    BY <1>2 DEF Get
  <2>2. CASE MaxRetries = 0
    <3>1. /\ fate' = [fate EXCEPT ![Head(queue)] = "dropped"]
          /\ inHand' = Nothing /\ UNCHANGED <<worker, attempts>>
      BY <1>2, <2>2 DEF Get, TaskDone
    <3>2. QueueIsFresh'
      BY <2>1, <3>1, RestIsFresh DEF QueueIsFresh
    <3>. QED
      BY <1>2, <2>1, <2>2, <3>1, <3>2, RestIsFresh DEF Get
  <2>3. CASE MaxRetries # 0
    <3>1. /\ inHand' = Head(queue) /\ worker' = "sending"
          /\ UNCHANGED <<fate, attempts>>
      BY <1>2, <2>3 DEF Get
    <3>2. QueueIsFresh'
      BY <2>1, <3>1, RestIsFresh DEF QueueIsFresh
    <3>. QED
      BY <1>2, <2>1, <2>3, <3>1, <3>2, RestIsFresh DEF Get
  <2>. QED
    BY <2>2, <2>3
<1>3. CASE SendAnswered \/ SendRateLimitedUnexplained \/ SendFailsForGood
  <2>1. /\ inHand \in Results /\ attempts[inHand] < MaxRetries /\ fate[inHand] = "queued"
        /\ attempts' = [attempts EXCEPT ![inHand] = @ + 1]
        /\ inHand' = Nothing /\ worker' = "getting" /\ worker = "sending"
        /\ queue' = queue
    BY <1>3 DEF SendAnswered, SendRateLimitedUnexplained, SendFailsForGood, Sent, TaskDone
  <2>2. \E outcome \in Fates : outcome # "none" /\ fate' = [fate EXCEPT ![inHand] = outcome]
    BY <1>3 DEF SendAnswered, SendRateLimitedUnexplained, SendFailsForGood, TaskDone, Fates
  <2>3. QueueIsFresh'
    BY <1>0, <2>1, <2>2 DEF QueueIsFresh
  <2>. QED
    BY <2>1, <2>2, <2>3
<1>4. CASE GiveUp \/ EndBusy
  <2>1. /\ inHand \in Results /\ fate[inHand] = "queued" /\ inHand' = Nothing
        /\ UNCHANGED <<queue, attempts>>
        /\ worker \in {"sending", "sleeping"} /\ worker' # "sending"
    BY <1>4 DEF GiveUp, EndBusy, TaskDone
  <2>2. \E outcome \in Fates : outcome # "none" /\ fate' = [fate EXCEPT ![inHand] = outcome]
    BY <1>4 DEF GiveUp, EndBusy, TaskDone, Fates
  <2>3. QueueIsFresh'
    BY <1>0, <2>1, <2>2 DEF QueueIsFresh
  <2>. QED
    BY <2>1, <2>2, <2>3
<1>5. CASE SendRateLimited \/ SendFails
  <2>1. /\ inHand \in Results /\ attempts[inHand] < MaxRetries /\ fate[inHand] = "queued"
        /\ attempts' = [attempts EXCEPT ![inHand] = @ + 1]
        /\ worker' = "sleeping" /\ worker = "sending"
        /\ UNCHANGED <<queue, inHand, fate>>
    BY <1>5 DEF SendRateLimited, SendFails, Sent, Sleep
  <2>2. QueueIsFresh'
    BY <1>0, <2>1 DEF QueueIsFresh
  <2>. QED
    BY <2>1, <2>2
<1>6. CASE WakeUp
  BY <1>6 DEF WakeUp, QueueIsFresh
<1>7. CASE Stop \/ EndIdle
  BY <1>7 DEF Stop, EndIdle, QueueIsFresh, WorkerDone
<1>8. CASE UNCHANGED uploader
  BY <1>8 DEF uploader, QueueIsFresh
<1>. QED
  BY <1>1, <1>2, <1>3, <1>4, <1>5, <1>6, <1>7, <1>8 DEF Next, WorkerStep

\* The end of a result, or of an attempt, is as GivenUpAfterAllAttempts says.
LEMMA GivenUpStep ==
  ASSUME Typed, Fresh, GivenUpAfterAllAttempts, [Next]_uploader
  PROVE  GivenUpAfterAllAttempts'
<1>. USE UploaderAssumption
<1>. USE DEF Fresh, Typed, TypeOK, HandIsBusy, HandMayBeSent, GivenUpAfterAllAttempts, Working
<1>1. ASSUME NEW r \in Results, Put(r) PROVE GivenUpAfterAllAttempts'
  BY <1>1 DEF Put, WorkerDone
<1>2. CASE Get
  <2>1. CASE MaxRetries = 0
    BY <1>2, <2>1, RestIsFresh DEF Get, TaskDone
  <2>2. CASE MaxRetries # 0
    BY <1>2, <2>2 DEF Get
  <2>. QED
    BY <2>1, <2>2
<1>3. CASE SendAnswered \/ SendRateLimitedUnexplained
  BY <1>3 DEF SendAnswered, SendRateLimitedUnexplained, Sent, TaskDone
<1>7. CASE SendFailsForGood
  BY <1>7 DEF SendFailsForGood, Sent, TaskDone
<1>4. CASE GiveUp \/ EndBusy
  BY <1>4 DEF GiveUp, EndBusy, TaskDone
<1>5. CASE SendRateLimited \/ SendFails
  BY <1>5 DEF SendRateLimited, SendFails, Sent, Sleep
<1>6. CASE WakeUp \/ Stop \/ EndIdle \/ UNCHANGED uploader
  BY <1>6 DEF WakeUp, Stop, EndIdle, WorkerDone, uploader
<1>. QED
  BY <1>1, <1>2, <1>3, <1>4, <1>5, <1>6, <1>7 DEF Next, WorkerStep

\* A result is dropped only after RESULT_MAX_RETRIES calls of send_result, never handed to
\* the transport more often, and lost only when the worker is cancelled, for any number of
\* results and attempts.
THEOREM GivenUpCorrect == Spec => []GivenUpAfterAllAttempts
<1>1. Init => Attempted
  BY UploaderAssumption DEF Init, Attempted, Fresh, QueueIsFresh, HandMayBeSent, UnseenIsFresh,
     GivenUpAfterAllAttempts
<1>2. Typed /\ Attempted /\ [Next]_uploader => Attempted'
  BY FreshStep, GivenUpStep DEF Attempted
<1>3. Attempted => GivenUpAfterAllAttempts
  BY DEF Attempted
<1>. QED
  BY <1>1, <1>2, <1>3, TypedInvariant, PTL DEF Spec

-----------------------------------------------------------------------------
(* What becomes of results, for modules that compose the uploader with     *)
(* others.                                                                 *)

\* A queued result waits or is in hand.
QueuedIsThere ==
  \A r \in Results : fate[r] = "queued" =>
    r = inHand \/ \E i \in 1..Len(queue) : queue[i] = r

\* The worker changes no fate but that of a queued result, which is then over, and lost
\* only when the worker was stopped.
LEMMA FateMoves ==
  ASSUME Typed, Fresh, WorkerStep, NEW r \in Results
  PROVE  \/ fate'[r] = fate[r]
         \/ /\ fate[r] = "queued"
            /\ \/ fate'[r] \in {"accepted", "dropped", "abandoned"}
               \/ fate'[r] = "lost" /\ toldToStop
<1>. USE DEF Fresh, Typed, TypeOK, HandIsBusy, HandMayBeSent, Working
<1>1. CASE Get
  BY <1>1, RestIsFresh DEF Get, TaskDone
<1>2. CASE \/ SendAnswered \/ SendRateLimitedUnexplained
         \/ SendFailsForGood \/ GiveUp \/ EndBusy
  BY <1>2 DEF SendAnswered, SendRateLimitedUnexplained, SendFailsForGood, GiveUp, EndBusy, TaskDone
<1>3. CASE SendRateLimited \/ SendFails \/ WakeUp \/ EndIdle
  BY <1>3 DEF SendRateLimited, SendFails, WakeUp, EndIdle, Sleep
<1>. QED
  BY <1>1, <1>2, <1>3 DEF WorkerStep

\* A worker that works is not done, and is only once it was stopped; nothing arrives by it.
LEMMA WorkerKeeps ==
  ASSUME WorkerStep
  PROVE  ~WorkerDone /\ (WorkerDone' => toldToStop) /\ UNCHANGED <<arrived, toldToStop>>
BY DEF WorkerStep, Get, SendAnswered, SendRateLimited, SendRateLimitedUnexplained, SendFails,
       SendFailsForGood, WakeUp, GiveUp, EndIdle, EndBusy, Sleep, Working, WorkerDone

\* No step forgets a queued result.
LEMMA QueuedIsThereStep ==
  ASSUME Typed, Fresh, QueuedIsThere, [Next]_uploader
  PROVE  QueuedIsThere'
<1>. USE DEF Fresh, Typed, TypeOK, HandIsBusy, HandMayBeSent, Working
<1>1. ASSUME NEW r \in Results, Put(r) PROVE QueuedIsThere'
  <2>1. /\ Len(queue') = Len(queue) + 1 /\ Len(queue) \in Nat
        /\ \A i \in 1..Len(queue) : queue'[i] = queue[i] /\ i \in 1..Len(queue')
        /\ queue'[Len(queue) + 1] = r /\ Len(queue) + 1 \in 1..Len(queue')
    BY <1>1, AppendProperties DEF Put
  <2>. QED
    BY <1>1, <2>1 DEF Put, QueuedIsThere
<1>2. CASE Get
  <2>1. /\ queue # <<>> /\ queue' = Tail(queue) /\ inHand = Nothing
        /\ \/ inHand' = Head(queue) /\ fate' = fate
           \/ fate'[Head(queue)] # "queued" /\ \A r \in Results \ {Head(queue)} : fate'[r] = fate[r]
    BY <1>2, RestIsFresh DEF Get, TaskDone
  <2>2. Head(queue) = queue[1]
    BY <2>1
  <2>3. ASSUME NEW i \in 1..Len(queue), i # 1
        PROVE  i - 1 \in 1..Len(queue') /\ queue'[i - 1] = queue[i]
    BY <2>1, <2>3
  <2>. SUFFICES ASSUME NEW r \in Results, fate'[r] = "queued", r # inHand'
                PROVE  \E i \in 1..Len(queue') : queue'[i] = r
    BY DEF QueuedIsThere
  <2>4. r # Head(queue) /\ fate[r] = "queued"
    BY <2>1
  <2>5. PICK i \in 1..Len(queue) : queue[i] = r
    BY <2>1, <2>4, UploaderAssumption DEF QueuedIsThere
  <2>. QED
    BY <2>2, <2>3, <2>4, <2>5
<1>3. CASE \/ SendAnswered \/ SendRateLimitedUnexplained
         \/ SendFailsForGood \/ GiveUp \/ EndBusy
  BY <1>3 DEF SendAnswered, SendRateLimitedUnexplained, SendFailsForGood, GiveUp,
              EndBusy, TaskDone, QueuedIsThere
<1>4. CASE SendRateLimited \/ SendFails \/ WakeUp \/ Stop \/ EndIdle \/ UNCHANGED uploader
  BY <1>4 DEF SendRateLimited, SendFails, WakeUp, Stop, EndIdle, Sleep, uploader, QueuedIsThere
<1>. QED
  BY <1>1, <1>2, <1>3, <1>4 DEF Next, WorkerStep

=============================================================================
