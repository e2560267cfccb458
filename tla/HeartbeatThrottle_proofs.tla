------------------------- MODULE HeartbeatThrottle_proofs -------------------------
(***************************************************************************)
(* Proofs about HeartbeatThrottle, for any number of spawned heartbeats,   *)
(* any cooldown and interval, and any number of failures.                  *)
(***************************************************************************)
EXTENDS HeartbeatThrottle, TLAPS

\* What the truth values become where the code computes them.
LEMMA EndsFacts ==
  ASSUME NEW c, Ends(c)
  PROVE  /\ delayed' = delayed \ {c}
         /\ debouncing' \in BOOLEAN
         /\ debouncing' <=> debouncing /\ c \notin delayed
BY Zenon DEF Ends

\* Without an overlap nothing was on its way when a heartbeat left.
LEMMA SendFacts ==
  ASSUME NEW c, Send(c)
  PROVE  /\ overlapped' \in BOOLEAN
         /\ ~overlapped' => ~overlapped /\ Sending = {}
BY Zenon DEF Send

\* The state of every variable has its type; in particular the manager is never a
\* delayed heartbeat and the time since the last answer stays within the cooldown.
THEOREM ThrottleTypeCorrect == Spec => []TypeOK
<1>. USE ThrottleAssumption DEF TypeOK, Callers
<1>1. Init => TypeOK
  <2>1. Init => /\ debouncing \in BOOLEAN /\ unsent \in BOOLEAN
                /\ overlapped \in BOOLEAN /\ overtaken \in BOOLEAN
    BY Zenon DEF Init
  <2>2. Init => /\ at \in [Callers -> {"none", "ready", "created", "sleeping", "sending"}]
                /\ left \in [Callers -> Nat]
                /\ delayed \subseteq Calls /\ carrying \subseteq Callers
                /\ sinceAnswer \in 0..Cooldown /\ sinceSent \in 0..Cooldown
                /\ failures \in Nat
    BY DEF Init
  <2>. QED
    BY <2>1, <2>2
<1>2. TypeOK /\ [Next]_vars => TypeOK'
  <2>. SUFFICES ASSUME TypeOK, [Next]_vars PROVE TypeOK'
    OBVIOUS
  <2>1. CASE Change
    BY <2>1 DEF Change, Free
  <2>2. CASE Tick
    BY <2>2 DEF Tick, Older
  <2>0. ASSUME NEW c \in Callers, Starts(c) PROVE TypeOK'
    BY <2>0 DEF Starts
  <2>3. ASSUME NEW c \in Callers, Debounce(c) PROVE TypeOK'
    <3>. USE DEF Resting, Wait, Ends, Free
    <3>1. CASE debouncing
      BY <2>3, <3>1 DEF Debounce
    <3>2. CASE ~debouncing
      <4>1. PICK n \in Free :
               /\ at' = [at EXCEPT ![c] = Resting(c), ![n] = "created"]
               /\ left' = [left EXCEPT ![c] = Wait(c), ![n] = Cooldown - sinceAnswer]
               /\ delayed' = (delayed \ {c}) \cup {n}
               /\ debouncing' = (c \notin delayed)
        BY <2>3, <3>2 DEF Debounce
      <4>2. Cooldown - sinceAnswer \in Nat /\ n \in Calls
        OBVIOUS
      <4>. QED
        BY <2>3, <4>1, <4>2 DEF Debounce
    <3>. QED
      BY <3>1, <3>2
  <2>4. ASSUME NEW c \in Callers, Send(c) PROVE TypeOK'
    <3>1. /\ at' = [at EXCEPT ![c] = "sending"]
          /\ carrying' \subseteq carrying \cup {c}
          /\ sinceSent' = 0
          /\ UNCHANGED <<left, delayed, debouncing, sinceAnswer, overtaken, failures>>
      BY <2>4 DEF Send
    <3>2. unsent' \in BOOLEAN
      BY <2>4, Zenon DEF Send
    <3>. QED
      BY <2>4, <3>1, <3>2, SendFacts
  <2>5. ASSUME NEW c \in Callers, Answered(c) \/ SendFails(c) PROVE TypeOK'
    <3>1. /\ at' = [at EXCEPT ![c] = Resting(c)]
          /\ left' = [left EXCEPT ![c] = Wait(c)]
          /\ Ends(c) /\ carrying' = carrying \ {c}
          /\ sinceAnswer' \in {0, sinceAnswer} /\ failures' \in {failures, failures + 1}
          /\ UNCHANGED <<sinceSent, overlapped>>
      BY <2>5 DEF Answered, SendFails
    <3>2. unsent' \in BOOLEAN
      <4>1. Answered(c) => unsent' \in BOOLEAN
        BY DEF Answered
      <4>2. SendFails(c) => unsent' \in BOOLEAN
        BY Zenon DEF SendFails
      <4>. QED
        BY <2>5, <4>1, <4>2
    <3>3. delayed' \subseteq Calls /\ debouncing' \in BOOLEAN
      BY <3>1, EndsFacts
    <3>4. overtaken' \in BOOLEAN
      BY <2>5, Zenon DEF Answered, SendFails
    <3>. QED
      BY <3>1, <3>2, <3>3, <3>4 DEF Resting, Wait
  <2>6. CASE UNCHANGED vars
    BY <2>6 DEF vars
  <2>. QED
    BY <2>0, <2>1, <2>2, <2>3, <2>4, <2>5, <2>6 DEF Next, Runs
<1>. QED
  BY <1>1, <1>2, PTL DEF Spec

-----------------------------------------------------------------------------
(* The debounce flag.                                                      *)

\* Both branches of the cooldown keep the flag with the one delayed heartbeat: a new one
\* starts only when there is none, and its end clears the flag.
LEMMA FlagStep ==
  ASSUME TypeOK, FlagIsExact, [Next]_vars
  PROVE  FlagIsExact'
<1>. USE ThrottleAssumption DEF TypeOK, Callers, FlagIsExact
<1>1. CASE Change
  BY <1>1 DEF Change, Free
<1>2. CASE Tick
  BY <1>2 DEF Tick
<1>0. ASSUME NEW c \in Callers, Starts(c) PROVE FlagIsExact'
  BY <1>0 DEF Starts
<1>3. ASSUME NEW c \in Callers, Debounce(c) PROVE FlagIsExact'
  <2>. USE DEF Resting, Free, Calling
  <2>1. CASE debouncing
    <3>1. at' = [at EXCEPT ![c] = Resting(c)] /\ Ends(c)
      BY <1>3, <2>1 DEF Debounce
    <3>. QED
      BY <3>1, EndsFacts
  <2>2. CASE ~debouncing
    BY <1>3, <2>2 DEF Debounce
  <2>. QED
    BY <2>1, <2>2
<1>4. ASSUME NEW c \in Callers, Send(c) PROVE FlagIsExact'
  BY <1>4 DEF Send
<1>5. ASSUME NEW c \in Callers, Answered(c) \/ SendFails(c) PROVE FlagIsExact'
  <2>1. at' = [at EXCEPT ![c] = Resting(c)] /\ Ends(c)
    BY <1>5 DEF Answered, SendFails
  <2>. QED
    BY <2>1, EndsFacts DEF Resting
<1>6. CASE UNCHANGED vars
  BY <1>6 DEF vars
<1>. QED
  BY <1>0, <1>1, <1>2, <1>3, <1>4, <1>5, <1>6 DEF Next, Runs

\* _debouncing_flags is set exactly while one delayed heartbeat is pending or in flight,
\* so debouncing never falls silent and never doubles.
THEOREM FlagIsExactCorrect == Spec => []FlagIsExact
<1>1. Init => FlagIsExact
  BY DEF Init, FlagIsExact
<1>. QED
  BY <1>1, FlagStep, ThrottleTypeCorrect, PTL DEF Spec

-----------------------------------------------------------------------------
(* Without overlaps and failures.                                          *)

\* Only one heartbeat is in flight, and none inside the cooldown; nothing was sent
\* after the last answer.
Orderly ==
  /\ \A c, e \in Sending : c = e
  /\ sinceAnswer < Cooldown => Sending = {}
  /\ Sending = {} => sinceSent >= sinceAnswer

OrderlyUnlessDisturbed == ~overlapped /\ failures = 0 => Orderly

\* What is left to sleep of a delayed heartbeat reaches the end of the cooldown at least:
\* when it wakes it may send.
Outlasts(c) ==
  \/ at[c] = "sending"
  \/ at[c] \in {"created", "sleeping"} /\ left[c] + sinceAnswer >= Cooldown

\* Unless an answer came in before a delayed heartbeat was sent, every delayed one will
\* send, and every change has a call.
Punctual ==
  /\ \A c \in delayed : Outlasts(c)
  /\ ChangesHaveACall

PunctualUnlessDisturbed == ~overlapped /\ ~overtaken /\ failures = 0 => Punctual

\* Overlaps, overtaking and failures are remembered.
LEMMA DisturbanceStays ==
  ASSUME TypeOK, [Next]_vars
  PROVE  /\ overlapped => overlapped'
         /\ overtaken => overtaken'
         /\ failures' = 0 => failures = 0
<1>. USE DEF TypeOK
<1>1. ASSUME NEW c \in Callers, Runs(c) \/ Answered(c) \/ SendFails(c)
      PROVE  /\ overlapped => overlapped'
             /\ overtaken => overtaken'
             /\ failures' = 0 => failures = 0
  <2>1. overlapped => overlapped'
    BY <1>1, Zenon DEF Runs, Starts, Debounce, Send, Answered, SendFails
  <2>2. overtaken => overtaken'
    BY <1>1, Zenon DEF Runs, Starts, Debounce, Send, Answered, SendFails
  <2>3. failures' = 0 => failures = 0
    BY <1>1 DEF Runs, Starts, Debounce, Send, Answered, SendFails
  <2>. QED
    BY <2>1, <2>2, <2>3
<1>. QED
  BY <1>1 DEF Next, Change, Tick, vars

\* Every action keeps order as long as nothing overlaps and nothing fails.
LEMMA OrderlyStep ==
  ASSUME TypeOK, OrderlyUnlessDisturbed, [Next]_vars
  PROVE  OrderlyUnlessDisturbed'
<1>. USE ThrottleAssumption DEF TypeOK, Callers
<1>1. SUFFICES ASSUME ~overlapped', failures' = 0 PROVE Orderly'
  BY DEF OrderlyUnlessDisturbed
<1>2. Orderly
  BY <1>1, DisturbanceStays DEF OrderlyUnlessDisturbed
<1>3. ASSUME Sending' = Sending, UNCHANGED <<sinceAnswer, sinceSent>> PROVE Orderly'
  BY <1>2, <1>3 DEF Orderly
<1>4. CASE Change
  BY <1>3, <1>4 DEF Change, Sending, Free
<1>5. CASE Tick
  <2>1. Sending' = Sending
    BY <1>5 DEF Tick, Sending
  <2>2. sinceSent >= sinceAnswer => sinceSent' >= sinceAnswer'
    BY <1>5 DEF Tick, Older
  <2>3. sinceAnswer' < Cooldown => sinceAnswer < Cooldown
    BY <1>5 DEF Tick, Older
  <2>. QED
    BY <1>2, <2>1, <2>2, <2>3 DEF Orderly
<1>6. ASSUME NEW c \in Callers, Starts(c) PROVE Orderly'
  BY <1>3, <1>6 DEF Starts, Sending
<1>7. ASSUME NEW c \in Callers, Debounce(c) PROVE Orderly'
  <2>1. Sending = {}
    BY <1>2, <1>7 DEF Orderly, Debounce
  <2>2. Sending' = {}
    BY <1>7, <2>1 DEF Debounce, Sending, Resting, Free
  <2>. QED
    BY <1>3, <1>7, <2>1, <2>2 DEF Debounce
<1>8. ASSUME NEW c \in Callers, Send(c) PROVE Orderly'
  <2>1. Sending = {}
    BY <1>1, <1>8, SendFacts
  <2>2. /\ sinceAnswer = Cooldown
        /\ at' = [at EXCEPT ![c] = "sending"] /\ UNCHANGED sinceAnswer
    BY <1>8 DEF Send
  <2>3. Sending' = {c}
    BY <2>1, <2>2 DEF Sending
  <2>. QED
    BY <2>2, <2>3 DEF Orderly
<1>9. ASSUME NEW c \in Callers, Answered(c) PROVE Orderly'
  <2>1. Sending = {c}
    BY <1>2, <1>9 DEF Orderly, Answered, Sending
  <2>2. Sending' = {} /\ sinceAnswer' = 0 /\ sinceSent' = sinceSent
    BY <1>9, <2>1 DEF Answered, Sending, Resting
  <2>. QED
    BY <2>2 DEF Orderly
<1>10. ASSUME NEW c \in Callers, SendFails(c) PROVE Orderly'
  BY <1>1, <1>10 DEF SendFails
<1>11. CASE UNCHANGED vars
  BY <1>3, <1>11 DEF vars, Sending
<1>. QED
  BY <1>4, <1>5, <1>6, <1>7, <1>8, <1>9, <1>10, <1>11 DEF Next, Runs

\* While nothing overlaps or fails the heartbeats stay orderly.
LEMMA OrderlyInvariant == Spec => []OrderlyUnlessDisturbed
<1>1. Init => OrderlyUnlessDisturbed
  BY ThrottleAssumption DEF Init, OrderlyUnlessDisturbed, Orderly, Sending, Callers
<1>. QED
  BY <1>1, OrderlyStep, ThrottleTypeCorrect, PTL DEF Spec

\* Inside the cooldown nothing is in flight, so the delayed heartbeat that the flag stands
\* for is still to come: the change that is consolidated into it has a call.
LEMMA DebounceIsPunctual ==
  ASSUME TypeOK, FlagIsExact, Orderly, Punctual, NEW c \in Callers, Debounce(c)
  PROVE  Punctual'
<1>. USE ThrottleAssumption DEF TypeOK, Callers, Calling, Resting, Wait
<1>1. Sending = {} /\ sinceAnswer < Cooldown
  BY DEF Orderly, Debounce
<1>2. c \notin delayed /\ at[c] # "none"
  BY <1>1 DEF Punctual, Outlasts, Debounce, Sending
<1>3. CASE debouncing
  <2>1. /\ at' = [at EXCEPT ![c] = Resting(c)] /\ left' = [left EXCEPT ![c] = Wait(c)]
        /\ delayed' = delayed /\ UNCHANGED <<sinceAnswer, unsent>>
    BY <1>2, <1>3 DEF Debounce, Ends
  <2>2. PICK e \in delayed : e # c /\ e \in Calls /\ at[e] \in {"created", "sleeping"}
    BY <1>1, <1>2, <1>3 DEF FlagIsExact, Punctual, Outlasts, Sending
  <2>3. \A d \in delayed' : at'[d] = at[d] /\ left'[d] = left[d]
    BY <1>2, <2>1
  <2>4. e \in Pending'
    BY <2>1, <2>2 DEF Pending
  <2>. QED
    BY <2>1, <2>3, <2>4 DEF Punctual, Outlasts, ChangesHaveACall
<1>4. CASE ~debouncing
  <2>1. PICK n \in Free :
           /\ at' = [at EXCEPT ![c] = Resting(c), ![n] = "created"]
           /\ left' = [left EXCEPT ![c] = Wait(c), ![n] = Cooldown - sinceAnswer]
           /\ delayed' = (delayed \ {c}) \cup {n}
           /\ UNCHANGED <<sinceAnswer, unsent>>
    BY <1>4 DEF Debounce
  <2>2. n \in Calls /\ n # c /\ delayed' = {n} /\ at'[n] = "created"
        /\ left'[n] = Cooldown - sinceAnswer
    BY <1>2, <1>4, <2>1 DEF Free, FlagIsExact
  <2>3. n \in Pending'
    BY <2>2 DEF Pending
  <2>. QED
    BY <2>1, <2>2, <2>3 DEF Punctual, Outlasts, ChangesHaveACall
<1>. QED
  BY <1>3, <1>4

\* An answer that overtakes no delayed heartbeat leaves none behind.
LEMMA AnswerIsPunctual ==
  ASSUME TypeOK, Orderly, Punctual, NEW c \in Callers, Answered(c), ~overtaken'
  PROVE  Punctual'
<1>. USE ThrottleAssumption DEF TypeOK, Callers
<1>1. /\ Sending = {c} /\ at' = [at EXCEPT ![c] = Resting(c)] /\ UNCHANGED unsent
      /\ delayed' = delayed \ {c}
  BY DEF Answered, Orderly, Sending, Ends
<1>2. \A e \in delayed \ {c} : at[e] = "sending"
  BY Zenon DEF Answered
<1>3. delayed' = {}
  BY <1>1, <1>2 DEF Sending
<1>4. Pending \subseteq Pending'
  BY <1>1 DEF Sending, Pending
<1>. QED
  BY <1>1, <1>3, <1>4 DEF Punctual, ChangesHaveACall

\* Every action keeps the delayed heartbeat and the changes as long as nothing overlaps,
\* overtakes or fails.
LEMMA PunctualStep ==
  ASSUME TypeOK, FlagIsExact, OrderlyUnlessDisturbed, PunctualUnlessDisturbed,
         [Next]_vars
  PROVE  PunctualUnlessDisturbed'
<1>. USE ThrottleAssumption DEF TypeOK, Callers
<1>1. SUFFICES ASSUME ~overlapped', ~overtaken', failures' = 0 PROVE Punctual'
  BY DEF PunctualUnlessDisturbed
<1>2. Orderly /\ Punctual
  BY <1>1, DisturbanceStays DEF OrderlyUnlessDisturbed, PunctualUnlessDisturbed
<1>3. CASE Change
  <2>1. PICK c \in Free : at' = [at EXCEPT ![c] = "ready"]
    BY <1>3 DEF Change
  <2>2. c \in Pending' /\ c \notin delayed
    BY <1>2, <2>1 DEF Free, Pending, Punctual, Outlasts
  <2>. QED
    BY <1>2, <1>3, <2>1, <2>2 DEF Change, Punctual, Outlasts, ChangesHaveACall
<1>4. CASE Tick
  <2>1. Pending' = Pending
    BY <1>4 DEF Tick, Pending
  <2>2. ASSUME NEW c \in delayed PROVE Outlasts(c)'
    <3>1. Outlasts(c) /\ c \in Callers
      BY <1>2 DEF Punctual
    <3>. QED
      BY <1>4, <3>1 DEF Tick, Older, Outlasts
  <2>. QED
    BY <1>2, <1>4, <2>1, <2>2 DEF Tick, Punctual, ChangesHaveACall
<1>5. ASSUME NEW c \in Callers, Starts(c) PROVE Punctual'
  BY <1>2, <1>5 DEF Starts, Punctual, Outlasts, ChangesHaveACall, Pending
<1>6. ASSUME NEW c \in Callers, Debounce(c) PROVE Punctual'
  BY <1>2, <1>6, DebounceIsPunctual
<1>7. ASSUME NEW c \in Callers, Send(c) PROVE Punctual'
  BY <1>2, <1>7 DEF Send, Punctual, Outlasts, ChangesHaveACall
<1>8. ASSUME NEW c \in Callers, Answered(c) PROVE Punctual'
  BY <1>1, <1>2, <1>8, AnswerIsPunctual
<1>9. ASSUME NEW c \in Callers, SendFails(c) PROVE Punctual'
  BY <1>1, <1>9 DEF SendFails
<1>10. CASE UNCHANGED vars
  BY <1>2, <1>10 DEF vars, Punctual, Outlasts, ChangesHaveACall, Pending
<1>. QED
  BY <1>3, <1>4, <1>5, <1>6, <1>7, <1>8, <1>9, <1>10 DEF Next, Runs

\* A change is left without a heartbeat that will carry it only after one failed, after
\* two overlapped, or after an answer that came before a delayed heartbeat was sent.
THEOREM LossNeedsRaceCorrect == Spec => []LossNeedsRace
<1>1. Init => PunctualUnlessDisturbed
  BY DEF Init, PunctualUnlessDisturbed, Punctual, ChangesHaveACall
<1>2. PunctualUnlessDisturbed => LossNeedsRace
  BY DEF PunctualUnlessDisturbed, Punctual, LossNeedsRace
<1>. QED
  BY <1>1, <1>2, PunctualStep, OrderlyInvariant, ThrottleTypeCorrect,
     FlagIsExactCorrect, PTL DEF Spec

\* Heartbeats are a cooldown apart unless they overlap or one failed.
THEOREM SpacingNeedsOverlapCorrect == Spec => SpacingNeedsOverlap
<1>. DEFINE Spaced ==
       \A c \in Callers :
         at[c] # "sending" /\ at'[c] = "sending" /\ ~overlapped' /\ failures = 0
           => sinceSent >= Cooldown
<1>1. TypeOK /\ OrderlyUnlessDisturbed /\ [Next]_vars => Spaced
  <2>. SUFFICES ASSUME TypeOK, OrderlyUnlessDisturbed, [Next]_vars,
                       NEW c \in Callers, at[c] # "sending", at'[c] = "sending",
                       ~overlapped', failures = 0
                PROVE  sinceSent >= Cooldown
    OBVIOUS
  <2>. USE ThrottleAssumption DEF TypeOK, Callers
  <2>1. ASSUME NEW e \in Callers,
               Starts(e) \/ Debounce(e) \/ Answered(e) \/ SendFails(e)
        PROVE  at'[c] # "sending"
    BY <2>1 DEF Starts, Debounce, Answered, SendFails, Resting
  <2>2. at'[c] = at[c] \/ at'[c] # "sending" \/ \E e \in Callers : Send(e)
    BY <2>1 DEF Next, Runs, Change, Tick, vars
  <2>3. PICK e \in Callers : Send(e)
    BY <2>2
  <2>4. Sending = {} /\ ~overlapped
    BY <2>3, SendFacts
  <2>5. sinceAnswer = Cooldown
    BY <2>3 DEF Send
  <2>. QED
    BY <2>4, <2>5 DEF OrderlyUnlessDisturbed, Orderly
<1>. QED
  BY <1>1, ThrottleTypeCorrect, OrderlyInvariant, PTL DEF Spec, SpacingNeedsOverlap

=============================================================================
