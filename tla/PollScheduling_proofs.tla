-------------------------- MODULE PollScheduling_proofs --------------------------
(***************************************************************************)
(* Proofs about PollScheduling, for any number of orchestrators, any       *)
(* weights, back-off parameters and number of failures.                    *)
(***************************************************************************)
EXTENDS PollScheduling, FiniteSetTheorems, TLAPS

-----------------------------------------------------------------------------
(* Least numbers, and induction.  A set stands for the predicate.          *)

\* A set of natural numbers has a least one,
LEMMA LeastOf ==
  ASSUME NEW S, S \subseteq Nat, S # {}
  PROVE  \E x \in S : \A y \in S : x <= y
<1> DEFINE less == OpToRel(<, Nat)
<1>1. PICK least \in S : \A y \in S : ~ (<<y, least>> \in less)
  <2>1. IsWellFoundedOn(less, Nat)
    BY NatLessThanWellFounded
  <2> HIDE DEF less
  <2> QED
    BY <2>1, WFMin
<1>2. ASSUME NEW y \in S PROVE least <= y
  <2>1. less = {pair \in Nat \X Nat : pair[1] < pair[2]}
    BY DEF OpToRel
  <2>2. y \in Nat /\ least \in Nat
    OBVIOUS
  <2>3. ~ (<<y, least>> \in less)
    BY <1>1
  <2> HIDE DEF less
  <2>4. ~ (y < least)
    BY <2>1, <2>2, <2>3
  <2> QED
    BY <2>2, <2>4
<1> QED
  BY <1>2

\* which is what Min chooses.
LEMMA MinIsLeast ==
  ASSUME NEW S, S \subseteq Nat, S # {}
  PROVE  Min(S) \in S /\ \A x \in S : Min(S) <= x
BY LeastOf DEF Min

\* Induction over the natural numbers.
LEMMA Induction ==
  ASSUME NEW Good, 0 \in Good, \A n \in Nat : n \in Good => n + 1 \in Good
  PROVE  \A n \in Nat : n \in Good
<1> SUFFICES ASSUME Nat \ Good # {} PROVE FALSE
  OBVIOUS
<1>1. PICK n \in Nat \ Good : \A m \in Nat \ Good : n <= m
  BY LeastOf
<1>2. n - 1 \in Nat /\ n - 1 \in Good
  BY <1>1
<1> QED
  BY <1>1, <1>2

\* The size of a set of orchestrators.
LEMMA SubsetSize ==
  ASSUME N \in Nat, NEW S \in SUBSET Orchestrators
  PROVE  /\ IsFiniteSet(S)
         /\ Cardinality(S) \in 0..N
         /\ Cardinality(S) = 0 <=> S = {}
         /\ \A x \in S : Cardinality(S \ {x}) = Cardinality(S) - 1
<1>1. IsFiniteSet(Orchestrators) /\ Cardinality(Orchestrators) = N
  BY FS_Interval DEF Orchestrators
<1>2. IsFiniteSet(S) /\ Cardinality(S) <= N
  BY <1>1, FS_Subset
<1> QED
  BY <1>2, FS_CardinalityType, FS_EmptySet, FS_RemoveElement

\* Induction over sets of orchestrators, one added at a time.
LEMMA SubsetInduction ==
  ASSUME N \in Nat, NEW Good, {} \in Good,
         \A S \in SUBSET Orchestrators :
           S # {} /\ (\A x \in S : S \ {x} \in Good) => S \in Good
  PROVE  \A S \in SUBSET Orchestrators : S \in Good
<1> DEFINE sizes == {Cardinality(S) : S \in {S \in SUBSET Orchestrators : S \notin Good}}
<1> SUFFICES ASSUME sizes # {} PROVE FALSE
  OBVIOUS
<1>1. sizes \subseteq Nat
  BY SubsetSize
<1>2. PICK n \in sizes : \A m \in sizes : n <= m
  BY <1>1, LeastOf
<1>3. PICK S \in SUBSET Orchestrators : S \notin Good /\ Cardinality(S) = n
  OBVIOUS
<1>4. ASSUME NEW x \in S PROVE S \ {x} \in Good
  <2>1. Cardinality(S \ {x}) = n - 1 /\ n \in Nat
    BY <1>3, SubsetSize
  <2>2. n - 1 \notin sizes
    BY <1>2, <2>1
  <2> QED
    BY <2>1, <2>2
<1> QED
  BY <1>3, <1>4

-----------------------------------------------------------------------------
(* Who sends.                                                              *)

(***************************************************************************)
(* Only a turn or the next step of a round sends a poll.                   *)
(***************************************************************************)
LEMMA OnlyLoopSends ==
  ASSUME [Next]_vars, NEW o \in Orchestrators, Sends(o)
  PROVE  TakeTurn \/ AskNext
<1>1. asking' = o /\ asking # o /\ o # NoOne
  BY PollAssumption DEF Sends, Orchestrators, NoOne, PollAssumption
<1>2. asking' \in {asking, NoOne} \/ TakeTurn \/ AskNext
  BY DEF Next, Loop, Answer, Registered, SleepBusy, PassOver, RoundOver, WakeUp, ReceiveTask,
         ReceiveNothing, BackOff, ReceiveError, PollCrashes, Answered, TaskEnds, TaskLeaks, Tick,
         vars
<1> QED
  BY <1>1, <1>2

-----------------------------------------------------------------------------
(* The floor of rate-limited orchestrators.                                *)

(***************************************************************************)
(* The time that has passed since an unspecific 429 and the time left to   *)
(* wait make up the floor; of the one that is asked it is over.            *)
(***************************************************************************)
Waits ==
  /\ wait \in [Orchestrators -> Nat]
  /\ backoff \in [Orchestrators -> Nat]
  /\ since \in [Orchestrators -> Nat]
  /\ \A o \in Orchestrators :
       /\ since[o] + wait[o] >= RateLimitFloor
       /\ pc = "polling" /\ asking = o => since[o] >= RateLimitFloor

(***************************************************************************)
(* _calculate_backoff returns at least the floor for a rate limit, though  *)
(* it be above the maximum.                                                *)
(***************************************************************************)
LEMMA BackoffIsFloored ==
  ASSUME NEW b \in Nat, NEW limited \in BOOLEAN, PollAssumption
  PROVE  /\ CalculateBackoff(b, limited) \in Nat
         /\ limited => CalculateBackoff(b, limited) >= RateLimitFloor
BY DEF CalculateBackoff, MaxOf, MinOf, PollAssumption

\* Of every orchestrator, the ticks since an unspecific 429 and those left to wait add up
\* to the floor at least, so one whose wait is over had the floor in full.
THEOREM WaitsCorrect == Spec => []Waits
<1>1. Init => Waits
  BY PollAssumption DEF Init, Waits, PollAssumption
<1>2. Waits /\ [Next]_vars => Waits'
  <2> SUFFICES ASSUME Waits, [Next]_vars PROVE Waits'
    OBVIOUS
  <2> USE PollAssumption DEF PollAssumption
  <2>1. ASSUME timing' = timing, asking' = asking, pc' = "polling" => pc = "polling"
        PROVE  Waits'
    BY <2>1 DEF Waits, timing
  <2>2. CASE Registered \/ SleepBusy \/ PassOver \/ RoundOver \/ WakeUp
    BY <2>1, <2>2 DEF Registered, SleepBusy, PassOver, RoundOver, WakeUp, timing
  <2>3. ASSUME NEW o, timing' = timing, asking' = o, wait[o] = 0
        PROVE  Waits'
    BY <2>3 DEF Waits, timing
  <2>4. CASE TakeTurn
    <3>1. CASE CanAsk(Pick.pick) /\ Asks(Pick.pick)
      BY <2>3, <2>4, <3>1 DEF TakeTurn, Asks, CanAsk, timing
    <3>2. CASE UNCHANGED <<pc, asking, asked>>
      BY <2>1, <2>4, <3>2 DEF TakeTurn, timing
    <3> QED
      BY <2>4, <3>1, <3>2 DEF TakeTurn
  <2>5. CASE AskNext
    <3>1. timing' = timing /\ asking' = next /\ wait[next] = 0
      BY <2>5 DEF AskNext, Asks, CanAsk, timing
    <3> QED
      BY <2>3, <3>1
  <2>6. ASSUME NEW o \in Orchestrators, ReceiveTask(o) \/ ReceiveNothing(o)
        PROVE  Waits'
    BY <2>6 DEF ReceiveTask, ReceiveNothing, Answered, Forgive, Waits
  <2>7. ASSUME NEW o \in Orchestrators, BackOff(o)
        PROVE  Waits'
    <3>1. PICK limited \in BOOLEAN, retryAfter \in ParsedRetryAfters :
            LET new == IF limited /\ retryAfter > 0 THEN retryAfter
                       ELSE CalculateBackoff(backoff[o], limited)
            IN  /\ backoff' = [backoff EXCEPT ![o] = new]
                /\ wait' = [wait EXCEPT ![o] = new]
                /\ since' = IF limited /\ retryAfter = 0 THEN [since EXCEPT ![o] = 0] ELSE since
      BY <2>7 DEF BackOff
    <3> DEFINE new == IF limited /\ retryAfter > 0 THEN retryAfter
                      ELSE CalculateBackoff(backoff[o], limited)
    <3>2. retryAfter \in Nat
      BY DEF ParsedRetryAfters
    <3>3. backoff[o] \in Nat
      BY DEF Waits
    <3>4. new \in Nat /\ (limited /\ retryAfter = 0 => new >= RateLimitFloor)
      BY <3>2, <3>3, BackoffIsFloored
    <3>5. /\ backoff' = [backoff EXCEPT ![o] = new]
          /\ wait' = [wait EXCEPT ![o] = new]
          /\ since' = IF limited /\ retryAfter = 0 THEN [since EXCEPT ![o] = 0] ELSE since
      BY <3>1
    <3>6. pc = "polling" /\ asking = o /\ pc' = "loop"
      BY <2>7 DEF BackOff, Answered
    <3> HIDE DEF new
    <3> QED
      BY <3>4, <3>5, <3>6 DEF Waits
  <2>8. ASSUME NEW o \in Orchestrators, ReceiveError(o) \/ PollCrashes(o)
        PROVE  Waits'
    BY <2>8 DEF ReceiveError, PollCrashes, Answered, Waits
  <2>9. CASE TaskEnds \/ TaskLeaks
    BY <2>1, <2>9 DEF TaskEnds, TaskLeaks, timing
  <2>10. CASE Tick
    BY <2>10 DEF Tick, Waits, MaxOf, MinOf
  <2>11. CASE UNCHANGED vars
    BY <2>1, <2>11 DEF vars
  <2> QED
    BY <2>2, <2>4, <2>5, <2>6, <2>7, <2>8, <2>9, <2>10, <2>11 DEF Next, Loop, Answer
<1> QED
  BY <1>1, <1>2, PTL DEF Spec

(***************************************************************************)
(* After a 429 without Retry-After no poll follows within the floor.       *)
(***************************************************************************)
THEOREM FloorIsKept == Spec => FloorKept
<1>1. Waits /\ Waits' /\ [Next]_vars =>
        [\A o \in Orchestrators : Sends(o) => since[o] >= RateLimitFloor]_vars
  <2> SUFFICES ASSUME Waits, Waits', [Next]_vars, NEW o \in Orchestrators, Sends(o)
               PROVE  since[o] >= RateLimitFloor
    BY DEF Sends, vars
  <2> USE PollAssumption DEF PollAssumption
  <2>1. ASSUME wait[o] = 0 PROVE since[o] >= RateLimitFloor
    BY <2>1 DEF Waits
  <2>2. asking' = o
    BY DEF Sends
  <2>3. CASE TakeTurn
    BY <2>1, <2>2, <2>3 DEF TakeTurn, Asks, CanAsk, Sends
  <2>4. CASE AskNext
    BY <2>1, <2>2, <2>4 DEF AskNext, Asks, CanAsk
  <2> QED
    BY <2>3, <2>4, OnlyLoopSends
<1> QED
  BY <1>1, WaitsCorrect, PTL DEF Spec, FloorKept

-----------------------------------------------------------------------------
(* The rounds of the loop.                                                 *)

(***************************************************************************)
(* A round begins with nobody asked, asks only ahead of those it asked,    *)
(* and any_task_found only holds when the round brought a task.            *)
(***************************************************************************)
Rounds ==
  /\ next \in 1..N + 1
  /\ found => got
  /\ next = 1 => asked = {}
  /\ mode # "ROUND_ROBIN" => asked \subseteq 1..next - 1

(***************************************************************************)
(* A round of WATERFALL that brought a task is over; until then everybody  *)
(* before the next was asked or passed over.                               *)
(***************************************************************************)
InOrder ==
  mode = "WATERFALL" =>
    IF got THEN next = N + 1 ELSE \A p \in 1..next - 1 : p \in asked \cup passed

\* Every step keeps both.
LEMMA RoundsStep ==
  ASSUME Rounds, InOrder, [Next]_vars
  PROVE  Rounds' /\ InOrder'
<1> USE PollAssumption DEF PollAssumption
<1> USE DEF Orchestrators
<1>1. ASSUME UNCHANGED <<mode, next, found, history>>
      PROVE  Rounds' /\ InOrder'
  BY <1>1 DEF Rounds, InOrder, history
<1>2. CASE Registered \/ WakeUp \/ TaskEnds \/ TaskLeaks \/ Tick \/ UNCHANGED vars
  BY <1>1, <1>2 DEF Registered, WakeUp, TaskEnds, TaskLeaks, Tick, vars, config
<1>3. CASE SleepBusy
  BY <1>3 DEF SleepBusy, Rounds, InOrder, config
<1>4. CASE TakeTurn
  <2>1. mode' = "ROUND_ROBIN" /\ next' = N + 1 /\ UNCHANGED <<found, got>>
    BY <1>4 DEF TakeTurn, config
  <2>2. N + 1 # 1 /\ N + 1 \in 1..N + 1
    OBVIOUS
  <2> QED
    BY <2>1, <2>2 DEF Rounds, InOrder
<1>5. CASE AskNext \/ PassOver
  <2>1. /\ next \in 1..N /\ next' = next + 1
        /\ mode # "ROUND_ROBIN"
        /\ asked \subseteq asked' /\ asked' \subseteq asked \cup {next}
        /\ next # 1 => passed \subseteq passed'
        /\ next \in asked' \cup passed'
        /\ UNCHANGED <<mode, found, got>>
    BY <1>5 DEF AskNext, PassOver, Asks, Rounds, config
  <2>2. Rounds'
    BY <2>1 DEF Rounds
  <2>3. ASSUME mode = "WATERFALL", NEW p \in 1..next
        PROVE  p \in asked' \cup passed'
    <3>1. CASE p = next
      BY <2>1, <3>1
    <3>2. CASE p # next
      <4>1. next # 1 /\ p \in 1..next - 1 /\ ~got
        BY <2>1, <2>3, <3>2 DEF InOrder
      <4> QED
        BY <2>1, <2>3, <4>1 DEF InOrder
    <3> QED
      BY <3>1, <3>2
  <2>4. mode' = "WATERFALL" => ~got' /\ next' - 1 = next
    BY <2>1 DEF InOrder
  <2> QED
    BY <2>1, <2>2, <2>3, <2>4 DEF InOrder
<1>6. CASE RoundOver
  <2>1. next' = 1 /\ found' = FALSE /\ got' = FALSE /\ mode' = mode
    BY <1>6 DEF RoundOver, config
  <2>2. asked' = {}
    BY <1>6 DEF RoundOver, Rounds
  <2> QED
    BY <2>1, <2>2 DEF Rounds, InOrder
<1>7. ASSUME NEW o \in Orchestrators, ReceiveTask(o)
      PROVE  Rounds' /\ InOrder'
  <2>1. /\ found' = TRUE /\ got' = TRUE
        /\ next' = IF mode = "WATERFALL" THEN N + 1 ELSE next
        /\ UNCHANGED <<mode, asked>>
    BY <1>7 DEF ReceiveTask, config
  <2>2. N + 1 # 1 /\ N + 1 \in Nat
    OBVIOUS
  <2>3. InOrder'
    BY <2>1 DEF InOrder
  <2>4. CASE mode = "WATERFALL"
    <3>1. next \in 1..N + 1 /\ asked \subseteq 1..next - 1
      BY <2>4 DEF Rounds
    <3>2. next' = N + 1 /\ asked' = asked /\ mode' = mode
      BY <2>1, <2>4
    <3>3. asked \subseteq 1..(N + 1) - 1
      BY <3>1
    <3> QED
      BY <2>1, <2>2, <2>3, <3>2, <3>3 DEF Rounds
  <2>5. CASE mode # "WATERFALL"
    BY <2>1, <2>3, <2>5 DEF Rounds
  <2> QED
    BY <2>4, <2>5
<1>8. ASSUME NEW o \in Orchestrators,
             ReceiveNothing(o) \/ BackOff(o) \/ ReceiveError(o) \/ PollCrashes(o)
      PROVE  Rounds' /\ InOrder'
  <2>1. CASE ReceiveNothing(o)
    BY <1>1, <2>1 DEF ReceiveNothing, config
  <2>2. CASE BackOff(o)
    BY <1>1, <2>2 DEF BackOff, config
  <2>3. CASE ReceiveError(o) \/ PollCrashes(o)
    BY <1>1, <2>3 DEF ReceiveError, PollCrashes, config
  <2> QED
    BY <1>8, <2>1, <2>2, <2>3
<1> QED
  BY <1>2, <1>3, <1>4, <1>5, <1>6, <1>7, <1>8 DEF Next, Loop, Answer

\* The order in which _run_polling_loop asks, in each of its modes.
THEOREM RoundsCorrect == Spec => [](Rounds /\ InOrder)
<1>1. Init => Rounds /\ InOrder
  BY PollAssumption DEF Init, Rounds, InOrder, PollAssumption
<1> QED
  BY <1>1, RoundsStep, PTL DEF Spec

(***************************************************************************)
(* No orchestrator is asked twice without a sleep or a task in between.    *)
(***************************************************************************)
THEOREM NeverSpins == Spec => NoSpinning
<1>1. Rounds /\ [Next]_vars =>
        [\A o \in Orchestrators : Sends(o) => o \notin asked]_vars
  <2> SUFFICES ASSUME Rounds, [Next]_vars, NEW o \in Orchestrators, Sends(o)
               PROVE  o \notin asked
    BY DEF Sends, vars
  <2>1. CASE TakeTurn
    BY <2>1 DEF TakeTurn, Rounds
  <2>2. CASE AskNext
    <3>1. o = next /\ mode # "ROUND_ROBIN"
      BY <2>2 DEF AskNext, Asks, Sends
    <3>2. asked \subseteq 1..next - 1 /\ next \in 1..N + 1
      BY <3>1 DEF Rounds
    <3> QED
      BY <3>1, <3>2, PollAssumption DEF Orchestrators, PollAssumption
  <2> QED
    BY <2>1, <2>2, OnlyLoopSends
<1> QED
  BY <1>1, RoundsCorrect, PTL DEF Spec, NoSpinning

(***************************************************************************)
(* WATERFALL keeps to the order of priority.                               *)
(***************************************************************************)
THEOREM PriorityIsKept == Spec => PriorityKept
<1>1. Rounds /\ InOrder /\ [Next]_vars =>
        [mode = "WATERFALL" =>
           \A o \in Orchestrators : Sends(o) =>
             \A p \in 1..o - 1 : (p \in asked /\ ~got) \/ p \in passed']_vars
  <2> SUFFICES ASSUME Rounds, InOrder, [Next]_vars, mode = "WATERFALL",
                      NEW o \in Orchestrators, Sends(o), NEW p \in 1..o - 1
               PROVE  (p \in asked /\ ~got) \/ p \in passed'
    BY DEF Sends, vars
  <2> USE PollAssumption DEF PollAssumption
  <2>1. AskNext
    BY OnlyLoopSends DEF TakeTurn
  <2>2. /\ o = next /\ next \in 1..N
        /\ passed' = IF next = 1 THEN {} ELSE passed
    BY <2>1 DEF AskNext, Asks, Sends, Rounds
  <2>3. ~got /\ next # 1 /\ p \in 1..next - 1
    BY <2>2 DEF InOrder
  <2> QED
    BY <2>2, <2>3 DEF InOrder
<1> QED
  BY <1>1, RoundsCorrect, PTL DEF Spec, PriorityKept

-----------------------------------------------------------------------------
(* Sums.                                                                   *)

Sum(f, T) ==
  LET sum[S \in SUBSET Orchestrators] ==
        IF S = {} THEN 0 ELSE LET x == CHOOSE x \in S : TRUE IN f[x] + sum[S \ {x}]
  IN  sum[T]

\* The total of the code, a sum over the clients, is this sum.
LEMMA TotalIsSum == Total = Sum(weight, Orchestrators)
BY DEF Total, MapThenSumSet, MapThenFoldSet, Sum

Small(n) == {S \in SUBSET Orchestrators : Cardinality(S) <= n}
One(S) == CHOOSE x \in S : TRUE
IsSum(f, sum, Sets) ==
  sum = [S \in Sets |-> IF S = {} THEN 0 ELSE f[One(S)] + sum[S \ {One(S)}]]

\* There is a function that satisfies the recursion, for all sets at once,
LEMMA SumExists ==
  ASSUME N \in Nat, NEW f
  PROVE  \E sum : IsSum(f, sum, SUBSET Orchestrators)
<1> DEFINE Good == {n \in Nat : \E sum : IsSum(f, sum, Small(n))}
<1>1. 0 \in Good
  <2>1. Small(0) = {{}}
    BY SubsetSize DEF Small
  <2>2. IsSum(f, [S \in Small(0) |-> 0], Small(0))
    BY <2>1 DEF IsSum
  <2> QED
    BY <2>2
<1>2. ASSUME NEW n \in Nat, n \in Good PROVE n + 1 \in Good
  <2>1. PICK sum : IsSum(f, sum, Small(n))
    BY <1>2
  <2> DEFINE more == [S \in Small(n + 1) |-> IF Cardinality(S) <= n THEN sum[S]
                                             ELSE f[One(S)] + sum[S \ {One(S)}]]
  <2>2. ASSUME NEW S \in Small(n + 1)
        PROVE  more[S] = IF S = {} THEN 0 ELSE f[One(S)] + more[S \ {One(S)}]
    <3>1. CASE S = {}
      BY <2>1, <3>1, SubsetSize DEF Small, IsSum
    <3>2. CASE S # {}
      <4>1. One(S) \in S
        BY <3>2 DEF One
      <4>2. S \ {One(S)} \in Small(n) /\ S \ {One(S)} \in Small(n + 1)
        BY <4>1, SubsetSize DEF Small
      <4>3. more[S \ {One(S)}] = sum[S \ {One(S)}]
        BY <4>2 DEF Small
      <4>4. CASE Cardinality(S) <= n
        <5>1. S \in Small(n)
          BY <4>4 DEF Small
        <5> QED
          BY <2>1, <3>2, <4>3, <4>4, <5>1 DEF IsSum
      <4>5. CASE ~ (Cardinality(S) <= n)
        BY <3>2, <4>3, <4>5
      <4> QED
        BY <4>4, <4>5
    <3> QED
      BY <3>1, <3>2
  <2>3. IsSum(f, more, Small(n + 1))
    <3>1. more = [S \in Small(n + 1) |-> more[S]]
      OBVIOUS
    <3> HIDE DEF more
    <3> QED
      BY <2>2, <3>1 DEF IsSum
  <2> HIDE DEF more
  <2> QED
    BY <2>3
<1>3. N \in Good
  <2> HIDE DEF Good
  <2> QED
    BY <1>1, <1>2, Induction
<1>4. Small(N) = SUBSET Orchestrators
  BY SubsetSize DEF Small
<1> QED
  BY <1>3, <1>4

\* so the one chosen does.
LEMMA SumIsIt ==
  ASSUME N \in Nat, NEW f
  PROVE  /\ Sum(f, {}) = 0
         /\ \A S \in SUBSET Orchestrators :
              S # {} => One(S) \in S /\ Sum(f, S) = f[One(S)] + Sum(f, S \ {One(S)})
<1> DEFINE it == CHOOSE sum : IsSum(f, sum, SUBSET Orchestrators)
<1>1. IsSum(f, it, SUBSET Orchestrators)
  BY SumExists
<1>2. \A S : Sum(f, S) = it[S]
  BY DEF Sum, IsSum, One
<1> HIDE DEF it
<1>3. \A S \in SUBSET Orchestrators :
        it[S] = IF S = {} THEN 0 ELSE f[One(S)] + it[S \ {One(S)}]
  BY <1>1 DEF IsSum
<1>4. \A S : S # {} => One(S) \in S
  BY DEF One
<1> QED
  BY <1>2, <1>3, <1>4

(***************************************************************************)
(* A sum of integers is an integer, and any of them may be taken first.    *)
(***************************************************************************)
LEMMA SumInt ==
  ASSUME N \in Nat, NEW f \in [Orchestrators -> Int]
  PROVE  \A S \in SUBSET Orchestrators : Sum(f, S) \in Int
<1> DEFINE Good == {S \in SUBSET Orchestrators : Sum(f, S) \in Int}
<1>1. {} \in Good
  BY SumIsIt
<1>2. ASSUME NEW S \in SUBSET Orchestrators, S # {}, \A x \in S : S \ {x} \in Good
      PROVE  S \in Good
  <2>1. One(S) \in S /\ Sum(f, S) = f[One(S)] + Sum(f, S \ {One(S)})
    BY <1>2, SumIsIt
  <2> QED
    BY <1>2, <2>1
<1> HIDE DEF Good
<1>3. \A S \in SUBSET Orchestrators : S \in Good
  BY <1>1, <1>2, SubsetInduction
<1> QED
  BY <1>3 DEF Good

\* The order of the summands does not matter.
LEMMA SumAnyFirst ==
  ASSUME N \in Nat, NEW f \in [Orchestrators -> Int]
  PROVE  \A S \in SUBSET Orchestrators : \A x \in S : Sum(f, S) = f[x] + Sum(f, S \ {x})
<1> DEFINE Good == {S \in SUBSET Orchestrators :
                     \A x \in S : Sum(f, S) = f[x] + Sum(f, S \ {x})}
<1>1. {} \in Good
  OBVIOUS
<1>2. ASSUME NEW S \in SUBSET Orchestrators, S # {}, \A x \in S : S \ {x} \in Good
      PROVE  S \in Good
  <2>1. PICK y : y \in S /\ Sum(f, S) = f[y] + Sum(f, S \ {y})
    <3>1. One(S) \in S /\ Sum(f, S) = f[One(S)] + Sum(f, S \ {One(S)})
      BY <1>2, SumIsIt
    <3> HIDE DEF Good
    <3> QED
      BY <3>1
  <2>2. ASSUME NEW x \in S, x # y PROVE Sum(f, S) = f[x] + Sum(f, S \ {x})
    <3>1. Sum(f, S \ {y}) = f[x] + Sum(f, (S \ {y}) \ {x})
      BY <1>2, <2>1, <2>2
    <3>2. Sum(f, S \ {x}) = f[y] + Sum(f, (S \ {x}) \ {y})
      BY <1>2, <2>1, <2>2
    <3>3. (S \ {y}) \ {x} = (S \ {x}) \ {y}
      OBVIOUS
    <3>4. PICK rest \in Int : rest = Sum(f, (S \ {y}) \ {x})
      <4> HIDE DEF Good
      <4> QED
        BY SumInt
    <3>5. rest = Sum(f, (S \ {x}) \ {y})
      BY <3>3, <3>4
    <3>6. PICK a \in Int, b \in Int : a = f[x] /\ b = f[y]
      BY <2>1
    <3>7. Sum(f, S) = b + (a + rest) /\ Sum(f, S \ {x}) = b + rest
      BY <2>1, <3>1, <3>2, <3>4, <3>5, <3>6
    <3> QED
      BY <3>4, <3>6, <3>7
  <2> QED
    BY <2>1, <2>2
<1> HIDE DEF Good
<1>3. \A S \in SUBSET Orchestrators : S \in Good
  BY <1>1, <1>2, SubsetInduction
<1> QED
  BY <1>3 DEF Good

(***************************************************************************)
(* Sums of sums, and bounds.                                               *)
(***************************************************************************)
LEMMA SumOfSums ==
  ASSUME N \in Nat, NEW f \in [Orchestrators -> Int], NEW g \in [Orchestrators -> Int],
         NEW h \in [Orchestrators -> Int], \A o \in Orchestrators : h[o] = f[o] + g[o]
  PROVE  Sum(h, Orchestrators) = Sum(f, Orchestrators) + Sum(g, Orchestrators)
<1> DEFINE Good == {S \in SUBSET Orchestrators : Sum(h, S) = Sum(f, S) + Sum(g, S)}
<1>1. {} \in Good
  BY SumIsIt
<1>2. ASSUME NEW S \in SUBSET Orchestrators, S # {}, \A x \in S : S \ {x} \in Good
      PROVE  S \in Good
  <2>1. PICK x \in S : TRUE
    BY <1>2
  <2>2. Sum(h, S \ {x}) = Sum(f, S \ {x}) + Sum(g, S \ {x})
    BY <1>2
  <2> SUFFICES Sum(h, S) = Sum(f, S) + Sum(g, S)
    OBVIOUS
  <2> HIDE DEF Good
  <2>3. /\ Sum(f, S) = f[x] + Sum(f, S \ {x})
        /\ Sum(g, S) = g[x] + Sum(g, S \ {x})
        /\ Sum(h, S) = h[x] + Sum(h, S \ {x})
    BY SumAnyFirst
  <2>4. S \ {x} \in SUBSET Orchestrators
    OBVIOUS
  <2>5. Sum(f, S \ {x}) \in Int /\ Sum(g, S \ {x}) \in Int
    BY <2>4, SumInt
  <2> QED
    BY <2>2, <2>3, <2>5
<1> HIDE DEF Good
<1>3. \A S \in SUBSET Orchestrators : S \in Good
  BY <1>1, <1>2, SubsetInduction
<1> QED
  BY <1>3 DEF Good

\* A sum of terms with a common bound, which may be an upper one (m negative).
LEMMA SumAtLeast ==
  ASSUME N \in Nat, NEW f \in [Orchestrators -> Int], NEW m \in Int, NEW low \in Int,
         NEW T \in SUBSET Orchestrators, \A o \in T : m * f[o] >= low
  PROVE  m * Sum(f, T) >= low * Cardinality(T)
<1> DEFINE Good == {S \in SUBSET Orchestrators :
                     S \subseteq T => m * Sum(f, S) >= low * Cardinality(S)}
<1>1. {} \in Good
  BY SumIsIt, FS_EmptySet
<1>2. ASSUME NEW S \in SUBSET Orchestrators, S # {}, \A x \in S : S \ {x} \in Good
      PROVE  S \in Good
  <2> SUFFICES ASSUME S \subseteq T PROVE m * Sum(f, S) >= low * Cardinality(S)
    OBVIOUS
  <2>1. PICK x \in S : TRUE
    BY <1>2
  <2>2. m * Sum(f, S \ {x}) >= low * Cardinality(S \ {x})
    BY <1>2
  <2> HIDE DEF Good
  <2>3. Sum(f, S) = f[x] + Sum(f, S \ {x})
    BY SumAnyFirst
  <2>4. PICK rest \in Int : rest = Sum(f, S \ {x})
    BY SumInt
  <2>5. PICK size \in Int : size = Cardinality(S) /\ Cardinality(S \ {x}) = size - 1
    BY SubsetSize
  <2>6. PICK first \in Int : first = f[x]
    OBVIOUS
  <2>7. m * first >= low /\ m * rest >= low * (size - 1)
    BY <2>2, <2>4, <2>5, <2>6
  <2>8. m * (first + rest) >= low * size
    <3>1. m * (first + rest) = m * first + m * rest
      OBVIOUS
    <3>2. low * (size - 1) = low * size - low
      OBVIOUS
    <3> QED
      BY <2>7, <3>1, <3>2
  <2> QED
    BY <2>3, <2>4, <2>5, <2>6, <2>8
<1> HIDE DEF Good
<1>3. \A S \in SUBSET Orchestrators : S \in Good
  BY <1>1, <1>2, SubsetInduction
<1> QED
  BY <1>3 DEF Good

(***************************************************************************)
(* Some orchestrator has the most.                                         *)
(***************************************************************************)
LEMMA MostExists ==
  ASSUME NEW f \in [Orchestrators -> Int]
  PROVE  \E o \in Orchestrators : \A p \in Orchestrators : f[p] <= f[o]
<1>1. N \in Nat \ {0} /\ f \in [1..N -> Int]
  BY PollAssumption DEF PollAssumption, Orchestrators
<1> DEFINE Most(n) == \E o \in 1..n : \A p \in 1..n : f[p] <= f[o]
           Good == {n \in Nat : n \in 1..N => Most(n)}
<1>2. 0 \in Good
  BY <1>1
<1>3. ASSUME NEW n \in Nat, n \in Good PROVE n + 1 \in Good
  <2> SUFFICES ASSUME n + 1 \in 1..N PROVE Most(n + 1)
    OBVIOUS
  <2>1. 1..n + 1 = 1..n \cup {n + 1} /\ \A p \in 1..n + 1 : f[p] \in Int
    BY <1>1
  <2>2. CASE n = 0
    BY <2>1, <2>2
  <2>3. CASE n # 0
    <3>1. PICK o \in 1..n : \A p \in 1..n : f[p] <= f[o]
      BY <1>1, <1>3, <2>3
    <3>2. o \in 1..n + 1 /\ n + 1 \in 1..n + 1
      BY <2>1
    <3>3. CASE f[o] >= f[n + 1]
      <4>1. \A p \in 1..n + 1 : f[p] <= f[o]
        BY <2>1, <3>1, <3>3
      <4> QED
        BY <3>2, <4>1
    <3>4. CASE ~ (f[o] >= f[n + 1])
      <4>1. \A p \in 1..n + 1 : f[p] <= f[n + 1]
        BY <2>1, <3>1, <3>2, <3>4
      <4> QED
        BY <3>2, <4>1
    <3> QED
      BY <3>3, <3>4
  <2> QED
    BY <2>2, <2>3
<1> HIDE DEF Good
<1>4. N \in Good
  BY <1>1, <1>2, <1>3, Induction
<1> QED
  BY <1>1, <1>4 DEF Good, Orchestrators

-----------------------------------------------------------------------------
(* Smooth weighted round robin.                                            *)

Weights == weight \in [Orchestrators -> 1..MaxWeight] /\ current \in [Orchestrators -> Int]

\* No weight exceeds the total.
LEMMA WeightsAreShares ==
  ASSUME Weights
  PROVE  /\ Total \in Nat \ {0}
         /\ \A o \in Orchestrators : weight[o] \in Nat \ {0} /\ weight[o] <= Total
<1> USE PollAssumption DEF PollAssumption
<1>1. weight \in [Orchestrators -> Int] /\ \A o \in Orchestrators : weight[o] \in Nat \ {0}
  BY DEF Weights
<1>2. ASSUME NEW o \in Orchestrators PROVE weight[o] <= Total
  <2>1. 1 * Sum(weight, Orchestrators \ {o}) >= 0 * Cardinality(Orchestrators \ {o})
    BY <1>1, SumAtLeast
  <2>2. Cardinality(Orchestrators \ {o}) \in Nat
    BY SubsetSize
  <2>3. Total = weight[o] + Sum(weight, Orchestrators \ {o})
    BY <1>1, SumAnyFirst, TotalIsSum
  <2>4. Sum(weight, Orchestrators \ {o}) \in Int
    BY <1>1, SumInt
  <2> QED
    BY <1>1, <2>1, <2>2, <2>3, <2>4
<1>3. Total \in Int
  BY <1>1, SumInt, TotalIsSum
<1>4. 1 \in Orchestrators
  BY DEF Orchestrators
<1> QED
  BY <1>1, <1>2, <1>3, <1>4

\* The total changes with the weights only.
LEMMA TotalStays ==
  ASSUME UNCHANGED weight
  PROVE  UNCHANGED Total
<1>1. Total' = Sum(weight', Orchestrators)
  BY DEF Total, MapThenSumSet, MapThenFoldSet, Sum, Orchestrators
<1> QED
  BY <1>1, TotalIsSum

Raised == [o \in Orchestrators |-> current[o] + weight[o]]

(***************************************************************************)
(* One of the highest is picked, and pays for all.                         *)
(***************************************************************************)
LEMMA PickIsHighest ==
  ASSUME Weights
  PROVE  /\ Raised \in [Orchestrators -> Int]
         /\ Pick.pick \in Orchestrators
         /\ \A o \in Orchestrators : Raised[o] <= Raised[Pick.pick]
         /\ Pick.weights = [Raised EXCEPT ![Pick.pick] = @ - Total]
<1>1. Raised \in [Orchestrators -> Int]
  BY PollAssumption DEF Raised, Weights, PollAssumption
<1> DEFINE highest == {o \in Orchestrators : \A p \in Orchestrators : Raised[p] <= Raised[o]}
<1>2. highest # {} /\ highest \subseteq Nat
  <2>1. highest # {}
    BY <1>1, MostExists
  <2>2. Orchestrators \subseteq Nat
    BY PollAssumption DEF Orchestrators, PollAssumption
  <2> QED
    BY <2>1, <2>2
<1>3. Min(highest) \in highest
  BY <1>2, MinIsLeast
<1>4. Pick.pick = Min(highest) /\ Pick.weights = [Raised EXCEPT ![Min(highest)] = @ - Total]
  BY DEF Pick, Raised
<1> QED
  BY <1>1, <1>3, <1>4

(***************************************************************************)
(* The current weights add up to 0, none is so low that its orchestrator   *)
(* is ahead by a whole turn, and none as high as the property says.        *)
(***************************************************************************)
Low == -((N - 1) * Total)
High == (N + (N - 1) * (N - 2)) * Total

Balanced ==
  /\ Weights
  /\ Sum(current, Orchestrators) = 0
  /\ \A o \in Orchestrators : N * current[o] >= Low /\ 2 * N * current[o] <= High

\* They are what the turns of this period have made them.
Counted ==
  /\ turns \in Nat /\ picks \in [Orchestrators -> Nat]
  /\ \A o \in Orchestrators : current[o] = turns * weight[o] - picks[o] * Total

\* A product with a negative factor.
LEMMA TimesNegative ==
  ASSUME NEW a \in Nat, NEW b \in Int, b <= -1
  PROVE  a * b <= -a
<1>1. PICK c \in Nat : b = -1 - c
  <2>1. -1 - b \in Nat /\ b = -1 - (-1 - b)
    OBVIOUS
  <2> QED
    BY <2>1
<1>2. a * b = -a - a * c
  BY <1>1
<1>3. a * c \in Nat
  OBVIOUS
<1> QED
  BY <1>2, <1>3

(***************************************************************************)
(* After Total turns every weight is back at 0.                            *)
(***************************************************************************)
LEMMA PeriodIsExact ==
  ASSUME Balanced, Counted, turns = Total
  PROVE  /\ picks = weight
         /\ \A o \in Orchestrators : current[o] = 0
<1>1. /\ N \in Nat \ {0} /\ Total \in Nat \ {0}
      /\ \A o \in Orchestrators : weight[o] \in Nat
      /\ weight \in [Orchestrators -> 1..MaxWeight]
      /\ current \in [Orchestrators -> Int] /\ picks \in [Orchestrators -> Nat]
  BY WeightsAreShares, PollAssumption DEF Balanced, Weights, Counted, PollAssumption
<1>2. ASSUME NEW o \in Orchestrators
      PROVE  current[o] = Total * (weight[o] - picks[o]) /\ weight[o] >= picks[o]
  <2>1. PICK d \in Int : d = weight[o] - picks[o]
    BY <1>1
  <2>2. current[o] = Total * d
    <3>1. PICK w \in Int, p \in Int : w = weight[o] /\ p = picks[o]
      BY <1>1
    <3>2. current[o] = Total * w - p * Total /\ d = w - p
      BY <2>1, <3>1 DEF Counted
    <3> QED
      BY <1>1, <3>1, <3>2
  <2>3. ASSUME d < 0 PROVE FALSE
    <3>1. Total * d <= -Total
      BY <1>1, <2>3, TimesNegative
    <3>2. PICK c \in Int : c = Total * d
      BY <1>1
    <3>3. N * c >= -((N - 1) * Total)
      BY <2>2, <3>2 DEF Balanced, Low
    <3>4. N * c <= -(N * Total)
      <4>1. PICK e \in Nat : c = -Total - e
        <5>1. -Total - c \in Nat /\ c = -Total - (-Total - c)
          BY <1>1, <3>1, <3>2
        <5> QED
          BY <5>1
      <4>2. N * c = -(N * Total) - N * e
        BY <1>1, <4>1
      <4> QED
        BY <1>1, <4>2
    <3>5. (N - 1) * Total = N * Total - Total
      BY <1>1
    <3> QED
      BY <1>1, <3>3, <3>4, <3>5
  <2> QED
    BY <1>1, <2>1, <2>2, <2>3
<1>3. ASSUME NEW o \in Orchestrators
      PROVE  current[o] = 0
  <2>1. \A p \in Orchestrators : current[p] >= 0
    BY <1>1, <1>2
  <2>2. 1 * Sum(current, Orchestrators \ {o}) >= 0 * Cardinality(Orchestrators \ {o})
    BY <1>1, <2>1, SumAtLeast
  <2>3. 0 = current[o] + Sum(current, Orchestrators \ {o})
    BY <1>1, SumAnyFirst DEF Balanced
  <2>4. Sum(current, Orchestrators \ {o}) \in Int /\ Cardinality(Orchestrators \ {o}) \in Nat
    BY <1>1, SumInt, SubsetSize
  <2> QED
    BY <1>1, <2>1, <2>2, <2>3, <2>4
<1>4. ASSUME NEW o \in Orchestrators
      PROVE  picks[o] = weight[o]
  <2>1. Total * (weight[o] - picks[o]) = 0
    BY <1>2, <1>3
  <2>2. weight[o] - picks[o] \in Nat
    BY <1>1, <1>2
  <2> QED
    BY <1>1, <2>1, <2>2
<1> QED
  BY <1>1, <1>3, <1>4

(***************************************************************************)
(* One turn.                                                               *)
(***************************************************************************)
LEMMA TurnCounts ==
  ASSUME Balanced, Counted, TakeTurn
  PROVE  Counted'
<1>1. /\ Total \in Nat \ {0} /\ Pick.pick \in Orchestrators
      /\ \A o \in Orchestrators : weight[o] \in Int /\ current[o] \in Int /\ picks[o] \in Int
      /\ Raised \in [Orchestrators -> Int]
      /\ Pick.weights = [Raised EXCEPT ![Pick.pick] = @ - Total]
  BY WeightsAreShares, PickIsHighest DEF Balanced, Counted, Weights
<1>2. /\ current' = Pick.weights /\ weight' = weight
      /\ turns' = IF turns = Total THEN 1 ELSE turns + 1
      /\ picks' = [o \in Orchestrators |-> (IF turns = Total THEN 0 ELSE picks[o])
                                            + (IF o = Pick.pick THEN 1 ELSE 0)]
  BY DEF TakeTurn, config
<1>3. Total' = Total
  BY <1>2, TotalStays
<1>4. PICK i \in Orchestrators : i = Pick.pick
  BY <1>1
<1>5. turns' \in Nat /\ picks' \in [Orchestrators -> Nat]
  BY <1>2 DEF Counted
<1>6. ASSUME NEW o \in Orchestrators
      PROVE  current'[o] = turns' * weight[o] - picks'[o] * Total
  <2>1. PICK c \in Int, w \in Int, p \in Int, one \in Int :
          /\ c = current[o] /\ w = weight[o] /\ p = picks[o]
          /\ one = IF o = i THEN 1 ELSE 0
    BY <1>1
  <2>2. current'[o] = c + w - one * Total
    BY <1>1, <1>2, <1>4, <2>1 DEF Raised
  <2>3. picks'[o] = (IF turns = Total THEN 0 ELSE p) + one
    BY <1>2, <1>4, <2>1
  <2>4. CASE turns = Total
    <3>1. c = 0
      BY <2>1, <2>4, PeriodIsExact
    <3> QED
      BY <1>1, <1>2, <2>1, <2>2, <2>3, <2>4, <3>1
  <2>5. CASE turns # Total
    <3>1. c = turns * w - p * Total /\ turns \in Nat
      BY <2>1 DEF Counted
    <3>2. (turns + 1) * w = turns * w + w /\ (p + one) * Total = p * Total + one * Total
      BY <1>1, <3>1
    <3>3. turns * w \in Int /\ p * Total \in Int /\ one * Total \in Int
      BY <1>1, <3>1
    <3> QED
      BY <1>2, <2>1, <2>2, <2>3, <2>5, <3>1, <3>2, <3>3
  <2> QED
    BY <2>4, <2>5
<1> QED
  BY <1>2, <1>3, <1>5, <1>6 DEF Counted

(***************************************************************************)
(* The one that is picked had at least its share of Total; so whoever was  *)
(* not has at most half of what the others leave.                          *)
(***************************************************************************)
LEMMA TurnBalances ==
  ASSUME Balanced, TakeTurn
  PROVE  Balanced'
<1> DEFINE i == Pick.pick
<1>1. /\ N \in Nat \ {0} /\ Total \in Nat \ {0}
      /\ weight \in [Orchestrators -> Int] /\ current \in [Orchestrators -> Int]
      /\ \A o \in Orchestrators : weight[o] \in Nat /\ weight[o] <= Total
      /\ Orchestrators \in SUBSET Orchestrators /\ Cardinality(Orchestrators) = N
  <2>1. Weights /\ N \in Nat \ {0} /\ MaxWeight \in Nat
    BY PollAssumption DEF Balanced, PollAssumption
  <2>2. Cardinality(Orchestrators) = N
    BY <2>1, FS_Interval DEF Orchestrators
  <2> QED
    BY <2>1, <2>2, WeightsAreShares DEF Weights
<1>2. /\ Raised \in [Orchestrators -> Int] /\ i \in Orchestrators
      /\ \A o \in Orchestrators : Raised[o] <= Raised[i]
      /\ current' = [Raised EXCEPT ![i] = @ - Total] /\ weight' = weight
  BY PickIsHighest DEF Balanced, TakeTurn, config
<1>3. Total' = Total /\ UNCHANGED Orchestrators
  BY <1>2, TotalStays DEF Orchestrators
<1> HIDE DEF i
<1>4. Weights'
  BY <1>2, <1>3, <1>1 DEF Balanced, Weights
<1>5. Sum(Raised, Orchestrators) = Total
  <2>1. \A o \in Orchestrators : Raised[o] = current[o] + weight[o]
    BY DEF Raised
  <2>2. Sum(Raised, Orchestrators) = Sum(current, Orchestrators) + Sum(weight, Orchestrators)
    BY <1>1, <1>2, <2>1, SumOfSums
  <2> QED
    BY <1>1, <2>2, TotalIsSum DEF Balanced
<1>6. Sum(current', Orchestrators) = 0
  <2> DEFINE paid == [o \in Orchestrators |-> IF o = i THEN Total ELSE 0]
             rest == Orchestrators \ {i}
  <2>1. /\ paid \in [Orchestrators -> Int] /\ current' \in [Orchestrators -> Int]
        /\ paid[i] = Total /\ \A o \in rest : paid[o] = 0
        /\ \A o \in Orchestrators : Raised[o] = current'[o] + paid[o]
    BY <1>1, <1>2
  <2>2. rest \in SUBSET Orchestrators /\ Cardinality(rest) \in Nat
    BY <1>1, SubsetSize
  <2>3. \A o \in rest : 1 * paid[o] >= 0 /\ (-1) * paid[o] >= 0
    BY <2>1
  <2> HIDE DEF paid, rest
  <2>4. 1 * Sum(paid, rest) >= 0 * Cardinality(rest)
    BY <1>1, <2>1, <2>2, <2>3, SumAtLeast
  <2>5. (-1) * Sum(paid, rest) >= 0 * Cardinality(rest)
    BY <1>1, <2>1, <2>2, <2>3, SumAtLeast
  <2>6. Sum(paid, rest) = 0
    BY <1>1, <2>1, <2>2, <2>4, <2>5, SumInt
  <2>7. Sum(paid, Orchestrators) = Total + Sum(paid, rest)
    BY <1>1, <1>2, <2>1, SumAnyFirst DEF rest
  <2>8. Sum(Raised, Orchestrators) = Sum(current', Orchestrators) + Sum(paid, Orchestrators)
    <3>1. PICK kept \in [Orchestrators -> Int] : kept = current'
      BY <2>1
    <3>2. \A o \in Orchestrators : Raised[o] = kept[o] + paid[o]
      BY <2>1, <3>1
    <3>3. N \in Nat /\ Raised \in [Orchestrators -> Int] /\ paid \in [Orchestrators -> Int]
      BY <1>1, <1>2, <2>1
    <3>4. Sum(Raised, Orchestrators) = Sum(kept, Orchestrators) + Sum(paid, Orchestrators)
      BY <3>1, <3>2, <3>3, SumOfSums
    <3> QED
      BY <3>1, <3>4
  <2>9. Sum(current', Orchestrators) \in Int
    BY <1>1, <2>1, SumInt
  <2> QED
    BY <1>1, <1>5, <2>6, <2>7, <2>8, <2>9
<1>7. N * Raised[i] >= Total
  <2>1. PICK r \in Int : r = Raised[i]
    BY <1>2
  <2>2. \A o \in Orchestrators : (-1) * Raised[o] >= -r
    BY <1>2, <2>1
  <2>3. (-1) * Sum(Raised, Orchestrators) >= (-r) * Cardinality(Orchestrators)
    BY <1>1, <1>2, <2>1, <2>2, SumAtLeast
  <2>4. (-1) * Total >= (-r) * N
    BY <1>1, <1>5, <2>3
  <2> QED
    BY <1>1, <2>1, <2>4
<1>8. \A o \in Orchestrators : N * Raised[o] >= Low
  <2> SUFFICES ASSUME NEW o \in Orchestrators PROVE N * Raised[o] >= Low
    OBVIOUS
  <2>1. PICK c \in Int, w \in Nat : c = current[o] /\ w = weight[o]
    BY <1>1
  <2>2. N * c >= Low /\ Low \in Int
    BY <1>1, <2>1 DEF Balanced, Low
  <2>3. N * (c + w) = N * c + N * w /\ N * w \in Nat
    BY <1>1
  <2> QED
    BY <1>1, <2>1, <2>2, <2>3 DEF Raised
<1>9. \A o \in Orchestrators : N * current'[o] >= Low
  <2> SUFFICES ASSUME NEW o \in Orchestrators PROVE N * current'[o] >= Low
    OBVIOUS
  <2>1. CASE o # i
    BY <1>2, <1>8, <2>1
  <2>2. CASE o = i
    <3>1. PICK r \in Int : r = Raised[i] /\ current'[i] = r - Total
      BY <1>1, <1>2
    <3>2. N * (r - Total) = N * r - N * Total /\ (N - 1) * Total = N * Total - Total
      BY <1>1
    <3> QED
      BY <1>1, <1>7, <2>2, <3>1, <3>2 DEF Low
  <2> QED
    BY <2>1, <2>2
<1>10. \A o \in Orchestrators : 2 * N * current'[o] <= High
  <2> SUFFICES ASSUME NEW o \in Orchestrators PROVE 2 * N * current'[o] <= High
    OBVIOUS
  <2>1. CASE o = i
    <3>1. PICK c \in Int, d \in Nat : c = current[i] /\ d = Total - weight[i]
      BY <1>1, <1>2
    <3>2. current'[i] = c - d
      BY <1>1, <1>2, <3>1 DEF Raised
    <3>3. 2 * N * (c - d) = 2 * N * c - 2 * (N * d) /\ N * d \in Nat
      BY <1>1
    <3>4. 2 * N * c <= High /\ High \in Int
      BY <1>1, <1>2, <3>1 DEF Balanced, High
    <3> QED
      BY <1>1, <2>1, <3>1, <3>2, <3>3, <3>4
  <2>2. CASE o # i
    <3> DEFINE others == (Orchestrators \ {i}) \ {o}
    <3>1. others \in SUBSET Orchestrators /\ Cardinality(others) = N - 2
      <4>1. /\ Orchestrators \ {i} \in SUBSET Orchestrators
            /\ Cardinality(Orchestrators \ {i}) = N - 1
        BY <1>1, <1>2, SubsetSize
      <4>2. o \in Orchestrators \ {i}
        BY <2>2
      <4>3. Cardinality((Orchestrators \ {i}) \ {o}) = (N - 1) - 1
        BY <1>1, <4>1, <4>2, SubsetSize
      <4> QED
        BY <1>1, <4>3
    <3>2. PICK s \in Int : s = Sum(Raised, others)
      BY <1>1, <1>2, <3>1, SumInt
    <3>3. PICK r \in Int, m \in Int : r = Raised[o] /\ m = Raised[i]
      BY <1>2
    <3>4. Total = m + (r + s)
      <4>1. Sum(Raised, Orchestrators) = m + Sum(Raised, Orchestrators \ {i})
        BY <1>1, <1>2, <3>3, SumAnyFirst
      <4>2. Sum(Raised, Orchestrators \ {i}) = r + s
        BY <1>1, <1>2, <2>2, <3>2, <3>3, SumAnyFirst
      <4> QED
        BY <1>5, <4>1, <4>2
    <3>5. N * s >= Low * (N - 2)
      <4>1. Low \in Int /\ \A p \in others : N * Raised[p] >= Low
        BY <1>1, <1>8 DEF Low
      <4> HIDE DEF others
      <4>2. N * Sum(Raised, others) >= Low * Cardinality(others)
        <5>1. PICK n \in Nat, low \in Int : n = N /\ low = Low
          BY <1>1, <4>1
        <5>2. \A p \in others : n * Raised[p] >= low
          BY <4>1, <5>1
        <5>3. /\ Raised \in [Orchestrators -> Int] /\ N \in Nat /\ n \in Int
              /\ others \in SUBSET Orchestrators
          BY <1>1, <1>2, <3>1
        <5>4. n * Sum(Raised, others) >= low * Cardinality(others)
          BY <5>2, <5>3, SumAtLeast
        <5> QED
          BY <5>1, <5>4
      <4> QED
        BY <3>1, <3>2, <4>2
    <3>6. current'[o] = r /\ r <= m
      BY <1>2, <2>2, <3>3
    <3>7. 2 * N * r <= N * (m + r)
      <4>1. PICK e \in Nat : m = r + e
        <5>1. m - r \in Nat /\ m = r + (m - r)
          BY <3>6
        <5> QED
          BY <5>1
      <4>2. N * (m + r) = 2 * N * r + N * e
        BY <1>1, <4>1
      <4> QED
        BY <1>1, <4>2
    <3>8. N * (m + r) = N * Total - N * s
      BY <1>1, <3>4
    <3>9. High = N * Total - Low * (N - 2)
      BY <1>1 DEF High, Low
    <3> QED
      BY <1>1, <3>5, <3>6, <3>7, <3>8, <3>9 DEF Low, High
  <2> QED
    BY <2>1, <2>2
<1>11. Low' = Low /\ High' = High
  BY <1>3 DEF Low, High
<1> QED
  BY <1>3, <1>4, <1>6, <1>9, <1>10, <1>11 DEF Balanced

(***************************************************************************)
(* Only a turn of ROUND_ROBIN touches the weights and what is counted.     *)
(***************************************************************************)
LEMMA BalanceStep ==
  ASSUME Balanced, Counted, [Next]_vars
  PROVE  Balanced' /\ Counted'
<1>1. CASE TakeTurn
  BY <1>1, TurnBalances, TurnCounts
<1>2. CASE ~TakeTurn
  <2>1. UNCHANGED <<weight, current, turns, picks>>
    BY <1>2 DEF Next, Loop, Answer, Registered, SleepBusy, AskNext, PassOver, RoundOver, WakeUp,
                TaskEnds, TaskLeaks, Tick, ReceiveTask, ReceiveNothing, BackOff, ReceiveError, PollCrashes, config,
                roundRobin, vars
  <2>2. UNCHANGED <<Total, Orchestrators>>
    BY <2>1, TotalStays DEF Orchestrators
  <2>3. UNCHANGED <<Low, High>>
    BY <2>2 DEF Low, High
  <2> QED
    BY <2>1, <2>2, <2>3 DEF Balanced, Counted, Weights
<1> QED
  BY <1>1, <1>2

\* Before the first turn every current weight is 0.
LEMMA BalanceInit ==
  ASSUME Init
  PROVE  Balanced /\ Counted
<1>1. /\ N \in Nat \ {0} /\ current \in [Orchestrators -> Int]
      /\ weight \in [Orchestrators -> 1..MaxWeight]
      /\ turns = 0 /\ picks \in [Orchestrators -> Nat]
      /\ \A o \in Orchestrators : current[o] = 0 /\ picks[o] = 0
  BY PollAssumption DEF Init, PollAssumption
<1>2. Weights
  BY <1>1 DEF Weights
<1>3. Total \in Nat \ {0} /\ \A o \in Orchestrators : weight[o] \in Nat
  BY <1>2, WeightsAreShares
<1>4. Sum(current, Orchestrators) = 0
  <2>1. Orchestrators \in SUBSET Orchestrators /\ Cardinality(Orchestrators) \in Nat
    BY <1>1, SubsetSize
  <2>2. \A o \in Orchestrators : 1 * current[o] >= 0 /\ (-1) * current[o] >= 0
    BY <1>1
  <2>3. 1 * Sum(current, Orchestrators) >= 0 * Cardinality(Orchestrators)
    BY <1>1, <2>1, <2>2, SumAtLeast
  <2>4. (-1) * Sum(current, Orchestrators) >= 0 * Cardinality(Orchestrators)
    BY <1>1, <2>1, <2>2, SumAtLeast
  <2>5. Sum(current, Orchestrators) \in Int
    BY <1>1, <2>1, SumInt
  <2> QED
    BY <2>1, <2>3, <2>4, <2>5
<1>5. N * 0 >= Low /\ 2 * N * 0 <= High
  <2>1. (N - 1) * Total \in Nat
    BY <1>1, <1>3
  <2>2. (N - 1) * (N - 2) \in Nat
    <3>1. CASE N = 1
      BY <3>1
    <3>2. CASE N # 1
      BY <1>1, <3>2
    <3> QED
      BY <3>1, <3>2
  <2>3. PICK k \in Nat : k = (N - 1) * (N - 2)
    BY <2>2
  <2>4. (N + k) * Total \in Nat
    BY <1>1, <1>3
  <2> QED
    BY <1>1, <2>1, <2>3, <2>4 DEF Low, High
<1>6. Balanced
  BY <1>1, <1>2, <1>4, <1>5 DEF Balanced
<1>7. Counted
  BY <1>1, <1>3 DEF Counted
<1> QED
  BY <1>6, <1>7

\* So the weights are balanced and counted at all times.
LEMMA BalanceCorrect == Spec => [](Balanced /\ Counted)
<1> QED
  BY BalanceInit, BalanceStep, PTL DEF Spec

(***************************************************************************)
(* In ROUND_ROBIN the turns follow the weights: exactly over a period, and *)
(* within bounds at any time, for any weights.                             *)
(***************************************************************************)
THEOREM SharesAreKept == Spec => []SharesFollowWeights
<1>1. ASSUME Balanced, Counted PROVE SharesFollowWeights
  <2>1. turns = Total => picks = weight
    BY <1>1, PeriodIsExact
  <2>2. N \in Nat \ {0} /\ Total \in Nat \ {0} /\ Weights
    BY <1>1, WeightsAreShares, PollAssumption DEF Balanced, PollAssumption
  <2>3. ASSUME NEW o \in Orchestrators
        PROVE  /\ N * Lead(o) <= (N - 1) * Total
               /\ 2 * N * (-Lead(o)) <= (N + (N - 1) * (N - 2)) * Total
    <3>1. PICK c \in Int : c = current[o]
      BY <2>2 DEF Weights
    <3>2. Lead(o) = -c
      <4>1. PICK w \in Int, p \in Int : w = weight[o] /\ p = picks[o]
        BY <1>1, <2>2, PollAssumption DEF Weights, Counted, PollAssumption
      <4>2. c = turns * w - p * Total /\ turns \in Nat
        BY <1>1, <3>1, <4>1 DEF Counted
      <4>3. turns * w \in Int /\ p * Total \in Int
        BY <2>2, <4>1, <4>2
      <4> QED
        BY <4>1, <4>2, <4>3 DEF Lead
    <3>3. N * c >= -((N - 1) * Total)
      BY <1>1, <3>1 DEF Balanced, Low
    <3>4. 2 * N * c <= (N + (N - 1) * (N - 2)) * Total
      BY <1>1, <3>1 DEF Balanced, High
    <3>5. N * (-c) = -(N * c) /\ N * c \in Int /\ (N - 1) * Total \in Int /\ -(-c) = c
      BY <2>2, <3>1
    <3> QED
      BY <3>2, <3>3, <3>4, <3>5
  <2> QED
    BY <2>1, <2>3 DEF SharesFollowWeights
<1> QED
  BY <1>1, BalanceCorrect, PTL

-----------------------------------------------------------------------------
(* Types.                                                                  *)

(***************************************************************************)
(* While a poll is on its way there is room for what it may bring.         *)
(***************************************************************************)
Typed == TypeOK /\ (pc = "polling" => load < Capacity)

\* Every step keeps the types.
LEMMA TypedStep ==
  ASSUME Typed, [Next]_vars
  PROVE  Typed'
<1> USE PollAssumption DEF PollAssumption, Typed, TypeOK
<1>1. ASSUME UNCHANGED <<config, roundRobin, found, slots, timing>>,
             asking' \in Orchestrators \cup {NoOne}, next' \in 1..N + 1,
             pc' \in {"starting", "loop", "polling", "sleeping", "dead"},
             asked' \subseteq Orchestrators, passed' \subseteq Orchestrators, got' \in BOOLEAN,
             pc' = "polling" => load < Capacity
      PROVE  Typed'
  BY <1>1 DEF config, roundRobin, slots, timing
<1>2. CASE Registered \/ SleepBusy \/ WakeUp
  BY <1>1, <1>2 DEF Registered, SleepBusy, WakeUp, history
<1>3. CASE TakeTurn
  <2>1. /\ Total \in Nat /\ Pick.pick \in Orchestrators
        /\ Pick.weights \in [Orchestrators -> Int]
    BY WeightsAreShares, PickIsHighest DEF Weights
  <2>2. CanAsk(Pick.pick) => load < Capacity
    BY DEF CanAsk, Status
  <2>6. pc = "loop"
    BY <1>3 DEF TakeTurn
  <2>3. /\ pc' \in {"loop", "polling"} /\ (pc' = "polling" => load < Capacity)
        /\ asking' \in Orchestrators \cup {NoOne} /\ asked' \subseteq Orchestrators
    BY <1>3, <2>1, <2>2, <2>6 DEF TakeTurn, Asks
  <2>4. /\ current' \in [Orchestrators -> Int]
        /\ turns' \in Nat /\ picks' \in [Orchestrators -> Nat]
    BY <1>3, <2>1 DEF TakeTurn
  <2>5. UNCHANGED <<config, found, slots, timing, passed, got>> /\ next' = N + 1
    BY <1>3 DEF TakeTurn
  <2> QED
    BY <2>3, <2>4, <2>5 DEF config, slots, timing
<1>4. CASE AskNext \/ PassOver
  <2>1. /\ next \in Orchestrators /\ next' = next + 1 /\ pc = "loop"
        /\ UNCHANGED <<config, roundRobin, found, slots, timing, got>>
        /\ passed' \subseteq passed \cup {next} /\ asked' \subseteq asked \cup {next}
        /\ pc' \in {"loop", "polling"} /\ asking' \in {next, asking}
    <3>1. next \in Orchestrators /\ next' = next + 1 /\ pc = "loop"
      BY <1>4 DEF AskNext, PassOver, Orchestrators
    <3>2. CASE AskNext
      BY <3>1, <3>2 DEF AskNext, Asks
    <3>3. CASE PassOver
      BY <3>1, <3>3 DEF PassOver
    <3> QED
      BY <1>4, <3>2, <3>3
  <2>2. pc' = "polling" => load < Capacity
    BY <1>4, <2>1 DEF AskNext, PassOver, CanAsk, Status
  <2>3. next + 1 \in 1..N + 1
    BY <2>1 DEF Orchestrators
  <2> QED
    BY <1>1, <2>1, <2>2, <2>3
<1>5. CASE RoundOver
  <2>1. got' \in BOOLEAN /\ found' \in BOOLEAN
    BY <1>5, Zenon DEF RoundOver
  <2> QED
    BY <1>5, <2>1 DEF RoundOver, config, roundRobin, slots, timing
<1>6. CASE TaskEnds
  <2>1. load' \in 0..Capacity /\ load' < Capacity /\ leaked' \in 0..load'
    BY <1>6 DEF TaskEnds, config
  <2>2. blocked' \in BOOLEAN
    BY <1>6, Zenon DEF TaskEnds
  <2> QED
    BY <1>6, <2>1, <2>2 DEF TaskEnds, config, roundRobin, timing, history
<1>7. CASE Tick
  <2>1. /\ wait' \in [Orchestrators -> Nat]
        /\ since' \in [Orchestrators -> 0..RateLimitFloor]
    BY <1>7 DEF Tick, MaxOf, MinOf
  <2> QED
    BY <1>7, <2>1 DEF Tick, config, roundRobin, slots, history
<1>8. ASSUME NEW o \in Orchestrators, ReceiveTask(o)
      PROVE  Typed'
  <2>1. load' \in 0..Capacity /\ leaked' \in 0..load' /\ blocked' \in BOOLEAN
    BY <1>8 DEF ReceiveTask, Answered
  <2>2. found' \in BOOLEAN /\ got' \in BOOLEAN
    BY <1>8, Zenon DEF ReceiveTask
  <2> QED
    BY <1>8, <2>1, <2>2 DEF ReceiveTask, Answered, Forgive, config, roundRobin
<1>9. ASSUME NEW o \in Orchestrators, ReceiveNothing(o)
      PROVE  Typed'
  BY <1>9 DEF ReceiveNothing, Answered, Forgive, config, roundRobin, slots, history
<1>10. ASSUME NEW o \in Orchestrators, BackOff(o)
       PROVE  Typed'
  <2>1. PICK limited \in BOOLEAN, retryAfter \in ParsedRetryAfters :
          LET new == IF limited /\ retryAfter > 0 THEN retryAfter
                     ELSE CalculateBackoff(backoff[o], limited)
          IN  /\ backoff' = [backoff EXCEPT ![o] = new]
              /\ wait' = [wait EXCEPT ![o] = new]
              /\ since' = IF limited /\ retryAfter = 0 THEN [since EXCEPT ![o] = 0] ELSE since
    BY <1>10 DEF BackOff
  <2>2. retryAfter \in Nat /\ CalculateBackoff(backoff[o], limited) \in Nat
    BY BackoffIsFloored DEF ParsedRetryAfters
  <2>3. /\ backoff' \in [Orchestrators -> Nat] /\ wait' \in [Orchestrators -> Nat]
        /\ since' \in [Orchestrators -> 0..RateLimitFloor]
    BY <2>1, <2>2
  <2>4. /\ failures' \in 0..MaxFailures /\ pc' = "loop" /\ asking' = NoOne
        /\ UNCHANGED <<config, roundRobin, next, found, slots, history>>
    BY <1>10 DEF BackOff, Answered
  <2> QED
    BY <2>3, <2>4 DEF config, roundRobin, slots, history
<1>11. ASSUME NEW o \in Orchestrators, ReceiveError(o) \/ PollCrashes(o)
       PROVE  Typed'
  BY <1>11 DEF ReceiveError, PollCrashes, Answered, config, roundRobin, slots, history
<1>12. CASE UNCHANGED vars
  BY <1>12 DEF vars, config, roundRobin, slots, timing, history
<1>13. CASE TaskLeaks
  BY <1>13 DEF TaskLeaks, config, roundRobin, timing, history
<1> QED
  BY <1>2, <1>3, <1>4, <1>5, <1>6, <1>7, <1>8, <1>9, <1>10, <1>11, <1>12, <1>13
     DEF Next, Loop, Answer

(***************************************************************************)
(* Every variable of the polling loop keeps its type; so a task is never   *)
(* taken beyond the capacity.                                              *)
(***************************************************************************)
THEOREM PollTypeCorrect == Spec => []TypeOK
<1>1. Init => Typed
  <2>1. Init => found \in BOOLEAN /\ blocked \in BOOLEAN /\ got \in BOOLEAN
    BY Zenon DEF Init
  <2> QED
    BY <2>1, PollAssumption DEF Init, Typed, TypeOK, PollAssumption, NoOne, Orchestrators
<1>2. Typed => TypeOK
  BY DEF Typed
<1> QED
  BY <1>1, <1>2, TypedStep, PTL DEF Spec

=============================================================================
