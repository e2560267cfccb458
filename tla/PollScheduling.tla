------------------------------ MODULE PollScheduling ------------------------------
(***************************************************************************)
(* _start_polling: which orchestrator is asked next, in each of the three  *)
(* modes, with the back-off of each after failures.                        *)
(*                                                                         *)
(* Orchestrators are 1..N in the order of priority that the configuration  *)
(* sorts them in.  The polling task suspends only while a poll is in       *)
(* flight and while it sleeps; "loop" stands for the moment between, in    *)
(* which no other coroutine runs.  Time is counted in ticks that are left  *)
(* (wait) or have passed (since); any number of them may pass in a sleep   *)
(* or a poll.                                                              *)
(***************************************************************************)
EXTENDS Integers, FiniteSets, FiniteSetsExt

CONSTANTS N,                   \* how many orchestrators are configured
          Modes,               \* MULTI_ORCHESTRATOR_MODE
          MaxWeight,           \* BOUND: weights are 1..MaxWeight
          Capacity,            \* MAX_CONCURRENT_TASKS
          HasChecker,          \* the worker is given a capacity_checker
          BackoffInitial, BackoffMax,    \* POLL_BACKOFF_INITIAL, POLL_BACKOFF_MAX
          RateLimitFloor,      \* RATE_LIMIT_BACKOFF_FLOOR
          RetryAfters,         \* what Retry-After headers say
          MaxFailures          \* BOUND: polls that fail

ASSUME PollAssumption ==
  /\ N \in Nat \ {0}
  /\ Modes \subseteq {"WATERFALL", "ROUND_ROBIN", "FAILOVER"}
  /\ MaxWeight \in Nat \ {0}
  /\ Capacity \in Nat \ {0}
  /\ HasChecker \in BOOLEAN
  /\ BackoffInitial \in Nat /\ BackoffMax \in Nat /\ RateLimitFloor \in Nat
  /\ RetryAfters \subseteq Nat
  /\ MaxFailures \in Nat

Orchestrators == 1..N
NoOne == 0

VARIABLES
  mode, weight,  \* the configuration
  current,       \* current_weight of each orchestrator
  pc,            \* what the polling task does
  asking,        \* whom the poll in flight asks
  next,          \* the next of the round's list
  found,         \* any_task_found, reset between rounds
  load,          \* _current_load
  leaked,        \* how much of it tasks have left behind that ended without lowering it
  blocked,       \* every skill is at the limit of its type
  backoff,       \* _poll_backoffs, 0 when there is none
  wait,          \* ticks until _next_poll_time
  since,         \* ticks since the last 429 without Retry-After, up to the floor
  asked,         \* polled since the last sleep, or round that brought a task
  passed,        \* passed over at their turn in this round
  got,           \* this round did bring a task
  turns, picks,  \* turns of ROUND_ROBIN in this period, and whose they were
  failures

config == <<mode, weight>>
timing == <<backoff, wait, since, failures>>
roundRobin == <<current, turns, picks>>
slots == <<load, leaked, blocked>>
history == <<asked, passed, got>>
vars == <<config, roundRobin, pc, asking, next, found, slots, timing, history>>

Total == MapThenSumSet(LAMBDA o : weight[o], Orchestrators)

Init ==
  /\ mode \in Modes
  /\ weight \in [Orchestrators -> 1..MaxWeight]
  /\ mode # "ROUND_ROBIN" => weight = [o \in Orchestrators |-> 1]
  /\ current = [o \in Orchestrators |-> 0]
  /\ pc = "starting"
  /\ asking = NoOne
  /\ next = 1
  /\ found = FALSE
  /\ load = 0
  /\ leaked = 0
  /\ blocked = FALSE
  /\ backoff = [o \in Orchestrators |-> 0]
  /\ wait = [o \in Orchestrators |-> 0]
  /\ since = [o \in Orchestrators |-> RateLimitFloor]
  /\ asked = {}
  /\ passed = {}
  /\ got = FALSE
  /\ turns = 0
  /\ picks = [o \in Orchestrators |-> 0]
  /\ failures = 0

-----------------------------------------------------------------------------
(* Pure parts.                                                             *)

MaxOf(a, b) == IF a > b THEN a ELSE b
MinOf(a, b) == IF a < b THEN a ELSE b

\* MUTANT: the cap is applied last.
CapLast(b, limited) ==
  MinOf(MaxOf(MaxOf(2 * b, BackoffInitial), IF limited THEN RateLimitFloor ELSE 0), BackoffMax)

\* _calculate_backoff: twice the last one, at least the initial and at most the maximal
\* value; after a 429 at least the floor, even where that is above the maximum.
CalculateBackoff(b, limited) ==
  LET new == MinOf(MaxOf(2 * b, BackoffInitial), BackoffMax)
  IN  IF limited THEN MaxOf(new, RateLimitFloor) ELSE new

\* MUTANT: the one that is picked pays its own weight.
PickPaysOwn ==
  LET raised == [o \in Orchestrators |-> current[o] + weight[o]]
      pick   == Min({o \in Orchestrators : \A p \in Orchestrators : raised[p] <= raised[o]})
  IN  [pick |-> pick, weights |-> [raised EXCEPT ![pick] = @ - weight[pick]]]

\* MUTANT: the raised weights are not stored.
PickForgets ==
  LET raised == [o \in Orchestrators |-> current[o] + weight[o]]
  IN  [pick    |-> Min({o \in Orchestrators : \A p \in Orchestrators : raised[p] <= raised[o]}),
       weights |-> current]

\* _get_next_client: every weight is added, the first of the highest is picked and pays
\* for all.
Pick ==
  LET raised == [o \in Orchestrators |-> current[o] + weight[o]]
      pick   == Min({o \in Orchestrators : \A p \in Orchestrators : raised[p] <= raised[o]})
  IN  [pick |-> pick, weights |-> [raised EXCEPT ![pick] = @ - Total]]

-----------------------------------------------------------------------------
(* The loop.                                                               *)

\* _get_current_state: a worker at its capacity is "full", one without an available
\* skill below that is "busy".
Status == IF load >= Capacity THEN "full" ELSE IF blocked THEN "busy" ELSE "idle"

\* What a look at the state may find: a capacity_checker may refuse every skill, and
\* answer the next look, in the same moment, differently.
Looks == IF HasChecker /\ Status = "idle" THEN {"idle", "busy"} ELSE {Status}

\* Some orchestrator has registered the worker.
Registered ==
  /\ pc = "starting"
  /\ pc' = "loop"
  /\ UNCHANGED <<config, roundRobin, asking, next, found, slots, timing, history>>

\* The poll of o leaves.
Asks(o) ==
  /\ pc' = "polling"
  /\ asking' = o
  /\ asked' = asked \cup {o}

\* A busy worker sleeps.
SleepBusy ==
  /\ pc = "loop" /\ next = 1
  /\ "busy" \in Looks
  /\ pc' = "sleeping"
  /\ asked' = {}
  /\ UNCHANGED <<config, roundRobin, asking, next, found, slots, timing, passed, got>>

\* _poll_for_tasks_with_status asks o if it is not backing off and a skill is available,
CanAsk(o) == wait[o] = 0 /\ Status = "idle"

\* and otherwise returns at once.
CanPass(o) == wait[o] > 0 \/ Looks # {"idle"}

\* ROUND_ROBIN: one orchestrator has its turn, which is lost while it is backing off or
\* the worker full.
TakeTurn ==
  /\ pc = "loop" /\ next = 1 /\ mode = "ROUND_ROBIN"
  /\ Status # "busy"
  /\ current' = Pick.weights
  /\ turns' = IF turns = Total THEN 1 ELSE turns + 1
  /\ picks' = [o \in Orchestrators |-> (IF turns = Total THEN 0 ELSE picks[o])
                                       + (IF o = Pick.pick THEN 1 ELSE 0)]
  /\ \/ CanAsk(Pick.pick) /\ Asks(Pick.pick)
     \/ CanPass(Pick.pick) /\ UNCHANGED <<pc, asking, asked>>
  /\ next' = N + 1
  /\ UNCHANGED <<config, found, slots, timing, passed, got>>

\* MUTANT: whoever is not backing off is asked, room or not.
AskNextWithoutRoom ==
  /\ pc = "loop" /\ mode # "ROUND_ROBIN" /\ next <= N
  /\ wait[next] = 0
  /\ Asks(next)
  /\ next' = next + 1
  /\ UNCHANGED <<config, roundRobin, found, slots, timing, passed, got>>

\* WATERFALL and FAILOVER: a round goes through the list and asks whoever can be asked,
AskNext ==
  /\ pc = "loop" /\ mode # "ROUND_ROBIN" /\ next <= N
  /\ CanAsk(next)
  /\ Asks(next)
  /\ next' = next + 1
  /\ passed' = IF next = 1 THEN {} ELSE passed
  /\ UNCHANGED <<config, roundRobin, found, slots, timing, got>>

\* and passes over the others.
PassOver ==
  /\ pc = "loop" /\ mode # "ROUND_ROBIN" /\ next <= N
  /\ Status # "busy"
  /\ CanPass(next)
  /\ next' = next + 1
  /\ passed' = (IF next = 1 THEN {} ELSE passed) \cup {next}
  /\ UNCHANGED <<config, roundRobin, pc, asking, found, slots, timing, asked, got>>

\* The list is through, or the worker found busy before the next one (at the very start
\* of a round SleepBusy has the first look).
AtEnd ==
  IF mode = "ROUND_ROBIN" THEN next > 1
  ELSE next = N + 1 \/ ("busy" \in Looks /\ (next = 1 => Status # "busy"))

\* MUTANT: any_task_found stays as the round left it.
RoundOverKeepsFound ==
  /\ pc = "loop" /\ AtEnd
  /\ pc' = IF found THEN "loop" ELSE "sleeping"
  /\ asked' = IF found /\ ~got THEN asked ELSE {}
  /\ next' = 1
  /\ got' = FALSE
  /\ UNCHANGED <<config, roundRobin, asking, found, slots, timing, passed>>

\* The round is over; the next begins at once if it brought a task.
RoundOver ==
  /\ pc = "loop" /\ AtEnd
  /\ pc' = IF found THEN "loop" ELSE "sleeping"
  /\ asked' = IF found /\ ~got THEN asked ELSE {}
  /\ next' = 1
  /\ found' = FALSE
  /\ got' = FALSE
  /\ UNCHANGED <<config, roundRobin, asking, slots, timing, passed>>

WakeUp ==
  /\ pc = "sleeping"
  /\ pc' = "loop"
  /\ UNCHANGED <<config, roundRobin, asking, next, found, slots, timing, history>>

-----------------------------------------------------------------------------
(* Answers to a poll: _poll_for_tasks_with_status.                         *)

Answered(o) ==
  /\ pc = "polling" /\ asking = o
  /\ pc' = "loop"
  /\ asking' = NoOne

\* Any answer ends the back-off.
Forgive(o) ==
  /\ backoff' = [backoff EXCEPT ![o] = 0]
  /\ wait' = [wait EXCEPT ![o] = 0]
  /\ UNCHANGED <<since, failures>>

\* MUTANT: the round goes on after a task, in WATERFALL as in FAILOVER.
ReceiveTaskAndGoOn(o) ==
  /\ Answered(o)
  /\ load' = load + 1
  /\ blocked' \in BOOLEAN
  /\ UNCHANGED leaked
  /\ found' = TRUE /\ got' = TRUE
  /\ Forgive(o)
  /\ UNCHANGED <<config, roundRobin, next, asked, passed>>

\* A task: WATERFALL breaks off the round, to begin again at the top.
ReceiveTask(o) ==
  /\ Answered(o)
  /\ load' = load + 1
  /\ blocked' \in BOOLEAN
  /\ UNCHANGED leaked
  /\ found' = TRUE /\ got' = TRUE
  /\ Forgive(o)
  /\ next' = IF mode = "WATERFALL" THEN N + 1 ELSE next
  /\ UNCHANGED <<config, roundRobin, asked, passed>>

ReceiveNothing(o) ==
  /\ Answered(o)
  /\ Forgive(o)
  /\ UNCHANGED <<config, roundRobin, next, found, slots, history>>

\* _parse_retry_after: seconds or a date; 0 without the header, for a date that is past
\* and for what cannot be read.
ParsedRetryAfters == RetryAfters \cup {0}

\* A 429 or a network error.  Retry-After is taken as it is.
BackOff(o) ==
  /\ Answered(o)
  /\ failures < MaxFailures
  /\ failures' = failures + 1
  /\ \E limited \in BOOLEAN, retryAfter \in ParsedRetryAfters :
       LET new == IF limited /\ retryAfter > 0 THEN retryAfter
                  ELSE CalculateBackoff(backoff[o], limited)
       IN  /\ backoff' = [backoff EXCEPT ![o] = new]
           /\ wait' = [wait EXCEPT ![o] = new]
           /\ since' = IF limited /\ retryAfter = 0 THEN [since EXCEPT ![o] = 0] ELSE since
  /\ UNCHANGED <<config, roundRobin, next, found, slots, history>>

\* Any other error of the protocol is only logged: the back-off stays as it was.
ReceiveError(o) ==
  /\ Answered(o)
  /\ failures < MaxFailures
  /\ failures' = failures + 1
  /\ UNCHANGED <<config, roundRobin, next, found, slots, backoff, wait, since, history>>

\* An exception that is no RxonError ends the polling task, and nobody restarts it.
PollCrashes(o) ==
  /\ pc = "polling" /\ asking = o
  /\ failures < MaxFailures
  /\ failures' = failures + 1
  /\ pc' = "dead"
  /\ asking' = NoOne
  /\ UNCHANGED <<config, roundRobin, next, found, slots, backoff, wait, since, history>>

-----------------------------------------------------------------------------
(* Everything else.                                                        *)

\* A task ends and gives its slot back.  (A limit of a type is at least one.)
TaskEnds ==
  /\ pc # "loop"
  /\ load > leaked
  /\ load' = load - 1
  /\ blocked' \in IF load = 1 THEN {FALSE} ELSE {blocked, FALSE}
  /\ UNCHANGED <<config, roundRobin, pc, asking, next, found, leaked, timing, history>>

\* A task ends without: it was rejected before its try block or cancelled outside it.
TaskLeaks ==
  /\ pc # "loop"
  /\ load > leaked
  /\ leaked' = leaked + 1
  /\ UNCHANGED <<config, roundRobin, pc, asking, next, found, load, blocked, timing, history>>

Tick ==
  /\ \E o \in Orchestrators : wait[o] > 0 \/ since[o] < RateLimitFloor
  /\ wait' = [o \in Orchestrators |-> MaxOf(wait[o] - 1, 0)]
  /\ since' = [o \in Orchestrators |-> MinOf(since[o] + 1, RateLimitFloor)]
  /\ UNCHANGED <<config, roundRobin, pc, asking, next, found, slots, backoff, failures, history>>

Answer(o) == \/ ReceiveTask(o) \/ ReceiveNothing(o) \/ BackOff(o) \/ ReceiveError(o)
             \/ PollCrashes(o)

Loop == Registered \/ SleepBusy \/ TakeTurn \/ AskNext \/ PassOver \/ RoundOver \/ WakeUp

Next ==
  \/ Loop \/ TaskEnds \/ TaskLeaks \/ Tick
  \/ \E o \in Orchestrators : Answer(o)

Spec == Init /\ [][Next]_vars

\* The loop runs, sleeps end, polls are answered or time out, time passes; and tasks end,
\* which they cannot in the moments of the loop, only in between (hence SF).  A task whose
\* slot is not lost yet may still lose it.
Fairness ==
  /\ WF_vars(Loop)
  /\ WF_vars(\E o \in Orchestrators : Answer(o))
  /\ SF_vars(TaskEnds)
  /\ WF_vars(Tick)

FairSpec == Spec /\ Fairness

-----------------------------------------------------------------------------
(* Properties.                                                             *)

TypeOK ==
  /\ mode \in Modes
  /\ weight \in [Orchestrators -> 1..MaxWeight]
  /\ current \in [Orchestrators -> Int]
  /\ pc \in {"starting", "loop", "polling", "sleeping", "dead"}
  /\ asking \in Orchestrators \cup {NoOne}
  /\ next \in 1..N + 1
  /\ found \in BOOLEAN
  /\ load \in 0..Capacity
  /\ leaked \in 0..load
  /\ blocked \in BOOLEAN
  /\ backoff \in [Orchestrators -> Nat]
  /\ wait \in [Orchestrators -> Nat]
  /\ since \in [Orchestrators -> 0..RateLimitFloor]
  /\ asked \subseteq Orchestrators
  /\ passed \subseteq Orchestrators
  /\ got \in BOOLEAN
  /\ turns \in Nat
  /\ picks \in [Orchestrators -> Nat]
  /\ failures \in 0..MaxFailures

\* How many turns o has had beyond its share of those of this period, times Total.
Lead(o) == picks[o] * Total - turns * weight[o]

\* ROUND_ROBIN "Distributes requests based on weights": in every period of Total turns
\* each orchestrator has exactly as many as its weight, whatever is received or fails.  At
\* no time within it is one ahead of its share by more than 1 - 1/N of a turn, nor behind
\* by more than 1/2 + (N - 1) * (N - 2) / 2N turns: half a turn of two orchestrators, 5/6
\* of three, but more than one of four (the weights 1, 4, 30, 30 come to a whole turn).
SharesFollowWeights ==
  /\ turns = Total => picks = weight
  /\ \A o \in Orchestrators :
       /\ N * Lead(o) <= (N - 1) * Total
       /\ 2 * N * (-Lead(o)) <= (N + (N - 1) * (N - 2)) * Total

Sends(o) == asking # o /\ asking' = o

\* WATERFALL "Polls orchestrators strictly in priority order. Always returns to the
\* highest priority one after any task": one is asked only when each of a higher
\* priority was asked since the last task, in vain, or was passed over at its turn of this
\* round, because it was backing off or the worker had no skill to offer at that look.
PriorityKept ==
  [][mode = "WATERFALL" =>
       \A o \in Orchestrators : Sends(o) =>
         \A p \in 1..o - 1 : (p \in asked /\ ~got) \/ p \in passed']_vars

\* README: "a mandatory 30s safety floor for 429 errors without Retry-After to prevent
\* Retry Storms": no poll follows such an answer within the floor, also when the floor
\* is above POLL_BACKOFF_MAX and whatever other failures came before.
FloorKept ==
  [][\A o \in Orchestrators : Sends(o) => since[o] >= RateLimitFloor]_vars

\* The loop never spins: in no mode is an orchestrator asked twice without a sleep, or a
\* round that brought a task, in between.
NoSpinning == [][\A o \in Orchestrators : Sends(o) => o \notin asked]_vars

\* The first look of a round, or one of the two at the first orchestrator, finds a skill
\* that no limit blocks and the capacity_checker refuses.
Refused ==
  /\ next = 1 /\ Status = "idle"
  /\ SleepBusy \/ RoundOver \/ (PassOver /\ wait[1] = 0)

\* The polling task goes on for ever: in ROUND_ROBIN each orchestrator has turns, however
\* the others fail, in the other modes the first of the list is asked.  There are three
\* ways out: the task crashed; tasks that kept their slots leave no room for good, at the
\* capacity or at the limits of all types; or the capacity_checker refuses for ever again.
\* (A turn that always comes while the worker is full is always lost: the other
\* orchestrators may keep one from ever being asked.)
PollingGoesOn ==
  \/ <>(pc = "dead")
  \/ <>[](load = leaked /\ Status # "idle")
  \/ []<><<Refused>>_vars
  \/ mode = "ROUND_ROBIN" /\ \A o \in Orchestrators : []<><<TakeTurn /\ Pick.pick = o>>_vars
  \/ mode # "ROUND_ROBIN" /\ []<>(asking = 1)

=============================================================================
