---------------------------- MODULE HeartbeatThrottle ----------------------------
(***************************************************************************)
(* When heartbeats go to one orchestrator: _send_single_heartbeat with its *)
(* cooldown, the delayed heartbeat that consolidates the changes made      *)
(* during a cooldown, and the periodic heartbeat of the orchestrator's     *)
(* manager.  The state involved (_last_heartbeat_times, _debouncing_flags) *)
(* is kept per orchestrator, so one is enough.                             *)
(*                                                                         *)
(* Every coroutine that is inside _send_single_heartbeat, or is about to   *)
(* be, is a caller: the manager, the tasks that a change of state spawns   *)
(* and the delayed tasks that the cooldown spawns.  Time is a number of    *)
(* ticks left or passed, so no clock grows.                                *)
(***************************************************************************)
EXTENDS Naturals, FiniteSets

CONSTANTS Calls,         \* names for the spawned tasks; BOUND on how many are alive
          Manager,       \* the manager of this orchestrator
          Cooldown,      \* HEARTBEAT_COOLDOWN, in ticks
          Interval,      \* HEARTBEAT_INTERVAL, in ticks
          MaxFailures    \* BOUND: heartbeats that may fail

ASSUME ThrottleAssumption ==
  /\ IsFiniteSet(Calls)
  /\ Manager \notin Calls
  /\ Cooldown \in Nat \ {0}
  /\ Interval \in Nat \ {0}
  /\ MaxFailures \in Nat

Callers == Calls \cup {Manager}

VARIABLES
  at,           \* "none", "ready" to run, a delayed task "created" and not yet run,
                \* "sleeping", or "sending" a heartbeat
  left,         \* ticks left to sleep, or, once created, to be slept
  delayed,      \* the calls that run _delayed_heartbeat
  debouncing,   \* _debouncing_flags
  sinceAnswer,  \* ticks since _last_heartbeat_times, counted up to Cooldown
  unsent,       \* some change of state is in no heartbeat sent so far
  carrying,     \* callers whose heartbeat in flight carries such a change
  sinceSent,    \* ticks since a heartbeat was last sent, counted up to Cooldown
  overlapped,   \* a heartbeat was sent while another was unanswered
  overtaken,    \* a heartbeat was answered while a delayed one was still to be sent
  failures      \* heartbeats that failed

vars == <<at, left, delayed, debouncing, sinceAnswer, unsent, carrying,
          sinceSent, overlapped, overtaken, failures>>

Init ==
  /\ at = [c \in Callers |-> IF c = Manager THEN "sleeping" ELSE "none"]
  /\ left = [c \in Callers |-> 0]
  /\ delayed = {}
  /\ debouncing = FALSE
  /\ sinceAnswer = Cooldown
  /\ unsent = FALSE
  /\ carrying = {}
  /\ sinceSent = Cooldown
  /\ overlapped = FALSE
  /\ overtaken = FALSE
  /\ failures = 0

Sending == {c \in Callers : at[c] = "sending"}
Free == {c \in Calls : at[c] = "none"}

-----------------------------------------------------------------------------

\* A task is accepted or ends, or a hot skill changes: _schedule_heartbeat_debounce
\* creates a task that will call _send_single_heartbeat.  (One name stays free
\* for a delayed heartbeat.)
Change ==
  /\ Cardinality(Free) > 1
  /\ \E c \in Free : at' = [at EXCEPT ![c] = "ready"]
  /\ unsent' = TRUE
  /\ UNCHANGED <<left, delayed, debouncing, sinceAnswer, carrying, sinceSent,
                 overlapped, overtaken, failures>>

\* The first step of _delayed_heartbeat.  Its sleep begins here, not where the task
\* was created.
Starts(c) ==
  /\ at[c] = "created"
  /\ at' = [at EXCEPT ![c] = "sleeping"]
  /\ UNCHANGED <<left, delayed, debouncing, sinceAnswer, unsent, carrying, sinceSent,
                 overlapped, overtaken, failures>>

\* c is about to call _send_single_heartbeat: a spawned task, a delayed one that
\* slept its time, or the manager when its interval is over.
Calling(c) == at[c] = "ready" \/ (at[c] = "sleeping" /\ left[c] = 0)

\* MUTANT: the manager ends with its first heartbeat.
RestingOnce(c) == "none"

\* Where c goes when _send_single_heartbeat returns or raises: the manager waits for
\* its next turn, a task ends.
Resting(c) == IF c = Manager THEN "sleeping" ELSE "none"
Wait(c) == IF c = Manager THEN Interval ELSE 0

\* MUTANT: the flag is never cleared.
EndsKeepingFlag(c) == delayed' = delayed \ {c} /\ UNCHANGED debouncing

\* The finally block of _delayed_heartbeat clears the flag.
Ends(c) ==
  /\ delayed' = delayed \ {c}
  /\ debouncing' = (debouncing /\ c \notin delayed)

\* MUTANT: the caller itself waits for the end of the cooldown.
DebounceInPlace(c) ==
  /\ Calling(c)
  /\ sinceAnswer < Cooldown
  /\ at' = [at EXCEPT ![c] = "sleeping"]
  /\ left' = [left EXCEPT ![c] = Cooldown - sinceAnswer]
  /\ delayed' = delayed \cup {c}
  /\ debouncing' = TRUE
  /\ UNCHANGED <<sinceAnswer, unsent, carrying, sinceSent, overlapped, overtaken,
                 failures>>

\* MUTANT: inside the cooldown the call is ignored.
DebounceDrops(c) ==
  /\ Calling(c)
  /\ sinceAnswer < Cooldown
  /\ at' = [at EXCEPT ![c] = Resting(c)]
  /\ left' = [left EXCEPT ![c] = Wait(c)]
  /\ Ends(c)
  /\ UNCHANGED <<sinceAnswer, unsent, carrying, sinceSent, overlapped, overtaken,
                 failures>>

\* Inside the cooldown the caller returns at once, after starting a delayed
\* heartbeat if none is pending.
Debounce(c) ==
  /\ Calling(c)
  /\ sinceAnswer < Cooldown
  /\ IF debouncing
     THEN /\ at' = [at EXCEPT ![c] = Resting(c)]
          /\ left' = [left EXCEPT ![c] = Wait(c)]
          /\ Ends(c)
     ELSE \E n \in Free :
            /\ at' = [at EXCEPT ![c] = Resting(c), ![n] = "created"]
            /\ left' = [left EXCEPT ![c] = Wait(c), ![n] = Cooldown - sinceAnswer]
            /\ delayed' = (delayed \ {c}) \cup {n}
            /\ debouncing' = (c \notin delayed)
  /\ UNCHANGED <<sinceAnswer, unsent, carrying, sinceSent, overlapped, overtaken,
                 failures>>

\* MUTANT: the cooldown is not checked.
SendAnyTime(c) ==
  /\ Calling(c)
  /\ at' = [at EXCEPT ![c] = "sending"]
  /\ carrying' = IF unsent THEN carrying \cup {c} ELSE carrying
  /\ unsent' = FALSE
  /\ overlapped' = (overlapped \/ Sending # {})
  /\ sinceSent' = 0
  /\ UNCHANGED <<left, delayed, debouncing, sinceAnswer, overtaken, failures>>

\* Outside it the payload is built from the current state and sent.
Send(c) ==
  /\ Calling(c)
  /\ sinceAnswer >= Cooldown
  /\ at' = [at EXCEPT ![c] = "sending"]
  /\ carrying' = IF unsent THEN carrying \cup {c} ELSE carrying
  /\ unsent' = FALSE
  /\ overlapped' = (overlapped \/ Sending # {})
  /\ sinceSent' = 0
  /\ UNCHANGED <<left, delayed, debouncing, sinceAnswer, overtaken, failures>>

\* The response arrives: only now is the time of the heartbeat recorded.  A delayed
\* heartbeat may be pending although the cooldown it waited for is over: it began
\* its sleep late, or the loop has not got round to its timer.
Answered(c) ==
  /\ at[c] = "sending"
  /\ sinceAnswer' = 0
  /\ at' = [at EXCEPT ![c] = Resting(c)]
  /\ left' = [left EXCEPT ![c] = Wait(c)]
  /\ Ends(c)
  /\ carrying' = carrying \ {c}
  /\ overtaken' = (overtaken \/ \E e \in delayed \ {c} : at[e] # "sending")
  /\ UNCHANGED <<unsent, sinceSent, overlapped, failures>>

\* send_heartbeat raises: the manager waits and goes on, a task ends with its error.
SendFails(c) ==
  /\ at[c] = "sending"
  /\ failures < MaxFailures
  /\ failures' = failures + 1
  /\ at' = [at EXCEPT ![c] = Resting(c)]
  /\ left' = [left EXCEPT ![c] = Wait(c)]
  /\ Ends(c)
  /\ unsent' = (unsent \/ c \in carrying)
  /\ carrying' = carrying \ {c}
  /\ UNCHANGED <<sinceAnswer, sinceSent, overlapped, overtaken>>

Older(n) == IF n < Cooldown THEN n + 1 ELSE n

\* Time passes, whether or not the loop has got round to what is ready or due.
Tick ==
  /\ left' = [c \in Callers |-> IF at[c] = "sleeping" /\ left[c] > 0
                                THEN left[c] - 1 ELSE left[c]]
  /\ sinceAnswer' = Older(sinceAnswer)
  /\ sinceSent' = Older(sinceSent)
  /\ UNCHANGED <<at, delayed, debouncing, unsent, carrying, overlapped, overtaken,
                 failures>>

Runs(c) == Starts(c) \/ Debounce(c) \/ Send(c)

Next ==
  \/ Change \/ Tick
  \/ \E c \in Callers : Runs(c) \/ Answered(c) \/ SendFails(c)

Spec == Init /\ [][Next]_vars

(***************************************************************************)
(* The loop runs what is ready, time passes, and a request is answered or  *)
(* fails within the transport's timeout.  Changes need not happen.         *)
(***************************************************************************)
Fairness ==
  /\ WF_vars(Tick)
  /\ \A c \in Callers :
       WF_vars(Runs(c)) /\ WF_vars(Answered(c) \/ SendFails(c))

FairSpec == Spec /\ Fairness

-----------------------------------------------------------------------------
(* Properties.                                                             *)

TypeOK ==
  /\ at \in [Callers -> {"none", "ready", "created", "sleeping", "sending"}]
  /\ left \in [Callers -> Nat]
  /\ delayed \subseteq Calls
  /\ debouncing \in BOOLEAN
  /\ sinceAnswer \in 0..Cooldown
  /\ unsent \in BOOLEAN
  /\ carrying \subseteq Callers
  /\ sinceSent \in 0..Cooldown
  /\ overlapped \in BOOLEAN
  /\ overtaken \in BOOLEAN
  /\ failures \in Nat

\* The flag is exact: it is set while one delayed heartbeat is pending or in flight
\* and clear otherwise, so there is never a second timer, nor a flag without the
\* task that would clear it (which would silence debouncing for good).
FlagIsExact ==
  /\ \A c, e \in delayed : c = e
  /\ debouncing <=> delayed # {}
  /\ \A c \in delayed : at[c] # "none"

\* Who will still call _send_single_heartbeat because of a change.
Pending == {c \in Calls : at[c] \in {"ready", "created", "sleeping"}}

\* README: events "are not lost but consolidated and sent after the cooldown
\* period", that is, a change no heartbeat carries has a call that will.
ChangesHaveACall == unsent => Pending # {}

\* What the code keeps of it: a change is left behind only after a failure, after two
\* heartbeats overlapped, or after one that slipped in between the end of a cooldown
\* and the waking of the delayed heartbeat was answered before that one was sent, so
\* that it finds a new cooldown and its own flag.
LossNeedsRace ==
  ~overlapped /\ ~overtaken /\ failures = 0 => ChangesHaveACall

\* README: "Throttles heartbeats to once every 2 seconds", from one sending to the next.
\* They are, unless one is sent while another is unanswered or one failed before.
SpacingNeedsOverlap ==
  [][\A c \in Callers :
       at[c] # "sending" /\ at'[c] = "sending" /\ ~overlapped' /\ failures = 0
         => sinceSent >= Cooldown]_vars

\* A change that misses its heartbeat is in one at last: the periodic heartbeat makes
\* up for a lost delayed one and for failures.
ChangeIsReported == unsent ~> ~unsent

=============================================================================
