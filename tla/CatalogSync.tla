------------------------------- MODULE CatalogSync -------------------------------
(***************************************************************************)
(* How orchestrators learn the worker's skill catalog: registration sends  *)
(* all of it, a heartbeat sends its hash and adds the catalog only when    *)
(* the hash differs from _last_synced_skills_hash.  That variable belongs  *)
(* to the Worker, one for all its orchestrators, and heartbeats to         *)
(* different orchestrators (and to the same one) interleave at their       *)
(* awaits.                                                                 *)
(*                                                                         *)
(* A version stands for a catalog and for its hash.  A message in flight   *)
(* is a record; the orchestrator handles it and the worker resumes with    *)
(* the answer, or the request fails on the way there or back.  A request   *)
(* handled after the worker has timed out on it is left out.               *)
(*                                                                         *)
(* A heartbeat also brings the worker's resource usage, but only when that *)
(* left the deadband around the one sent last or the force interval is     *)
(* over; the one sent last is again one for all orchestrators.  A level    *)
(* stands for a measurement.                                               *)
(***************************************************************************)
EXTENDS Integers, FiniteSets

CONSTANTS Orchestrators,
          MaxVersion,      \* BOUND: versions the catalog goes through
          MaxSpawned,      \* BOUND: spawned heartbeats in flight to one orchestrator
          MaxFaults,       \* BOUND: failed requests and restarts
          Levels,          \* what the usage can be
          Deadband,        \* WORKER_TELEMETRY_DEADBAND, in levels
          MaxUsageChanges  \* BOUND: changes of the usage

ASSUME CatalogAssumption ==
  /\ IsFiniteSet(Orchestrators)
  /\ MaxVersion \in Nat \ {0}
  /\ MaxSpawned \in Nat
  /\ MaxFaults \in Nat
  /\ Levels \subseteq Nat \ {0} /\ Levels # {}
  /\ Deadband \in Nat
  /\ MaxUsageChanges \in Nat

Versions == 1..MaxVersion
NoHash == 0
Hashes == Versions \cup {NoHash}
NoUsage == 0
Usages == Levels \cup {NoUsage}

VARIABLES
  catalog,      \* the skills the worker has now
  lastSynced,   \* Worker._last_synced_skills_hash, NoHash for None
  session,      \* where each orchestrator's manager stands
  registration, \* hash of the registration in flight to each orchestrator
  heartbeats,   \* heartbeats in flight to each orchestrator
  known,        \* the catalog each orchestrator holds
  serving,      \* orchestrators that hold a session of this worker
  usage,        \* the resource usage now
  lastUsage,    \* Worker._last_sent_usage, NoUsage for None
  forceDue,     \* _telemetry_force_interval is over since it was sent
  told,         \* the usage each orchestrator heard of last
  usageChanges,
  overlapped,   \* a request was sent to an orchestrator while another was on its way
  faults

payload == <<lastSynced, lastUsage, forceDue>>
worker == <<catalog, usage, usageChanges>>
vars == <<worker, payload, session, registration, heartbeats, known, told, serving,
          overlapped, faults>>

\* A heartbeat comes from the manager's loop or from a task that a change of the
\* worker's state spawned; answer is what the orchestrator made of it.
Senders == {"manager", "change"}
Heartbeat == [hash : Versions, full : BOOLEAN, usage : Usages, from : Senders,
              answer : {"none", "ok", "full_sync", "not_found"}]

Init ==
  /\ catalog = 1
  /\ lastSynced = NoHash
  /\ session = [o \in Orchestrators |-> "register"]
  /\ registration = [o \in Orchestrators |-> NoHash]
  /\ heartbeats = [o \in Orchestrators |-> {}]
  /\ known = [o \in Orchestrators |-> NoHash]
  /\ serving = {}
  /\ usage \in Levels
  /\ lastUsage = NoUsage
  /\ forceDue = FALSE
  /\ told = [o \in Orchestrators |-> NoUsage]
  /\ usageChanges = 0
  /\ overlapped = FALSE
  /\ faults = 0

-----------------------------------------------------------------------------
(* The worker.                                                             *)

\* A skill is registered while the worker runs.
ChangeCatalog ==
  /\ catalog < MaxVersion
  /\ catalog' = catalog + 1
  /\ UNCHANGED <<usage, usageChanges, payload, session, registration, heartbeats, known, told,
                 serving, overlapped, faults>>

\* The next measurement differs.
ChangeUsage ==
  /\ usageChanges < MaxUsageChanges
  /\ usageChanges' = usageChanges + 1
  /\ \E u \in Levels \ {usage} : usage' = u
  /\ UNCHANGED <<catalog, payload, session, registration, heartbeats, known, told, serving,
                 overlapped, faults>>

ForceIntervalEnds ==
  /\ lastUsage # NoUsage /\ ~forceDue
  /\ forceDue' = TRUE
  /\ UNCHANGED <<worker, lastSynced, lastUsage, session, registration, heartbeats, known, told,
                 serving, overlapped, faults>>

\* _create_registration_payload already sets the synced hash; then the request leaves.
SendRegistration(o) ==
  /\ session[o] = "register"
  /\ lastSynced' = catalog
  /\ registration' = [registration EXCEPT ![o] = catalog]
  /\ session' = [session EXCEPT ![o] = "registering"]
  /\ overlapped' = (overlapped \/ heartbeats[o] # {})
  /\ UNCHANGED <<worker, lastUsage, forceDue, heartbeats, known, told, serving, faults>>

InFlight(o, sender) == {hb \in heartbeats[o] : hb.from = sender}

\* _is_telemetry_changed_significantly, of the one number that stands for all.
Significant(u, v) == u - v > Deadband \/ v - u > Deadband

\* MUTANT: what was measured is taken for sent.
TelemetryDrifts(hb) ==
  /\ hb.usage = IF lastUsage = NoUsage \/ forceDue \/ Significant(usage, lastUsage)
                THEN usage ELSE NoUsage
  /\ lastUsage' = usage
  /\ forceDue' = (hb.usage = NoUsage /\ forceDue)

\* MUTANT: there is no force interval.
TelemetryUnforced(hb) ==
  /\ hb.usage = IF lastUsage = NoUsage \/ Significant(usage, lastUsage) THEN usage ELSE NoUsage
  /\ lastUsage' = IF hb.usage = NoUsage THEN lastUsage ELSE usage
  /\ UNCHANGED forceDue

\* The heartbeat hb carries the usage when there is reason to; then that is the last one
\* sent, before hb has left.
Telemetry(hb) ==
  /\ hb.usage = IF lastUsage = NoUsage \/ forceDue \/ Significant(usage, lastUsage)
                THEN usage ELSE NoUsage
  /\ lastUsage' = IF hb.usage = NoUsage THEN lastUsage ELSE usage
  /\ forceDue' = (hb.usage = NoUsage /\ forceDue)

\* MUTANT: the heartbeat carries the hash that was synced last.
HashOfSynced == lastSynced

\* _calculate_contract_hash.
ContractHash == catalog

\* The manager sends one heartbeat at a time once registered; a change of state may
\* send one at any time, even before.
SendHeartbeat(o, sender) ==
  /\ IF sender = "manager"
     THEN session[o] = "heartbeat" /\ InFlight(o, sender) = {}
     ELSE Cardinality(InFlight(o, sender)) < MaxSpawned
  /\ \E u \in Usages :
       LET hb == [hash |-> ContractHash, full |-> ContractHash # lastSynced, usage |-> u,
                  from |-> sender, answer |-> "none"]
       IN  /\ Telemetry(hb)
           /\ hb \notin heartbeats[o]
           /\ heartbeats' = [heartbeats EXCEPT ![o] = @ \cup {hb}]
  /\ overlapped' = (overlapped \/ heartbeats[o] # {} \/ registration[o] # NoHash)
  /\ UNCHANGED <<worker, lastSynced, session, registration, known, told, serving, faults>>

Took(o, hb) == heartbeats' = [heartbeats EXCEPT ![o] = @ \ {hb}]

\* MUTANT: the hash is computed again when the answer arrives.
ReceiveAnswerLate(o, hb) ==
  /\ hb \in heartbeats[o]
  /\ hb.answer \in {"ok", "full_sync"}
  /\ Took(o, hb)
  /\ lastSynced' = IF hb.answer = "ok" THEN catalog ELSE NoHash
  /\ UNCHANGED <<worker, lastUsage, forceDue, session, registration, known, told, serving,
                 overlapped, faults>>

\* MUTANT: only the request for everything is looked at.
ReceiveAnswerForgets(o, hb) ==
  /\ hb \in heartbeats[o]
  /\ hb.answer \in {"ok", "full_sync"}
  /\ Took(o, hb)
  /\ lastSynced' = IF hb.answer = "ok" THEN lastSynced ELSE NoHash
  /\ UNCHANGED <<worker, lastUsage, forceDue, session, registration, known, told, serving,
                 overlapped, faults>>

\* The answer to a heartbeat: the hash it carried is now the synced one, unless the
\* orchestrator asks for everything.
ReceiveAnswer(o, hb) ==
  /\ hb \in heartbeats[o]
  /\ hb.answer \in {"ok", "full_sync"}
  /\ Took(o, hb)
  /\ lastSynced' = IF hb.answer = "ok" THEN hb.hash ELSE NoHash
  /\ UNCHANGED <<worker, lastUsage, forceDue, session, registration, known, told, serving,
                 overlapped, faults>>

\* MUTANT: the manager takes it for any other error and goes on.
ReceiveNotFoundIgnored(o, hb) ==
  /\ hb \in heartbeats[o]
  /\ hb.answer = "not_found"
  /\ Took(o, hb)
  /\ UNCHANGED <<worker, payload, session, registration, known, told, serving,
                 overlapped, faults>>

\* The orchestrator does not know this worker: the manager goes back to registering,
\* a spawned task ends with the error.
ReceiveNotFound(o, hb) ==
  /\ hb \in heartbeats[o]
  /\ hb.answer = "not_found"
  /\ Took(o, hb)
  /\ IF hb.from = "manager"
     THEN /\ lastSynced' = NoHash
          /\ session' = [session EXCEPT ![o] = "register"]
     ELSE UNCHANGED <<lastSynced, session>>
  /\ UNCHANGED <<worker, lastUsage, forceDue, registration, known, told, serving, overlapped,
                 faults>>

\* A heartbeat request fails, before or after the orchestrator saw it.
LoseHeartbeat(o, hb) ==
  /\ hb \in heartbeats[o]
  /\ faults < MaxFaults
  /\ faults' = faults + 1
  /\ Took(o, hb)
  /\ UNCHANGED <<worker, payload, session, registration, known, told, serving, overlapped>>

\* The same for a registration, which is tried again.
LoseRegistration(o) ==
  /\ session[o] \in {"registering", "registered"}
  /\ faults < MaxFaults
  /\ faults' = faults + 1
  /\ session' = [session EXCEPT ![o] = "register"]
  /\ registration' = [registration EXCEPT ![o] = NoHash]
  /\ UNCHANGED <<worker, payload, heartbeats, known, told, serving, overlapped>>

\* The registration succeeded and the heartbeat loop starts.
Registered(o) ==
  /\ session[o] = "registered"
  /\ session' = [session EXCEPT ![o] = "heartbeat"]
  /\ registration' = [registration EXCEPT ![o] = NoHash]
  /\ UNCHANGED <<worker, payload, heartbeats, known, told, serving, overlapped, faults>>

-----------------------------------------------------------------------------
(* The orchestrators (ENVIRONMENT: what the code under src/ relies on).    *)

HandleRegistration(o) ==
  /\ session[o] = "registering"
  /\ session' = [session EXCEPT ![o] = "registered"]
  /\ known' = [known EXCEPT ![o] = registration[o]]
  /\ serving' = serving \cup {o}
  /\ UNCHANGED <<worker, payload, registration, heartbeats, told, overlapped, faults>>

\* An orchestrator that knows the worker takes the catalog of a full heartbeat, and
\* asks for it when the hash of a light one is not the one it holds.
HandleHeartbeat(o, hb) ==
  /\ hb \in heartbeats[o]
  /\ hb.answer = "none"
  /\ LET reply  == IF o \notin serving THEN "not_found"
                   ELSE IF hb.full \/ hb.hash = known[o] THEN "ok" ELSE "full_sync"
     IN  heartbeats' = [heartbeats EXCEPT ![o] = (@ \ {hb}) \cup {[hb EXCEPT !.answer = reply]}]
  /\ known' = IF o \in serving /\ hb.full THEN [known EXCEPT ![o] = hb.hash] ELSE known
  /\ told' = IF o \in serving /\ hb.usage # NoUsage THEN [told EXCEPT ![o] = hb.usage] ELSE told
  /\ UNCHANGED <<worker, payload, session, registration, serving, overlapped, faults>>

\* An orchestrator restarts and forgets the worker.
Restart(o) ==
  /\ o \in serving
  /\ faults < MaxFaults
  /\ faults' = faults + 1
  /\ serving' = serving \ {o}
  /\ known' = [known EXCEPT ![o] = NoHash]
  /\ told' = [told EXCEPT ![o] = NoUsage]
  /\ UNCHANGED <<worker, payload, session, registration, heartbeats, overlapped>>

Next ==
  \/ ChangeCatalog \/ ChangeUsage \/ ForceIntervalEnds
  \/ \E o \in Orchestrators :
       \/ SendRegistration(o) \/ LoseRegistration(o) \/ Registered(o)
       \/ HandleRegistration(o) \/ Restart(o)
       \/ \E sender \in Senders : SendHeartbeat(o, sender)
       \/ \E hb \in heartbeats[o] :
            \/ ReceiveAnswer(o, hb) \/ ReceiveNotFound(o, hb)
            \/ LoseHeartbeat(o, hb) \/ HandleHeartbeat(o, hb)

Spec == Init /\ [][Next]_vars

(***************************************************************************)
(* Managers keep registering and sending their periodic heartbeat; each    *)
(* request is handled and answered, unless one of the bounded faults hits; *)
(* time passes.                                                            *)
(***************************************************************************)
Fairness ==
  /\ WF_vars(ForceIntervalEnds)
  /\ \A o \in Orchestrators :
       /\ WF_vars(SendRegistration(o))
       /\ WF_vars(HandleRegistration(o))
       /\ WF_vars(Registered(o))
       /\ WF_vars(SendHeartbeat(o, "manager"))
       /\ \A sender \in Senders :
            /\ WF_vars(\E hb \in heartbeats[o] : hb.from = sender /\ HandleHeartbeat(o, hb))
            /\ WF_vars(\E hb \in heartbeats[o] :
                         hb.from = sender /\ (ReceiveAnswer(o, hb) \/ ReceiveNotFound(o, hb)))

FairSpec == Spec /\ Fairness

-----------------------------------------------------------------------------
(* Properties.                                                             *)

TypeOK ==
  /\ catalog \in Versions
  /\ lastSynced \in Hashes
  /\ session \in [Orchestrators -> {"register", "registering", "registered", "heartbeat"}]
  /\ registration \in [Orchestrators -> Hashes]
  /\ heartbeats \in [Orchestrators -> SUBSET Heartbeat]
  /\ known \in [Orchestrators -> Hashes]
  /\ serving \subseteq Orchestrators
  /\ usage \in Levels
  /\ lastUsage \in Usages
  /\ forceDue \in BOOLEAN
  /\ told \in [Orchestrators -> Usages]
  /\ usageChanges \in Nat
  /\ overlapped \in BOOLEAN
  /\ faults \in Nat

\* Nothing is on its way between the worker and orchestrator o, which serves it.
AtRest(o) == session[o] = "heartbeat" /\ heartbeats[o] = {} /\ o \in serving

\* With nothing on the way, a worker with one orchestrator that is about to send only
\* the hash of its catalog is right that the orchestrator holds that catalog: lost
\* requests, lost answers, catalog changes and restarts notwithstanding.  (After requests
\* that overlapped, or were answered by another orchestrator, it may be wrong, until this
\* one asks for the catalog.)
BeliefIsRight ==
  \A o \in Orchestrators :
    /\ Orchestrators = {o}
    /\ AtRest(o) /\ ~overlapped
    /\ lastSynced = catalog
    => known[o] = catalog

\* README, Stable Hashing: the worker "Sends full skill catalog only when changed", so
\* with nothing on the way not to its one orchestrator while that holds the current one
\* (as long as no request was lost).
FullOnlyWhenChanged ==
  \A o \in Orchestrators :
    /\ Orchestrators = {o}
    /\ AtRest(o) /\ ~overlapped /\ faults = 0
    /\ known[o] = catalog
    => lastSynced = catalog

\* Once catalog changes and faults are over every orchestrator has the catalog for
\* good, whatever interleaving of heartbeats goes on.
SyncConverges == <>[](\A o \in Orchestrators : known[o] = catalog)

\* README, Telemetry Throttling: telemetry "is only sent when value changes by >5% or
\* after 60s force interval".  A worker with one orchestrator compares with
\* what that one has heard, so that however slowly the usage drifts the orchestrator's
\* view of it is off by the deadband only.
TelemetryIsRight ==
  \A o \in Orchestrators :
    /\ Orchestrators = {o}
    /\ AtRest(o) /\ ~overlapped /\ faults = 0
    /\ told[o] # NoUsage
    => told[o] = lastUsage

\* Lost heartbeats, restarts and answers that overtake each other included, a usage that
\* settles is known in the end, to within the deadband: the force interval sees to it.
\* (Not so with several orchestrators: each forced sending goes to one of them.)
UsageArrives ==
  <>[](\A o \in Orchestrators : told[o] # NoUsage /\ ~Significant(told[o], usage))

=============================================================================
