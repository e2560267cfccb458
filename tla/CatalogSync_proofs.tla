--------------------------- MODULE CatalogSync_proofs ---------------------------
(***************************************************************************)
(* Proofs about CatalogSync, for any number of versions, heartbeats and    *)
(* faults, any levels of usage and any deadband.                           *)
(***************************************************************************)
EXTENDS CatalogSync, TLAPS

-----------------------------------------------------------------------------
(* What the worker and its orchestrator know of each other.                *)

Registering(o) == session[o] \in {"registering", "registered"}

(***************************************************************************)
(* No hash is ahead of the catalog, a registration is on its way exactly   *)
(* while a manager waits for one, and a manager in its heartbeat loop has  *)
(* one heartbeat on its way at most.                                       *)
(***************************************************************************)
Requests ==
  /\ TypeOK
  /\ lastSynced <= catalog
  /\ \A o \in Orchestrators :
       /\ registration[o] # NoHash <=> Registering(o)
       /\ \A hb \in heartbeats[o] :
            /\ hb.hash <= catalog
            /\ hb.from = "manager" => session[o] = "heartbeat"
       /\ \A g, h \in heartbeats[o] : g.from = "manager" /\ h.from = "manager" => g = h

\* One orchestrator and no requests that overlapped.
InTurn(o) == Orchestrators = {o} /\ ~overlapped

OneRequest(o) ==
  /\ \A g, h \in heartbeats[o] : g = h
  /\ Registering(o) => heartbeats[o] = {}

(***************************************************************************)
(* The hash synced last, against what the orchestrator holds.  A heartbeat *)
(* on its way is never behind that hash, and is a light one exactly when   *)
(* it repeats it.                                                          *)
(***************************************************************************)
Synced(o) ==
  /\ Registering(o) => registration[o] = lastSynced
  /\ o \in serving =>
       /\ session[o] = "registered" => known[o] = lastSynced
       /\ session[o] = "heartbeat" /\ lastSynced = catalog => known[o] = catalog
  /\ \A hb \in heartbeats[o] :
       /\ lastSynced <= hb.hash
       /\ hb.full <=> lastSynced # hb.hash
       /\ hb.answer = "ok" /\ o \in serving => known[o] = hb.hash

(***************************************************************************)
(* Without faults the two also agree on who serves whom, and the hash      *)
(* synced last is what the orchestrator holds until it answers.            *)
(***************************************************************************)
Faultless(o) ==
  /\ o \in serving <=> session[o] \in {"registered", "heartbeat"}
  /\ \A hb \in heartbeats[o] : hb.answer = "not_found" => o \notin serving
  /\ session[o] = "heartbeat" =>
       /\ \A hb \in heartbeats[o] : hb.answer \in {"none", "ok"}
       /\ (\A hb \in heartbeats[o] : hb.answer = "none") => known[o] = lastSynced

(***************************************************************************)
(* The usage sent last is the one the orchestrator heard, or in the        *)
(* heartbeat on its way there.                                             *)
(***************************************************************************)
Heard(o) ==
  /\ \A hb \in heartbeats[o] : hb.usage # NoUsage => hb.usage = lastUsage
  /\ told[o] # NoUsage =>
       /\ o \in serving
       /\ \/ told[o] = lastUsage
          \/ \E hb \in heartbeats[o] : hb.answer = "none" /\ hb.usage # NoUsage

Belief(o) == OneRequest(o) /\ Synced(o) /\ (faults = 0 => Faultless(o) /\ Heard(o))

Beliefs == \A o \in Orchestrators : InTurn(o) => Belief(o)

-----------------------------------------------------------------------------
(* What a heartbeat is when it leaves, and when it is answered.            *)

\* What a heartbeat carries when it leaves, whoever sends it.
LEMMA HeartbeatSent ==
  ASSUME TypeOK, NEW o \in Orchestrators, NEW sender \in Senders, SendHeartbeat(o, sender)
  PROVE  /\ \E hb \in Heartbeat :
              /\ hb.hash = catalog /\ hb.answer = "none" /\ hb.from = sender
              /\ hb.full <=> lastSynced # catalog
              /\ heartbeats' = [heartbeats EXCEPT ![o] = @ \cup {hb}]
              /\ lastUsage' = IF hb.usage = NoUsage THEN lastUsage ELSE hb.usage
         /\ sender = "manager" =>
              session[o] = "heartbeat" /\ \A h \in heartbeats[o] : h.from # "manager"
         /\ forceDue' \in BOOLEAN
         /\ overlapped' \in BOOLEAN
         /\ ~overlapped' => ~overlapped /\ heartbeats[o] = {} /\ registration[o] = NoHash
         /\ UNCHANGED <<catalog, lastSynced, usage, usageChanges, session, registration, known,
                        told, serving, faults>>
<1> DEFINE Sent(u) == [hash |-> ContractHash, full |-> ContractHash # lastSynced, usage |-> u,
                       from |-> sender, answer |-> "none"]
<1>1. PICK u \in Usages : /\ Telemetry(Sent(u))
                          /\ heartbeats' = [heartbeats EXCEPT ![o] = @ \cup {Sent(u)}]
  BY DEF SendHeartbeat
<1>2. PICK hb : hb = Sent(u)
  OBVIOUS
<1>3. hb \in Heartbeat
  <2>1. (ContractHash # lastSynced) \in BOOLEAN
    BY Zenon
  <2>2. ContractHash \in Versions
    BY DEF ContractHash, TypeOK
  <2> QED
    BY <1>2, <2>1, <2>2 DEF Heartbeat
<1>4. /\ hb.hash = catalog /\ hb.answer = "none" /\ hb.usage = u /\ hb.from = sender
      /\ hb.full <=> lastSynced # catalog
  BY <1>2 DEF ContractHash
<1>5. /\ lastUsage' = IF hb.usage = NoUsage THEN lastUsage ELSE usage
      /\ hb.usage # NoUsage => hb.usage = usage
      /\ forceDue' = (hb.usage = NoUsage /\ forceDue)
  <2>1. Telemetry(hb)
    BY <1>1, <1>2, Zenon
  <2> QED
    BY <2>1 DEF Telemetry
<1>6. forceDue' \in BOOLEAN
  BY <1>5, Zenon
<1>7. heartbeats' = [heartbeats EXCEPT ![o] = @ \cup {hb}]
  BY <1>1, <1>2
<1>8. /\ overlapped' \in BOOLEAN
      /\ ~overlapped' => ~overlapped /\ heartbeats[o] = {} /\ registration[o] = NoHash
  BY Zenon DEF SendHeartbeat
<1>9. UNCHANGED <<catalog, lastSynced, usage, usageChanges, session, registration, known,
                  told, serving, faults>>
  BY DEF SendHeartbeat, worker
<1>10. sender = "manager" =>
         session[o] = "heartbeat" /\ \A h \in heartbeats[o] : h.from # "manager"
  BY DEF SendHeartbeat, InFlight
<1> HIDE DEF Sent
<1> QED
  BY <1>3, <1>4, <1>5, <1>6, <1>7, <1>8, <1>9, <1>10

\* How the orchestrator answers a heartbeat, and what it learns from it.
LEMMA HeartbeatHandled ==
  ASSUME TypeOK, NEW o \in Orchestrators, NEW hb \in heartbeats[o], HandleHeartbeat(o, hb)
  PROVE  /\ hb.answer = "none"
         /\ \E answered \in Heartbeat :
              /\ answered.hash = hb.hash /\ answered.usage = hb.usage
              /\ answered.full = hb.full /\ answered.from = hb.from
              /\ answered.answer = IF o \notin serving THEN "not_found"
                                ELSE IF hb.full \/ hb.hash = known[o] THEN "ok" ELSE "full_sync"
              /\ heartbeats' = [heartbeats EXCEPT ![o] = (@ \ {hb}) \cup {answered}]
         /\ known' = IF o \in serving /\ hb.full THEN [known EXCEPT ![o] = hb.hash] ELSE known
         /\ told' = IF o \in serving /\ hb.usage # NoUsage
                    THEN [told EXCEPT ![o] = hb.usage] ELSE told
         /\ UNCHANGED <<catalog, usage, usageChanges, lastSynced, lastUsage, forceDue, session,
                        registration, serving, overlapped, faults>>
<1> DEFINE reply == IF o \notin serving THEN "not_found"
                    ELSE IF hb.full \/ hb.hash = known[o] THEN "ok" ELSE "full_sync"
<1>1. /\ hb.answer = "none"
      /\ heartbeats' = [heartbeats EXCEPT ![o] = (@ \ {hb}) \cup {[hb EXCEPT !.answer = reply]}]
      /\ known' = IF o \in serving /\ hb.full THEN [known EXCEPT ![o] = hb.hash] ELSE known
      /\ told' = IF o \in serving /\ hb.usage # NoUsage
                 THEN [told EXCEPT ![o] = hb.usage] ELSE told
      /\ UNCHANGED <<catalog, usage, usageChanges, lastSynced, lastUsage, forceDue, session,
                     registration, serving, overlapped, faults>>
  BY DEF HandleHeartbeat, worker, payload
<1>2. PICK answered : answered = [hb EXCEPT !.answer = reply]
  OBVIOUS
<1>3. hb \in Heartbeat
  BY DEF TypeOK
<1>4. reply \in {"ok", "full_sync", "not_found"}
  OBVIOUS
<1>5. /\ answered \in Heartbeat /\ answered.answer = reply
      /\ answered.hash = hb.hash /\ answered.usage = hb.usage
      /\ answered.full = hb.full /\ answered.from = hb.from
  <2> HIDE DEF reply
  <2> QED
    BY <1>2, <1>3, <1>4 DEF Heartbeat
<1>6. heartbeats' = [heartbeats EXCEPT ![o] = (@ \ {hb}) \cup {answered}]
  BY <1>1, <1>2
<1> QED
  BY <1>1, <1>5, <1>6

-----------------------------------------------------------------------------
(* Types, and which request is on its way.                                 *)

LEMMA RequestsInit == Init => Requests
<1> USE CatalogAssumption DEF Init, Requests, TypeOK
<1>1. Init => overlapped \in BOOLEAN /\ forceDue \in BOOLEAN
  BY Zenon
<1> QED
  BY <1>1 DEF Versions, Hashes, NoHash, Usages, NoUsage, Registering


\* Every step keeps the types and the bookkeeping of the requests.
LEMMA RequestsStep ==
  ASSUME Requests, [Next]_vars
  PROVE  Requests'
<1> USE CatalogAssumption
    DEF Requests, TypeOK, Registering, Versions, Hashes, NoHash, Usages, NoUsage
<1>1. CASE ChangeCatalog
  <2>1. \A o \in Orchestrators : \A hb \in heartbeats[o] : hb.hash \in Nat
    BY DEF Heartbeat
  <2> QED
    BY <1>1, <2>1 DEF ChangeCatalog, payload
<1>2. CASE ChangeUsage
  BY <1>2 DEF ChangeUsage, payload
<1>3. CASE ForceIntervalEnds
  <2>1. forceDue' \in BOOLEAN
    BY <1>3, Zenon DEF ForceIntervalEnds
  <2> QED
    BY <1>3, <2>1 DEF ForceIntervalEnds, worker
<1>4. ASSUME NEW o \in Orchestrators, SendRegistration(o)
      PROVE  Requests'
  <2>1. overlapped' \in BOOLEAN
    BY <1>4, Zenon DEF SendRegistration
  <2> QED
    BY <1>4, <2>1 DEF SendRegistration, worker
<1>5. ASSUME NEW o \in Orchestrators, LoseRegistration(o) \/ Registered(o) \/ HandleRegistration(o)
      PROVE  Requests'
  BY <1>5 DEF LoseRegistration, Registered, HandleRegistration, worker, payload
<1>6. ASSUME NEW o \in Orchestrators, Restart(o)
      PROVE  Requests'
  BY <1>6 DEF Restart, worker, payload
<1>7. ASSUME NEW o \in Orchestrators, NEW sender \in Senders, SendHeartbeat(o, sender)
      PROVE  Requests'
  <2>1. PICK hb \in Heartbeat :
          /\ hb.hash = catalog /\ hb.from = sender
          /\ heartbeats' = [heartbeats EXCEPT ![o] = @ \cup {hb}]
          /\ lastUsage' = IF hb.usage = NoUsage THEN lastUsage ELSE hb.usage
    BY <1>7, HeartbeatSent
  <2>2. /\ sender = "manager" =>
             session[o] = "heartbeat" /\ \A h \in heartbeats[o] : h.from # "manager"
        /\ forceDue' \in BOOLEAN
        /\ overlapped' \in BOOLEAN
        /\ UNCHANGED <<catalog, lastSynced, usage, usageChanges, session, registration, known,
                       told, serving, faults>>
    BY <1>7, HeartbeatSent
  <2>3. lastUsage' \in Usages
    BY <2>1 DEF Heartbeat
  <2> QED
    BY <2>1, <2>2, <2>3
<1>8. ASSUME NEW o \in Orchestrators, NEW hb \in heartbeats[o],
             \/ ReceiveAnswer(o, hb) \/ ReceiveNotFound(o, hb) \/ LoseHeartbeat(o, hb)
      PROVE  Requests'
  <2>1. hb \in Heartbeat /\ hb.hash \in Hashes /\ hb.hash <= catalog
    BY DEF Heartbeat
  <2>2. ASSUME ReceiveAnswer(o, hb) PROVE Requests'
    BY <2>1, <2>2 DEF ReceiveAnswer, Took, worker
  <2>3. ASSUME ReceiveNotFound(o, hb) PROVE Requests'
    <3>1. CASE hb.from = "manager"
      BY <2>1, <2>3, <3>1 DEF ReceiveNotFound, Took, worker
    <3>2. CASE hb.from # "manager"
      BY <2>1, <2>3, <3>2 DEF ReceiveNotFound, Took, worker
    <3> QED
      BY <3>1, <3>2
  <2>4. ASSUME LoseHeartbeat(o, hb) PROVE Requests'
    BY <2>1, <2>4 DEF LoseHeartbeat, Took, worker, payload
  <2> QED
    BY <1>8, <2>2, <2>3, <2>4
<1>9. ASSUME NEW o \in Orchestrators, NEW hb \in heartbeats[o], HandleHeartbeat(o, hb)
      PROVE  Requests'
  <2>1. PICK answered \in Heartbeat :
          /\ answered.hash = hb.hash /\ answered.from = hb.from
          /\ heartbeats' = [heartbeats EXCEPT ![o] = (@ \ {hb}) \cup {answered}]
    BY <1>9, HeartbeatHandled
  <2>2. /\ known' = IF o \in serving /\ hb.full THEN [known EXCEPT ![o] = hb.hash] ELSE known
        /\ told' = IF o \in serving /\ hb.usage # NoUsage
                   THEN [told EXCEPT ![o] = hb.usage] ELSE told
        /\ UNCHANGED <<catalog, usage, usageChanges, lastSynced, lastUsage, forceDue, session,
                       registration, serving, overlapped, faults>>
    BY <1>9, HeartbeatHandled
  <2>3. hb.hash \in Hashes /\ hb.usage \in Usages /\ hb.hash <= catalog
    BY DEF Heartbeat
  <2> QED
    BY <2>1, <2>2, <2>3
<1>10. CASE UNCHANGED vars
  BY <1>10 DEF vars, worker, payload
<1> QED
  BY <1>1, <1>2, <1>3, <1>4, <1>5, <1>6, <1>7, <1>8, <1>9, <1>10 DEF Next

\* So they always hold.
LEMMA RequestsInvariant == Spec => []Requests
<1> QED
  BY RequestsInit, RequestsStep, PTL DEF Spec

-----------------------------------------------------------------------------
(* The steps of a worker with one orchestrator, while no requests overlap. *)

\* What the steps need of the types.
Shapes ==
  /\ catalog \in Nat /\ lastSynced \in Nat /\ lastSynced <= catalog /\ faults \in Nat
  /\ session \in [Orchestrators -> {"register", "registering", "registered", "heartbeat"}]
  /\ registration \in [Orchestrators -> Nat]
  /\ heartbeats \in [Orchestrators -> SUBSET Heartbeat]
  /\ known \in [Orchestrators -> Nat]
  /\ serving \subseteq Orchestrators
  /\ told \in [Orchestrators -> Usages]
  /\ \A o \in Orchestrators :
       /\ registration[o] # NoHash <=> Registering(o)
       /\ \A hb \in heartbeats[o] :
            hb.hash \in Nat /\ hb.hash <= catalog
            /\ (hb.from = "manager" => session[o] = "heartbeat")

\* The part of it that the steps below need.
LEMMA ShapesHold == ASSUME Requests PROVE Shapes
BY CatalogAssumption DEF Requests, TypeOK, Shapes, Versions, Hashes, NoHash, Heartbeat

\* A registration, its answers and its loss keep what both sides know.
LEMMA RegistrationKeepsBelief ==
  ASSUME Requests, NEW o \in Orchestrators, Belief(o), ~overlapped',
         \/ SendRegistration(o) \/ LoseRegistration(o) \/ Registered(o)
         \/ HandleRegistration(o)
  PROVE  Belief(o)'
<1> USE ShapesHold DEF Belief, OneRequest, Synced, Faultless, Heard, Registering
<1>1. CASE SendRegistration(o)
  <2>1. heartbeats[o] = {}
    BY <1>1, Zenon DEF SendRegistration
  <2> QED
    BY <1>1, <2>1 DEF SendRegistration, worker, Shapes
<1>2. CASE LoseRegistration(o)
  BY <1>2 DEF LoseRegistration, worker, payload, Shapes
<1>3. CASE Registered(o)
  BY <1>3 DEF Registered, worker, payload, Shapes
<1>4. CASE HandleRegistration(o)
  BY <1>4 DEF HandleRegistration, worker, payload, Shapes
<1> QED
  BY <1>1, <1>2, <1>3, <1>4

\* So does a heartbeat that leaves,
LEMMA SendingKeepsBelief ==
  ASSUME Requests, NEW o \in Orchestrators, Belief(o), ~overlapped',
         NEW sender \in Senders, SendHeartbeat(o, sender)
  PROVE  Belief(o)'
<1>1. Shapes /\ TypeOK
  BY ShapesHold DEF Requests
<1>2. PICK hb \in Heartbeat :
        /\ hb.hash = catalog /\ hb.answer = "none"
        /\ hb.full <=> lastSynced # catalog
        /\ heartbeats' = [heartbeats EXCEPT ![o] = @ \cup {hb}]
        /\ lastUsage' = IF hb.usage = NoUsage THEN lastUsage ELSE hb.usage
  BY <1>1, HeartbeatSent
<1>3. /\ heartbeats[o] = {} /\ registration[o] = NoHash
      /\ UNCHANGED <<catalog, lastSynced, session, registration, known, told, serving, faults>>
  BY <1>1, HeartbeatSent
<1>4. heartbeats'[o] = {hb}
  BY <1>1, <1>2, <1>3 DEF Shapes
<1>5. ~Registering(o)
  BY <1>1, <1>3 DEF Shapes
<1>6. OneRequest(o)'
  BY <1>3, <1>4, <1>5 DEF OneRequest, Registering
<1>7. Synced(o)'
  BY <1>1, <1>2, <1>3, <1>4, <1>5 DEF Belief, Synced, Registering, Shapes
<1>8. ASSUME faults = 0 PROVE Faultless(o)' /\ Heard(o)'
  BY <1>1, <1>2, <1>3, <1>4, <1>8 DEF Belief, Faultless, Heard, Shapes
<1> QED
  BY <1>3, <1>6, <1>7, <1>8 DEF Belief

\* one that the orchestrator handles,
LEMMA HandlingKeepsBelief ==
  ASSUME Requests, NEW o \in Orchestrators, Belief(o), NEW hb \in heartbeats[o],
         HandleHeartbeat(o, hb)
  PROVE  Belief(o)'
<1>1. Shapes /\ TypeOK
  BY ShapesHold DEF Requests
<1>2. PICK answered \in Heartbeat :
        /\ answered.hash = hb.hash /\ answered.usage = hb.usage /\ answered.full = hb.full
        /\ answered.answer = IF o \notin serving THEN "not_found"
                             ELSE IF hb.full \/ hb.hash = known[o] THEN "ok" ELSE "full_sync"
        /\ heartbeats' = [heartbeats EXCEPT ![o] = (@ \ {hb}) \cup {answered}]
  BY <1>1, HeartbeatHandled
<1>3. /\ hb.answer = "none"
      /\ known' = IF o \in serving /\ hb.full THEN [known EXCEPT ![o] = hb.hash] ELSE known
      /\ told' = IF o \in serving /\ hb.usage # NoUsage
                 THEN [told EXCEPT ![o] = hb.usage] ELSE told
      /\ UNCHANGED <<catalog, lastSynced, lastUsage, session, registration, serving, faults>>
  BY <1>1, HeartbeatHandled
<1>4. heartbeats[o] = {hb} /\ heartbeats'[o] = {answered} /\ ~Registering(o)
  BY <1>1, <1>2 DEF Belief, OneRequest, Shapes
<1>5. OneRequest(o)'
  BY <1>3, <1>4 DEF OneRequest, Registering
<1>6. Synced(o)'
  BY <1>1, <1>2, <1>3, <1>4 DEF Belief, Synced, Registering, Shapes
<1>7. ASSUME faults = 0 PROVE Faultless(o)'
  BY <1>1, <1>2, <1>3, <1>4, <1>7 DEF Belief, Synced, Faultless, Shapes
<1>8. ASSUME faults = 0 PROVE Heard(o)'
  BY <1>1, <1>2, <1>3, <1>4, <1>8 DEF Belief, Heard, Shapes
<1> QED
  BY <1>3, <1>5, <1>6, <1>7, <1>8 DEF Belief

\* an answer the worker receives,
LEMMA ReceivingKeepsBelief ==
  ASSUME Requests, NEW o \in Orchestrators, Belief(o), NEW hb \in heartbeats[o],
         ReceiveAnswer(o, hb) \/ ReceiveNotFound(o, hb) \/ LoseHeartbeat(o, hb)
  PROVE  Belief(o)'
<1>1. Shapes
  BY ShapesHold
<1>2. /\ heartbeats' = [heartbeats EXCEPT ![o] = @ \ {hb}]
      /\ UNCHANGED <<catalog, lastUsage, registration, known, told, serving>>
  BY DEF ReceiveAnswer, ReceiveNotFound, LoseHeartbeat, Took, worker, payload
<1>3. heartbeats[o] = {hb} /\ heartbeats'[o] = {} /\ ~Registering(o)
  BY <1>1, <1>2 DEF Belief, OneRequest, Shapes
<1>4. CASE ReceiveAnswer(o, hb)
  <2>1. /\ lastSynced' = IF hb.answer = "ok" THEN hb.hash ELSE NoHash
        /\ hb.answer \in {"ok", "full_sync"} /\ UNCHANGED <<session, faults>>
    BY <1>4 DEF ReceiveAnswer
  <2> QED
    BY <1>1, <1>2, <1>3, <2>1
       DEF Belief, OneRequest, Synced, Faultless, Heard, Registering, Shapes, NoHash
<1>5. CASE ReceiveNotFound(o, hb)
  <2>1. /\ hb.answer = "not_found" /\ UNCHANGED faults
        /\ IF hb.from = "manager"
           THEN lastSynced' = NoHash /\ session' = [session EXCEPT ![o] = "register"]
           ELSE UNCHANGED <<lastSynced, session>>
    BY <1>5 DEF ReceiveNotFound
  <2>2. ~Registering(o)'
    BY <1>1, <1>3, <2>1 DEF Registering, Shapes
  <2> QED
    BY <1>1, <1>2, <1>3, <2>1, <2>2
       DEF Belief, OneRequest, Synced, Faultless, Heard, Registering, Shapes, NoHash
<1>6. CASE LoseHeartbeat(o, hb)
  <2>1. UNCHANGED <<lastSynced, session>> /\ faults' = faults + 1
    BY <1>6 DEF LoseHeartbeat, payload
  <2> QED
    BY <1>1, <1>2, <1>3, <2>1
       DEF Belief, OneRequest, Synced, Faultless, Heard, Registering, Shapes
<1> QED
  BY <1>4, <1>5, <1>6

\* and an orchestrator that restarts.
LEMMA RestartKeepsBelief ==
  ASSUME Requests, NEW o \in Orchestrators, Belief(o), Restart(o)
  PROVE  Belief(o)'
BY ShapesHold
   DEF Restart, Belief, OneRequest, Synced, Registering, Shapes, worker, payload

\* Hence every step does, the catalog's changes and the losses included.
LEMMA BeliefsStep ==
  ASSUME Requests, Beliefs, [Next]_vars
  PROVE  Beliefs'
<1> SUFFICES ASSUME NEW o \in Orchestrators, InTurn(o)'
             PROVE  Belief(o)'
  BY DEF Beliefs
<1>1. Orchestrators = {o} /\ ~overlapped'
  BY DEF InTurn
<1>2. ASSUME overlapped PROVE FALSE
  <2>1. UNCHANGED overlapped
        \/ (\E p \in Orchestrators : SendRegistration(p))
        \/ \E p \in Orchestrators : \E sender \in Senders : SendHeartbeat(p, sender)
    BY DEF Next, ChangeCatalog, ChangeUsage, ForceIntervalEnds, LoseRegistration, Registered,
           HandleRegistration, Restart, ReceiveAnswer, ReceiveNotFound, LoseHeartbeat,
           HandleHeartbeat, vars
  <2>2. overlapped'
    BY <1>2, <2>1, Zenon DEF SendRegistration, SendHeartbeat
  <2> QED
    BY <1>1, <2>2
<1>3. Belief(o)
  BY <1>1, <1>2 DEF Beliefs, InTurn
<1>4. CASE ChangeCatalog
  BY <1>3, <1>4, ShapesHold
     DEF ChangeCatalog, payload, Belief, OneRequest, Synced, Faultless, Heard, Registering, Shapes
<1>5. CASE ChangeUsage \/ ForceIntervalEnds \/ UNCHANGED vars
  <2>1. UNCHANGED <<catalog, lastSynced, lastUsage, session, registration, heartbeats, known, told,
                    serving, faults>>
    BY <1>5 DEF ChangeUsage, ForceIntervalEnds, vars, payload, worker
  <2> QED
    BY <1>3, <2>1 DEF Belief, OneRequest, Synced, Faultless, Heard, Registering
<1>6. CASE \/ SendRegistration(o) \/ LoseRegistration(o) \/ Registered(o)
           \/ HandleRegistration(o)
  BY <1>1, <1>3, <1>6, RegistrationKeepsBelief
<1>7. CASE Restart(o)
  BY <1>3, <1>7, RestartKeepsBelief
<1>8. CASE \E sender \in Senders : SendHeartbeat(o, sender)
  BY <1>1, <1>3, <1>8, SendingKeepsBelief
<1>9. CASE \E hb \in heartbeats[o] :
             ReceiveAnswer(o, hb) \/ ReceiveNotFound(o, hb) \/ LoseHeartbeat(o, hb)
  BY <1>3, <1>9, ReceivingKeepsBelief
<1>10. CASE \E hb \in heartbeats[o] : HandleHeartbeat(o, hb)
  BY <1>3, <1>10, HandlingKeepsBelief
<1> QED
  BY <1>1, <1>4, <1>5, <1>6, <1>7, <1>8, <1>9, <1>10 DEF Next

\* So Belief always holds of the one orchestrator.
LEMMA BeliefsInvariant == Spec => []Beliefs
<1>1. Init => Beliefs
  BY DEF Init, Beliefs, InTurn, Belief, OneRequest, Synced, Faultless, Heard, Registering
<1> QED
  BY <1>1, BeliefsStep, RequestsInvariant, PTL DEF Spec

-----------------------------------------------------------------------------
(* What follows for the worker.                                            *)

(***************************************************************************)
(* Every variable of the synchronisation keeps its type, for any number of *)
(* orchestrators.                                                          *)
(***************************************************************************)
THEOREM CatalogTypeCorrect == Spec => []TypeOK
<1>1. Requests => TypeOK
  BY DEF Requests
<1> QED
  BY <1>1, RequestsInvariant, PTL

(***************************************************************************)
(* A worker at rest that would send a light heartbeat next is right that   *)
(* its orchestrator holds the catalog, whatever requests and answers were  *)
(* lost and however often either side changed or restarted.                *)
(***************************************************************************)
THEOREM BeliefIsRightCorrect == Spec => []BeliefIsRight
<1>1. Beliefs => BeliefIsRight
  BY DEF Beliefs, InTurn, Belief, Synced, BeliefIsRight, AtRest
<1> QED
  BY <1>1, BeliefsInvariant, PTL

(***************************************************************************)
(* While no request was lost the worker sends its full catalog only to an  *)
(* orchestrator that does not hold it.                                     *)
(***************************************************************************)
THEOREM FullOnlyWhenChangedCorrect == Spec => []FullOnlyWhenChanged
<1>1. Beliefs => FullOnlyWhenChanged
  BY DEF Beliefs, InTurn, Belief, Faultless, FullOnlyWhenChanged, AtRest
<1> QED
  BY <1>1, BeliefsInvariant, PTL

(***************************************************************************)
(* The usage the deadband compares with is the one the orchestrator heard, *)
(* however slowly the usage drifts.                                        *)
(***************************************************************************)
THEOREM TelemetryIsRightCorrect == Spec => []TelemetryIsRight
<1>1. Beliefs => TelemetryIsRight
  BY DEF Beliefs, InTurn, Belief, Heard, TelemetryIsRight, AtRest
<1> QED
  BY <1>1, BeliefsInvariant, PTL

=============================================================================
