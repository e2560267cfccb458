-------------------------- MODULE TaskWorkspace_proofs --------------------------
(***************************************************************************)
(* Proofs about TaskWorkspace, for any finite set of deliveries, any       *)
(* objects, pieces of a file, number of transfers and of faults.           *)
(***************************************************************************)
EXTENDS TaskWorkspace, FiniteSetTheorems, TLAPS

(***************************************************************************)
(* What a step means to the two counters: delivery d goes to stage "to",   *)
(* and what it holds changes accordingly.                                  *)
(***************************************************************************)
Follows(old, new, C, from, to) ==
  new = IF from \in C THEN (IF to \in C THEN old ELSE old - 1)
                      ELSE (IF to \in C THEN old + 1 ELSE old)

Moves(d, to) ==
  /\ to \in Stages
  /\ stage' = [stage EXCEPT ![d] = to]
  /\ Follows(activeOps, activeOps', Counted, stage[d], to)
  /\ Follows(permits, permits', Holding, to, stage[d])
  /\ permits > 0 \/ to \notin Holding \/ stage[d] \in Holding

StageOK == stage \in [Deliveries -> Stages]

\* Which stages count and hold.
Plain == {"unseen", "released", "left", "running", "side wait", "side size", "cleanup", "wipe"}
CountedOnly == {"mkdir", "meta wait", "lookup", "get wait", "look", "unlink", "symlink",
                "put wait", "size"}
Both == {"meta", "get", "stream", "put"}
HoldingOnly == {"side"}

\* The four kinds make up all stages,
LEMMA StageTable ==
  /\ Stages = Plain \cup CountedOnly \cup Both \cup HoldingOnly
  /\ Counted = CountedOnly \cup Both
  /\ Holding = HoldingOnly \cup Both
BY DEF Stages, Counted, Holding, InTry, InParams, InHandler, InResult, InCleanup,
       Plain, CountedOnly, Both, HoldingOnly

\* no stage is of two kinds,
LEMMA Disjoint ==
  /\ \A s \in Plain : s \notin Counted /\ s \notin Holding /\ s \in Stages
  /\ \A s \in CountedOnly : s \in Counted /\ s \notin Holding /\ s \in Stages
  /\ \A s \in Both : s \in Counted /\ s \in Holding /\ s \in Stages
  /\ \A s \in HoldingOnly : s \notin Counted /\ s \in Holding /\ s \in Stages
<1>1. \A s \in Plain : s \notin CountedOnly /\ s \notin Both /\ s \notin HoldingOnly
  BY DEF Plain, CountedOnly, Both, HoldingOnly
<1>2. \A s \in CountedOnly : s \notin Both /\ s \notin HoldingOnly
  BY DEF CountedOnly, Both, HoldingOnly
<1>3. \A s \in Both : s \notin HoldingOnly
  BY DEF Both, HoldingOnly
<1> QED
  BY <1>1, <1>2, <1>3, StageTable

\* and these are the stages of each.
LEMMA Kinds ==
  /\ \A s \in {"unseen", "released", "left", "running", "side wait", "side size", "cleanup",
               "wipe"} : s \in Plain
  /\ \A s \in {"mkdir", "meta wait", "lookup", "get wait", "look", "unlink", "symlink",
               "put wait", "size"} : s \in CountedOnly
  /\ \A s \in {"meta", "get", "stream", "put"} : s \in Both
  /\ "side" \in HoldingOnly
BY DEF Plain, CountedOnly, Both, HoldingOnly

\* Every step of a coroutine moves it, and the counters with it.
LEMMA MoveSteps ==
  ASSUME NEW d \in Deliveries, StageOK,
         StartInput(d) \/ Step(d) \/ HandlerUploads(d) \/ Breaks(d) \/ CleanupBreaks(d)
  PROVE  \E to : Moves(d, to)
<1> USE Kinds, Disjoint DEF Moves, Follows, Goes, Acquire, GiveBack, counters
<1>1. StartInput(d) => Moves(d, "mkdir")
  BY DEF StartInput
<1>2. MakeRoot(d) => Moves(d, "meta wait")
  BY DEF MakeRoot
<1>3. AskMetadata(d) => Moves(d, "meta")
  BY DEF AskMetadata
<1>4. AskObject(d) => Moves(d, "get")
  BY DEF AskObject
<1>5. OpenFile(d) => Moves(d, "stream")
  BY DEF OpenFile
<1>6. Unlink(d) => Moves(d, "symlink")
  BY DEF Unlink
<1>7. Link(d) => Moves(d, "running")
  BY DEF Link, CallsHandler
<1>8. AskUpload(d) => Moves(d, "put")
  BY DEF AskUpload
<1>9. Uploaded(d) => Moves(d, "size")
  BY DEF Uploaded
<1>21. Measured(d) => Moves(d, "cleanup")
  BY DEF Measured
<1>10. RemoveTree(d) => Moves(d, "released")
  BY DEF RemoveTree
<1>11. CleanupBreaks(d) => Moves(d, "left")
  BY DEF CleanupBreaks, InCleanup
<1>12. GetMetadata(d) => Moves(d, "lookup") \/ Moves(d, "get wait")
  <2> SUFFICES ASSUME GetMetadata(d) PROVE Moves(d, "lookup") \/ Moves(d, "get wait")
    OBVIOUS
  <2>1. CASE Goes(d, "meta", "lookup")
    BY <2>1 DEF GetMetadata
  <2>2. CASE Goes(d, "meta", "get wait")
    BY <2>2 DEF GetMetadata
  <2> QED
    BY <2>1, <2>2 DEF GetMetadata
<1>13. LookUp(d) => Moves(d, "look") \/ Moves(d, "get wait")
  BY DEF LookUp
<1>14. EndStream(d) => Moves(d, "look") \/ Moves(d, "running")
  BY DEF EndStream, CallsHandler
<1>15. LookAtPath(d) => Moves(d, "symlink") \/ Moves(d, "unlink")
  BY DEF LookAtPath
<1>16. HandlerReturns(d) => Moves(d, "put wait") \/ Moves(d, "cleanup")
  BY DEF HandlerReturns
<1>17. CleanUp(d) => Moves(d, "wipe") \/ Moves(d, "released")
  BY DEF CleanUp
<1>18. WriteChunk(d) => Moves(d, "stream")
  BY DEF WriteChunk, StageOK
<1>19. HandlerUploads(d) => \/ Moves(d, "side wait") \/ Moves(d, "side")
                            \/ Moves(d, "side size") \/ Moves(d, "running")
  BY DEF HandlerUploads
<1>20. Fails(d) \/ Breaks(d) => Moves(d, "cleanup")
  <2>1. Fails(d) \/ Breaks(d) => Abort(d) /\ stage[d] \in Stages
    BY DEF Fails, Breaks, StageOK
  <2> QED
    BY <2>1 DEF Abort
<1> HIDE DEF Moves
<1> QED
  BY <1>1, <1>2, <1>3, <1>4, <1>5, <1>6, <1>7, <1>8, <1>9, <1>10, <1>11, <1>12, <1>13, <1>14,
     <1>15, <1>16, <1>17, <1>18, <1>19, <1>20, <1>21 DEF Step

(***************************************************************************)
(* A move of one delivery changes the number of those in C by what Follows *)
(* says.                                                                   *)
(***************************************************************************)
In(C) == {d \in Deliveries : stage[d] \in C}

\* Coroutines at given stages can be counted.
LEMMA InFinite ==
  ASSUME NEW C
  PROVE  IsFiniteSet(In(C)) /\ Cardinality(In(C)) \in Nat
<1>1. In(C) \in SUBSET Deliveries
  BY DEF In
<1> QED
  BY <1>1, WorkspaceAssumption, FS_Subset, FS_CardinalityType DEF WorkspaceAssumption

\* A move changes their number by one at most, as its two stages say.
LEMMA MoveCounts ==
  ASSUME StageOK, NEW d \in Deliveries, NEW to, stage' = [stage EXCEPT ![d] = to], NEW C
  PROVE  Follows(Cardinality(In(C)), Cardinality(In(C)'), C, stage[d], to)
<1>1. In(C)' = IF to \in C THEN In(C) \cup {d} ELSE In(C) \ {d}
  BY DEF StageOK, In
<1>2. d \in In(C) <=> stage[d] \in C
  BY DEF In
<1>3. /\ Cardinality(In(C) \cup {d}) = IF d \in In(C) THEN Cardinality(In(C))
                                                      ELSE Cardinality(In(C)) + 1
      /\ Cardinality(In(C) \ {d}) = IF d \in In(C) THEN Cardinality(In(C)) - 1
                                                   ELSE Cardinality(In(C))
  BY InFinite, FS_AddElement, FS_RemoveElement
<1> QED
  BY <1>1, <1>2, <1>3 DEF Follows

(***************************************************************************)
(* The other steps move nobody and leave the counters alone.               *)
(***************************************************************************)
LEMMA OtherSteps ==
  ASSUME NEW d \in Deliveries,
         HandlerWrites(d) \/ HandlerOverwrites(d) \/ ThreadEnds(d)
  PROVE  UNCHANGED <<stage, counters>>
BY DEF HandlerWrites, HandlerOverwrites, ThreadEnds, counters

\* What is not a move changes neither stages nor counters.
LEMMA NextMoves ==
  ASSUME StageOK, [Next]_vars
  PROVE  UNCHANGED <<stage, counters>> \/ \E d \in Deliveries : \E to : Moves(d, to)
<1>1. CASE UNCHANGED vars
  BY <1>1 DEF vars
<1>2. ASSUME NEW u \in Uris, Replace(u)
      PROVE  UNCHANGED <<stage, counters>>
  BY <1>2 DEF Replace
<1> QED
  BY <1>1, <1>2, MoveSteps, OtherSteps DEF Next

(***************************************************************************)
(* _active_ops and the semaphore agree with the coroutines.                *)
(***************************************************************************)
Counters == StageOK /\ CountersExact

\* Every step keeps the counters exact.
LEMMA CountersStep ==
  ASSUME Counters, [Next]_vars
  PROVE  Counters'
<1>1. CASE UNCHANGED <<stage, counters>>
  BY <1>1 DEF Counters, StageOK, CountersExact, counters
<1>2. ASSUME NEW d \in Deliveries, NEW to, Moves(d, to)
      PROVE  Counters'
  <2>1. StageOK'
    BY <1>2 DEF Counters, StageOK, Moves
  <2>2. /\ Follows(Cardinality(In(Counted)), Cardinality(In(Counted)'), Counted, stage[d], to)
        /\ Follows(Cardinality(In(Holding)), Cardinality(In(Holding)'), Holding, stage[d], to)
    BY <1>2, MoveCounts DEF Counters, Moves
  <2>3. /\ activeOps = Cardinality(In(Counted))
        /\ permits = MaxTransfers - Cardinality(In(Holding))
        /\ permits >= 0
    BY DEF Counters, CountersExact, In
  <2>4. Cardinality(In(Counted)) \in Nat /\ Cardinality(In(Holding)) \in Nat
        /\ MaxTransfers \in Nat
    BY InFinite, WorkspaceAssumption DEF WorkspaceAssumption
  <2>5. activeOps' = Cardinality(In(Counted)')
    BY <1>2, <2>2, <2>3, <2>4 DEF Moves, Follows
  <2>6. permits' = MaxTransfers - Cardinality(In(Holding)') /\ permits' >= 0
    BY <1>2, <2>2, <2>3, <2>4 DEF Moves, Follows
  <2> QED
    BY <2>1, <2>5, <2>6 DEF Counters, CountersExact, In
<1> QED
  BY <1>1, <1>2, NextMoves DEF Counters

(***************************************************************************)
(* The two counters are exact for any number of deliveries and transfers,  *)
(* through every failure and cancellation.                                 *)
(***************************************************************************)
THEOREM CountersCorrect == Spec => []Counters
<1>1. Init => Counters
  <2> SUFFICES ASSUME Init PROVE Counters
    OBVIOUS
  <2>1. StageOK /\ \A d \in Deliveries : stage[d] = "unseen"
    BY Kinds, Disjoint DEF Init, StageOK
  <2>2. In(Counted) = {} /\ In(Holding) = {}
    BY <2>1, Kinds, Disjoint DEF In
  <2>3. activeOps = 0 /\ permits = MaxTransfers /\ MaxTransfers \in Nat
    BY WorkspaceAssumption DEF Init, WorkspaceAssumption
  <2> QED
    BY <2>1, <2>2, <2>3, FS_EmptySet DEF Counters, CountersExact, In
<1> QED
  BY <1>1, CountersStep, PTL DEF Spec

(***************************************************************************)
(* So the property the runs check: _active_ops and the semaphore agree     *)
(* with the coroutines at every await.                                     *)
(***************************************************************************)
THEOREM CountersAreExact == Spec => []CountersExact
<1>1. Counters => CountersExact
  BY DEF Counters
<1> QED
  BY <1>1, CountersCorrect, PTL

-----------------------------------------------------------------------------
(* The directories.                                                        *)

Owning == InTry \cup InCleanup \cup {"left"}

\* A delivery owns its directory from its first step to its last.
LEMMA OwningStages ==
  \A s \in Stages : s \in Owning \/ s = "unseen" \/ s = "released"
BY DEF Owning, Stages

(***************************************************************************)
(* A step of delivery d touches no other directory than its own, and if    *)
(* that is there afterwards d owns it.                                     *)
(***************************************************************************)
Minds(d) ==
  /\ late \subseteq late'
  /\ dirs' \subseteq dirs \cup {IdOf[d]}
  /\ \A e \in Deliveries \ {d} : stage'[e] = stage[e]
  /\ IdOf[d] \in dirs' => stage'[d] \in Owning \/ d \in late'

\* Going on among these stages touches nobody else's directory,
LEMMA GoingMinds ==
  ASSUME StageOK, NEW d \in Deliveries, NEW to \in Owning, stage' = [stage EXCEPT ![d] = to],
         late' = late, dirs' \subseteq dirs \cup {IdOf[d]}
  PROVE  Minds(d)
BY DEF StageOK, Minds

\* nor does any other step of a delivery.
LEMMA MindfulSteps ==
  ASSUME StageOK, NEW d \in Deliveries,
         \/ StartInput(d) \/ Step(d) \/ HandlerUploads(d) \/ Breaks(d) \/ CleanupBreaks(d)
         \/ HandlerWrites(d)
  PROVE  Minds(d)
<1> USE DEF Goes, workspace, ghosts
<1>1. \A s \in {"mkdir", "meta wait", "meta", "lookup", "get wait", "get", "stream", "look",
                "unlink", "symlink", "running", "side wait", "side", "side size", "put wait", "put",
                "size", "cleanup", "wipe", "left"} : s \in Owning
  BY DEF Owning, InTry, InParams, InHandler, InResult, InCleanup
<1>2. CASE StartInput(d) \/ MakeRoot(d) \/ AskMetadata(d) \/ GetMetadata(d)
  BY <1>1, <1>2, GoingMinds DEF StartInput, MakeRoot, AskMetadata, GetMetadata
<1>3. CASE LookUp(d) \/ AskObject(d) \/ OpenFile(d)
  BY <1>1, <1>3, GoingMinds DEF LookUp, AskObject, OpenFile
<1>4. CASE WriteChunk(d)
  BY <1>1, <1>4 DEF WriteChunk, StageOK, Minds
<1>5. CASE EndStream(d) \/ LookAtPath(d) \/ Unlink(d) \/ Link(d)
  BY <1>1, <1>5, GoingMinds DEF EndStream, CallsHandler, LookAtPath, Unlink, Link
<1>6. CASE HandlerReturns(d) \/ AskUpload(d) \/ Uploaded(d) \/ Measured(d) \/ HandlerUploads(d)
  BY <1>1, <1>6, GoingMinds DEF HandlerReturns, AskUpload, Uploaded, Measured, HandlerUploads
<1>7. CASE CleanUp(d)
  <2>1. CASE Goes(d, "cleanup", "wipe")
    BY <1>1, <1>7, <2>1, GoingMinds DEF CleanUp
  <2>2. CASE IdOf[d] \notin dirs
    BY <1>7, <2>2 DEF CleanUp, StageOK, Minds
  <2> QED
    BY <1>7, <2>1, <2>2 DEF CleanUp
<1>8. CASE RemoveTree(d)
  BY <1>8 DEF RemoveTree, Wipes, StageOK, Minds
<1>9. CASE Fails(d) \/ Breaks(d)
  BY <1>1, <1>9, GoingMinds DEF Fails, Breaks, Abort
<1>10. CASE CleanupBreaks(d)
  BY <1>1, <1>10, GoingMinds DEF CleanupBreaks, Wipes
<1>11. CASE HandlerWrites(d)
  BY <1>11 DEF HandlerWrites, Minds, Owning
<1> QED
  BY <1>2, <1>3, <1>4, <1>5, <1>6, <1>7, <1>8, <1>9, <1>10, <1>11 DEF Step

\* Hence every directory keeps its owner, or one of the two reasons.
LEMMA DirectoriesStep ==
  ASSUME StageOK, DirectoryHasOwner, [Next]_vars
  PROVE  DirectoryHasOwner'
<1>1. ASSUME UNCHANGED <<stage, dirs, late>>
      PROVE  DirectoryHasOwner'
  BY <1>1 DEF DirectoryHasOwner
<1>2. ASSUME NEW d \in Deliveries, Minds(d)
      PROVE  DirectoryHasOwner'
  <2> SUFFICES ASSUME NEW i \in dirs'
               PROVE  \E e \in Deliveries : IdOf[e] = i /\ (stage'[e] \in Owning \/ e \in late')
    BY DEF DirectoryHasOwner, Owning
  <2>1. CASE i = IdOf[d]
    BY <1>2, <2>1 DEF Minds
  <2>2. CASE i # IdOf[d]
    <3>1. PICK e \in Deliveries : IdOf[e] = i /\ (stage[e] \in Owning \/ e \in late)
      BY <1>2, <2>2 DEF Minds, DirectoryHasOwner, Owning
    <3> QED
      BY <1>2, <2>2, <3>1 DEF Minds
  <2> QED
    BY <2>1, <2>2
<1>3. CASE UNCHANGED vars
  BY <1>1, <1>3 DEF vars, workspace, ghosts
<1>4. ASSUME NEW d \in Deliveries, HandlerOverwrites(d) \/ ThreadEnds(d)
      PROVE  DirectoryHasOwner'
  BY <1>1, <1>4 DEF HandlerOverwrites, ThreadEnds, workspace, ghosts
<1>5. ASSUME NEW u \in Uris, Replace(u)
      PROVE  DirectoryHasOwner'
  BY <1>1, <1>5 DEF Replace, workspace, ghosts
<1> QED
  BY <1>2, <1>3, <1>4, <1>5, MindfulSteps DEF Next

(***************************************************************************)
(* A directory whose tasks have all ended is there only because a cleanup  *)
(* was broken off or a thread created it again.                            *)
(***************************************************************************)
THEOREM DirectoryHasOwnerCorrect == Spec => []DirectoryHasOwner
<1>1. Init => DirectoryHasOwner
  BY DEF Init, DirectoryHasOwner
<1>2. Counters => StageOK
  BY DEF Counters
<1> QED
  BY <1>1, <1>2, DirectoriesStep, CountersCorrect, PTL DEF Spec

-----------------------------------------------------------------------------
(* Types.                                                                  *)

(***************************************************************************)
(* Who looks into the cache, or links to it, has an etag.                  *)
(***************************************************************************)
EtagKnown ==
  \A d \in Deliveries :
    stage[d] \in {"lookup", "look", "unlink", "symlink"} => transfer[d].etag \in Contents

(***************************************************************************)
(* The rest of the type invariant: Counters says that of the stages and    *)
(* the counters.                                                           *)
(***************************************************************************)
FilesOK ==
  /\ object \in [Uris -> Contents]
  /\ cached \subseteq Contents
  /\ data \in [Contents -> File]
  /\ dirs \subseteq TaskIds
  /\ input \in [TaskIds -> Paths]
  /\ own \in [TaskIds -> File]
  /\ output \subseteq TaskIds
  /\ threads \subseteq Deliveries
  /\ late \subseteq Deliveries
  /\ spoilt \subseteq Contents
  /\ faults \in 0..MaxFaults

TransfersOK == transfer \in [Deliveries -> Transfer]

Types == FilesOK /\ TransfersOK /\ EtagKnown

\* A task's object and its id are known ones.
LEMMA ObjectOf ==
  ASSUME FilesOK, NEW d \in Deliveries
  PROVE  object[InputOf[IdOf[d]]] \in Contents /\ IdOf[d] \in TaskIds
BY WorkspaceAssumption DEF FilesOK, WorkspaceAssumption

\* The count of faults stays within its bound.
LEMMA FaultsOK ==
  ASSUME FilesOK, faults' = faults \/ (faults < MaxFaults /\ faults' = faults + 1)
  PROVE  faults' \in 0..MaxFaults
BY WorkspaceAssumption DEF FilesOK, WorkspaceAssumption

\* Having no transfer is a value of its own.
LEMMA NoTransferIsOne == NoTransfer \in Transfer
BY WorkspaceAssumption DEF NoTransfer, Transfer, Paths, WorkspaceAssumption

\* An empty and a whole file are files.
LEMMA WholeIsFile ==
  /\ Empty \in File
  /\ \A c \in Contents : Whole(c) \in File
BY DEF Empty, Whole, File

\* What a handler opens is its own file or one of the cache.
LEMMA OpenedIn ==
  ASSUME Types, NEW d \in Deliveries
  PROVE  Opened(d) \in Contents \cup {"own"} /\ Opened(d) \in Paths
<1>1. transfer[d].etag \in Contents \cup {None} /\ input[IdOf[d]] \in Contents \cup {"none", "own"}
  BY ObjectOf DEF Types, TransfersOK, FilesOK, Transfer, Paths
<1> QED
  BY <1>1 DEF Opened, Paths

\* Removing a directory keeps the types.
LEMMA WipesOK ==
  ASSUME FilesOK, NEW i, Wipes(i)
  PROVE  /\ dirs' \subseteq TaskIds /\ output' \subseteq TaskIds
         /\ input' \in [TaskIds -> Paths] /\ own' \in [TaskIds -> File]
BY WholeIsFile DEF Wipes, Paths, FilesOK

\* Every step keeps the types of the files,
LEMMA FilesStep ==
  ASSUME Types, StageOK, [Next]_vars
  PROVE  FilesOK'
<1> USE DEF counters, cache, workspace, ghosts
<1>1. FilesOK
  BY DEF Types
<1>2. CASE UNCHANGED vars
  BY <1>1, <1>2 DEF vars, FilesOK
<1>3. ASSUME NEW u \in Uris, Replace(u)
      PROVE  FilesOK'
  BY <1>1, <1>3, FaultsOK DEF Replace, FilesOK
<1>4. ASSUME NEW d \in Deliveries, StartInput(d) \/ AskMetadata(d) \/ AskObject(d) \/ AskUpload(d)
      PROVE  FilesOK'
  BY <1>1, <1>4 DEF StartInput, AskMetadata, AskObject, AskUpload, FilesOK
<1>5. ASSUME NEW d \in Deliveries, MakeRoot(d) \/ HandlerUploads(d)
      PROVE  FilesOK'
  BY <1>1, <1>5, ObjectOf DEF MakeRoot, HandlerUploads, FilesOK
<1>6. ASSUME NEW d \in Deliveries, GetMetadata(d)
      PROVE  FilesOK'
  <2>1. faults' = faults \/ (faults < MaxFaults /\ faults' = faults + 1)
    BY <1>6 DEF GetMetadata
  <2>2. UNCHANGED <<object, cache, workspace, threads, ghosts>>
    BY <1>6 DEF GetMetadata
  <2> QED
    BY <1>1, <2>1, <2>2, FaultsOK DEF FilesOK
<1>7. ASSUME NEW d \in Deliveries, LookUp(d)
      PROVE  FilesOK'
  BY <1>1, <1>7 DEF LookUp, FilesOK
<1>8. ASSUME NEW d \in Deliveries, OpenFile(d)
      PROVE  FilesOK'
  <2>1. cached' \subseteq Contents /\ data' \in [Contents -> File] /\ spoilt' \subseteq Contents
    BY <1>1, <1>8, OpenedIn, WholeIsFile DEF OpenFile, FilesOK
  <2>2. input' \in [TaskIds -> Paths] /\ own' \in [TaskIds -> File]
    BY <1>1, <1>8, WholeIsFile DEF OpenFile, FilesOK, Paths
  <2> QED
    BY <1>1, <1>8, <2>1, <2>2 DEF OpenFile, FilesOK
<1>9. ASSUME NEW d \in Deliveries, WriteChunk(d)
      PROVE  FilesOK'
  <2>1. transfer[d].got \in Contents \cup {None}
    BY DEF Types, TransfersOK, Transfer
  <2> DEFINE t == transfer[d]
  <2>2. \A f \in File : [f EXCEPT ![t.next] = t.got] \in File
    BY <2>1 DEF File
  <2>3. data' = data \/ data' = [data EXCEPT ![t.to] = [@ EXCEPT ![t.next] = t.got]]
    BY <1>9 DEF WriteChunk
  <2>4. own' = own \/ own' = [own EXCEPT ![IdOf[d]] = [@ EXCEPT ![t.next] = t.got]]
    BY <1>9 DEF WriteChunk
  <2> HIDE DEF t
  <2>5. data' \in [Contents -> File]
    BY <1>1, <2>2, <2>3 DEF FilesOK
  <2>6. own' \in [TaskIds -> File]
    BY <1>1, <2>2, <2>4 DEF FilesOK
  <2> QED
    BY <1>1, <1>9, <2>5, <2>6 DEF WriteChunk, FilesOK
<1>10. ASSUME NEW d \in Deliveries, EndStream(d)
       PROVE  FilesOK'
  BY <1>1, <1>10 DEF EndStream, CallsHandler, FilesOK
<1>11. ASSUME NEW d \in Deliveries,
              LookAtPath(d) \/ HandlerReturns(d) \/ Uploaded(d) \/ Measured(d) \/ CleanUp(d)
       PROVE  FilesOK'
  BY <1>1, <1>11 DEF LookAtPath, HandlerReturns, Uploaded, Measured, CleanUp, FilesOK
<1>12. ASSUME NEW d \in Deliveries, Unlink(d)
       PROVE  FilesOK'
  BY <1>1, <1>12, WholeIsFile DEF Unlink, FilesOK, Paths
<1>13. ASSUME NEW d \in Deliveries, Link(d)
       PROVE  FilesOK'
  <2>1. transfer[d].etag \in Paths
    BY <1>13 DEF Link, Goes, Types, EtagKnown, Paths
  <2> QED
    BY <1>1, <1>13, <2>1 DEF Link, CallsHandler, FilesOK
<1>14. ASSUME NEW d \in Deliveries, RemoveTree(d)
       PROVE  FilesOK'
  BY <1>1, <1>14, WipesOK DEF RemoveTree, FilesOK
<1>15. ASSUME NEW d \in Deliveries, CleanupBreaks(d)
       PROVE  FilesOK'
  <2>1. /\ dirs' \subseteq TaskIds /\ output' \subseteq TaskIds
        /\ input' \in [TaskIds -> Paths] /\ own' \in [TaskIds -> File]
    BY <1>1, <1>15, WipesOK DEF CleanupBreaks, FilesOK
  <2> QED
    BY <1>1, <1>15, <2>1, FaultsOK DEF CleanupBreaks, FilesOK
<1>16. ASSUME NEW d \in Deliveries, Fails(d) \/ Breaks(d)
       PROVE  FilesOK'
  BY <1>1, <1>16, FaultsOK DEF Fails, Breaks, Abort, BrokenOff, FilesOK
<1>17. ASSUME NEW d \in Deliveries, HandlerWrites(d) \/ ThreadEnds(d)
       PROVE  FilesOK'
  BY <1>1, <1>17, ObjectOf DEF HandlerWrites, ThreadEnds, FilesOK
<1>18. ASSUME NEW d \in Deliveries, HandlerOverwrites(d)
       PROVE  FilesOK'
  BY <1>1, <1>18, WholeIsFile DEF HandlerOverwrites, FilesOK
<1> QED
  BY <1>2, <1>3, <1>4, <1>5, <1>6, <1>7, <1>8, <1>9, <1>10, <1>11, <1>12, <1>13, <1>14, <1>15,
     <1>16, <1>17, <1>18 DEF Next, Step

\* those of the transfers,
LEMMA TransfersStep ==
  ASSUME Types, StageOK, [Next]_vars
  PROVE  TransfersOK'
<1> USE DEF counters, cache, workspace, ghosts
<1>1. ASSUME UNCHANGED transfer
      PROVE  TransfersOK'
  BY <1>1 DEF Types, TransfersOK
<1>2. ASSUME NEW d \in Deliveries, GetMetadata(d)
      PROVE  TransfersOK'
  <2>1. transfer' = transfer \/ transfer' = [transfer EXCEPT ![d].etag = object[InputOf[IdOf[d]]]]
    BY <1>2 DEF GetMetadata
  <2> QED
    BY <2>1, ObjectOf DEF Types, TransfersOK, Transfer
<1>3. ASSUME NEW d \in Deliveries, OpenFile(d)
      PROVE  TransfersOK'
  <2> DEFINE to == Opened(d)
             got == object[InputOf[IdOf[d]]]
  <2>1. transfer' = [transfer EXCEPT ![d].to = to, ![d].got = got]
    BY <1>3 DEF OpenFile
  <2>2. to \in Paths /\ got \in Contents
    BY OpenedIn, ObjectOf DEF Types
  <2> HIDE DEF to, got
  <2> QED
    BY <2>1, <2>2 DEF Types, TransfersOK, Transfer
<1>4. ASSUME NEW d \in Deliveries, WriteChunk(d)
      PROVE  TransfersOK'
  <2>1. transfer[d].next \in 1..Chunks + 1
    BY DEF Types, TransfersOK, Transfer
  <2>2. transfer' = [transfer EXCEPT ![d].next = transfer[d].next + 1]
        /\ transfer[d].next <= Chunks
    BY <1>4 DEF WriteChunk
  <2>3. transfer[d].next + 1 \in 1..Chunks + 1
    BY <2>1, <2>2, WorkspaceAssumption DEF WorkspaceAssumption
  <2> QED
    BY <2>2, <2>3 DEF Types, TransfersOK, Transfer
<1>5. ASSUME NEW d \in Deliveries, transfer' = [transfer EXCEPT ![d] = NoTransfer]
      PROVE  TransfersOK'
  BY <1>5, NoTransferIsOne DEF Types, TransfersOK
<1>6. CASE UNCHANGED vars
  BY <1>1, <1>6 DEF vars
<1>7. ASSUME NEW u \in Uris, Replace(u)
      PROVE  TransfersOK'
  BY <1>1, <1>7 DEF Replace
<1>8. ASSUME NEW d \in Deliveries,
             EndStream(d) \/ Link(d) \/ Fails(d) \/ Breaks(d)
      PROVE  TransfersOK'
  BY <1>1, <1>5, <1>8 DEF EndStream, CallsHandler, Link, Fails, Breaks, Abort
<1>9. ASSUME NEW d \in Deliveries,
             \/ StartInput(d) \/ MakeRoot(d) \/ AskMetadata(d) \/ LookUp(d) \/ AskObject(d)
             \/ LookAtPath(d) \/ Unlink(d) \/ HandlerReturns(d) \/ AskUpload(d) \/ Uploaded(d)
             \/ Measured(d) \/ CleanUp(d) \/ RemoveTree(d)
      PROVE  TransfersOK'
  BY <1>1, <1>9 DEF StartInput, MakeRoot, AskMetadata, LookUp, AskObject, LookAtPath, Unlink,
                    HandlerReturns, AskUpload, Uploaded, Measured, CleanUp, RemoveTree
<1>10. ASSUME NEW d \in Deliveries,
             \/ HandlerWrites(d) \/ HandlerOverwrites(d) \/ HandlerUploads(d) \/ ThreadEnds(d)
             \/ CleanupBreaks(d)
      PROVE  TransfersOK'
  BY <1>1, <1>10 DEF HandlerWrites, HandlerOverwrites, HandlerUploads, ThreadEnds, CleanupBreaks
<1> QED
  BY <1>2, <1>3, <1>4, <1>6, <1>7, <1>8, <1>9, <1>10 DEF Next, Step

\* and leaves the etag known where it is used.
LEMMA EtagsStep ==
  ASSUME Types, StageOK, [Next]_vars
  PROVE  EtagKnown'
<1> USE DEF Goes, counters, cache, workspace, ghosts
<1>1. ASSUME UNCHANGED <<stage, transfer>>
      PROVE  EtagKnown'
  BY <1>1 DEF Types, EtagKnown
<1>2. ASSUME NEW d \in Deliveries, NEW to, stage' = [stage EXCEPT ![d] = to],
             to \notin {"lookup", "look", "unlink", "symlink"},
             \A e \in Deliveries \ {d} : transfer'[e] = transfer[e]
      PROVE  EtagKnown'
  BY <1>2 DEF Types, EtagKnown, StageOK
<1>3. ASSUME NEW d \in Deliveries, GetMetadata(d)
      PROVE  EtagKnown'
  <2>1. CASE Goes(d, "meta", "lookup")
    <3>1. transfer' = [transfer EXCEPT ![d].etag = object[InputOf[IdOf[d]]]]
      BY <1>3, <2>1 DEF GetMetadata, StageOK
    <3> QED
      BY <2>1, <3>1, ObjectOf DEF Types, TransfersOK, Transfer, EtagKnown, StageOK
  <2>2. CASE Goes(d, "meta", "get wait")
    BY <1>2, <1>3, <2>2 DEF GetMetadata, StageOK
  <2> QED
    BY <1>3, <2>1, <2>2 DEF GetMetadata
<1>4. ASSUME NEW d \in Deliveries, LookUp(d) \/ LookAtPath(d) \/ Unlink(d)
      PROVE  EtagKnown'
  BY <1>4 DEF LookUp, LookAtPath, Unlink, Types, EtagKnown, StageOK
<1>5. ASSUME NEW d \in Deliveries, OpenFile(d)
      PROVE  EtagKnown'
  BY <1>2, <1>5 DEF OpenFile, Types, TransfersOK
<1>6. ASSUME NEW d \in Deliveries, WriteChunk(d)
      PROVE  EtagKnown'
  BY <1>6 DEF WriteChunk, Types, TransfersOK, Transfer, EtagKnown
<1>7. ASSUME NEW d \in Deliveries, EndStream(d)
      PROVE  EtagKnown'
  <2>1. CASE transfer[d].etag = None
    BY <1>2, <1>7, <2>1 DEF EndStream, CallsHandler, Types, TransfersOK
  <2>2. CASE transfer[d].etag # None
    <3>1. transfer[d].etag \in Contents
      BY <2>2 DEF Types, TransfersOK, Transfer
    <3> QED
      BY <1>7, <2>2, <3>1 DEF EndStream, Types, EtagKnown, StageOK
  <2> QED
    BY <2>1, <2>2
<1>8. ASSUME NEW d \in Deliveries, Link(d) \/ Fails(d) \/ Breaks(d)
      PROVE  EtagKnown'
  BY <1>2, <1>8 DEF Link, CallsHandler, Fails, Breaks, Abort, Types, TransfersOK
<1>9. ASSUME NEW d \in Deliveries,
             \/ StartInput(d) \/ MakeRoot(d) \/ AskMetadata(d) \/ AskObject(d)
             \/ HandlerReturns(d) \/ AskUpload(d) \/ Uploaded(d) \/ Measured(d) \/ CleanUp(d)
             \/ RemoveTree(d)
      PROVE  EtagKnown'
  BY <1>2, <1>9 DEF StartInput, MakeRoot, AskMetadata, AskObject,
                    HandlerReturns, AskUpload, Uploaded, Measured, CleanUp, RemoveTree
<1>10. ASSUME NEW d \in Deliveries, HandlerUploads(d) \/ CleanupBreaks(d)
      PROVE  EtagKnown'
  BY <1>2, <1>10 DEF HandlerUploads, CleanupBreaks
<1>11. ASSUME NEW d \in Deliveries, HandlerWrites(d) \/ HandlerOverwrites(d) \/ ThreadEnds(d)
      PROVE  EtagKnown'
  BY <1>1, <1>11 DEF HandlerWrites, HandlerOverwrites, ThreadEnds
<1>12. ASSUME NEW u \in Uris, Replace(u)
      PROVE  EtagKnown'
  BY <1>1, <1>12 DEF Replace
<1>13. CASE UNCHANGED vars
  BY <1>1, <1>13 DEF vars
<1> QED
  BY <1>3, <1>4, <1>5, <1>6, <1>7, <1>8, <1>9, <1>10, <1>11, <1>12, <1>13 DEF Next, Step

(***************************************************************************)
(* The types of the files and of the transfers, and who has an etag.       *)
(***************************************************************************)
THEOREM TypesCorrect == Spec => []Types
<1>1. Init => Types
  BY WorkspaceAssumption, NoTransferIsOne, WholeIsFile
     DEF Init, Types, FilesOK, TransfersOK, EtagKnown, Paths, WorkspaceAssumption
<1>2. Types /\ StageOK /\ [Next]_vars => Types'
  BY FilesStep, TransfersStep, EtagsStep DEF Types
<1>3. Counters => StageOK
  BY DEF Counters
<1> QED
  BY <1>1, <1>2, <1>3, CountersCorrect, PTL DEF Spec

(***************************************************************************)
(* The type invariant.                                                     *)
(***************************************************************************)
THEOREM WorkspaceTypeCorrect == Spec => []TypeOK
<1>1. Types /\ Counters => TypeOK
  <2> SUFFICES ASSUME Types, Counters PROVE TypeOK
    OBVIOUS
  <2>1. activeOps = Cardinality(In(Counted)) /\ permits = MaxTransfers - Cardinality(In(Holding))
    BY DEF Counters, CountersExact, In
  <2>2. activeOps \in Int /\ permits \in Int
    BY <2>1, InFinite, WorkspaceAssumption DEF WorkspaceAssumption
  <2> QED
    BY <2>2 DEF Types, FilesOK, TransfersOK, Counters, StageOK, TypeOK
<1> QED
  BY <1>1, TypesCorrect, CountersCorrect, PTL

-----------------------------------------------------------------------------
(* What handlers read.                                                     *)

Early == {"unseen", "mkdir", "meta wait", "meta", "lookup", "get wait", "get"}
Linking == {"look", "unlink", "symlink"}

(***************************************************************************)
(* A transfer into c, and one in front of which the file is as it should   *)
(* be: it has written what is there, or another with the same bytes has.   *)
(***************************************************************************)
Streams(e, c) == stage[e] = "stream" /\ transfer[e].to = c
Fills(e, c) ==
  /\ Streams(e, c)
  /\ \A k \in 1..transfer[e].next - 1 : data[c][k] = c

(***************************************************************************)
(* A cache file that is not spoilt is written only with the content it is  *)
(* named after, and is whole or in the course of becoming so.              *)
(***************************************************************************)
CacheSound ==
  \A c \in cached \ spoilt :
    /\ \A e \in Deliveries : Streams(e, c) => transfer[e].got = c
    /\ data[c] = Whole(c) \/ \E e \in Deliveries : Fills(e, c)

(***************************************************************************)
(* The path of the input, of the only delivery of its id.                  *)
(***************************************************************************)
PathOK(d) ==
  LET path == input[IdOf[d]]
      t    == transfer[d]
  IN  /\ stage[d] \in Early \cup Linking => path = "none"
      /\ stage[d] = "stream" /\ t.etag # None => path = "none"
      /\ stage[d] = "stream" /\ t.etag = None =>
           /\ path = "own" /\ t.to = "own" /\ t.got \in Contents
           /\ \A k \in 1..t.next - 1 : own[IdOf[d]][k] = t.got
      /\ stage[d] \in InHandler =>
           /\ path # "none"
           /\ path \in Contents => path \in cached
           /\ path = "own" => \E w \in Contents : own[IdOf[d]] = Whole(w)

Reads(d) ==
  /\ stage[d] \in Early => transfer[d].next = 1
  /\ stage[d] = "stream" /\ transfer[d].etag # None => transfer[d].to = transfer[d].etag
  /\ stage[d] = "stream" /\ transfer[d].to \in Contents => transfer[d].to \in cached
  /\ stage[d] \in Linking => transfer[d].etag \in cached
  /\ OnlyWithItsId(d) => PathOK(d)

Sound == CacheSound /\ \A d \in Deliveries : Reads(d)

(***************************************************************************)
(* A step that leaves the files alone that are not spoilt, opens none and  *)
(* ends no transfer into them before its last piece.                       *)
(***************************************************************************)
Calm ==
  /\ cached' = cached /\ spoilt \subseteq spoilt'
  /\ \A c \in Contents \ spoilt' : data'[c] = data[c]
  /\ \A e \in Deliveries, c \in Contents :
       /\ Streams(e, c)' => Streams(e, c) /\ transfer'[e] = transfer[e]
       /\ Streams(e, c) /\ c \notin spoilt' =>
            \/ Streams(e, c)' /\ transfer'[e] = transfer[e]
            \/ transfer[e].next > Chunks

\* Files of the cache stay there.
Kept == cached \subseteq cached'

\* A file with the same content in every piece is that content, whole.
LEMMA ExtendWhole ==
  ASSUME NEW f \in File, NEW c \in Contents, \A k \in 1..Chunks : f[k] = c
  PROVE  f = Whole(c)
BY DEF File, Whole

\* A file is whole when a transfer that fills it has written its last piece.
LEMMA FilledIsWhole ==
  ASSUME Types, NEW e \in Deliveries, NEW c \in Contents, Fills(e, c), transfer[e].next > Chunks
  PROVE  data[c] = Whole(c)
<1>1. transfer[e].next \in 1..Chunks + 1 /\ Chunks \in Nat
  BY WorkspaceAssumption DEF Types, TransfersOK, Transfer, WorkspaceAssumption
<1>2. transfer[e].next - 1 = Chunks
  BY <1>1
<1>3. data[c] \in File /\ \A k \in 1..Chunks : data[c][k] = c
  BY <1>2 DEF Fills, Types, FilesOK
<1> QED
  BY <1>3, ExtendWhole

\* A calm step keeps the cache sound.
LEMMA CalmKeeps ==
  ASSUME Types, CacheSound, Calm
  PROVE  CacheSound' /\ Kept
<1>1. Kept
  BY DEF Calm, Kept
<1>2. CacheSound'
  <2> SUFFICES ASSUME NEW c \in cached' \ spoilt'
               PROVE  /\ \A e \in Deliveries : Streams(e, c)' => transfer'[e].got = c
                      /\ data'[c] = Whole(c) \/ \E e \in Deliveries : Fills(e, c)'
    BY DEF CacheSound
  <2>1. c \in cached \ spoilt /\ c \in Contents
    BY DEF Calm, Types, FilesOK
  <2>2. data'[c] = data[c]
    BY <2>1 DEF Calm
  <2> HIDE DEF Streams
  <2>3. \A e \in Deliveries : Streams(e, c)' => transfer'[e].got = c
    BY <2>1 DEF Calm, CacheSound
  <2>4. ASSUME NEW e \in Deliveries, Fills(e, c)
        PROVE  data'[c] = Whole(c) \/ Fills(e, c)'
    <3>1. CASE transfer[e].next > Chunks
      BY <2>1, <2>2, <2>4, <3>1, FilledIsWhole
    <3>2. CASE Streams(e, c)' /\ transfer'[e] = transfer[e]
      BY <2>2, <2>4, <3>2 DEF Fills
    <3> QED
      BY <2>1, <2>4, <3>1, <3>2 DEF Calm, Fills
  <2> QED
    BY <2>1, <2>2, <2>3, <2>4 DEF CacheSound
<1> QED
  BY <1>1, <1>2

\* Most steps of a delivery are calm.
LEMMA CalmSteps ==
  ASSUME Types, StageOK, NEW d \in Deliveries,
         \/ StartInput(d) \/ MakeRoot(d) \/ AskMetadata(d) \/ GetMetadata(d) \/ LookUp(d)
         \/ AskObject(d) \/ EndStream(d) \/ LookAtPath(d) \/ Unlink(d) \/ Link(d)
         \/ HandlerReturns(d) \/ AskUpload(d) \/ Uploaded(d) \/ Measured(d) \/ CleanUp(d)
         \/ RemoveTree(d) \/ Fails(d) \/ HandlerWrites(d) \/ HandlerOverwrites(d)
         \/ HandlerUploads(d) \/ ThreadEnds(d) \/ Breaks(d) \/ CleanupBreaks(d)
  PROVE  Calm
<1> USE DEF Goes, counters, cache, workspace, ghosts
<1>1. ASSUME cached' = cached, spoilt \subseteq spoilt',
             \A c \in Contents \ spoilt' : data'[c] = data[c],
             \A e \in Deliveries \ {d} : stage'[e] = stage[e] /\ transfer'[e] = transfer[e],
             stage'[d] # "stream",
             stage[d] = "stream" => \/ transfer[d].to \in spoilt' \/ transfer[d].to \notin Contents
                                    \/ transfer[d].next > Chunks
      PROVE  Calm
  BY <1>1 DEF Calm, Streams
<1>2. CASE StartInput(d) \/ MakeRoot(d) \/ AskMetadata(d) \/ LookUp(d) \/ AskObject(d)
  BY <1>1, <1>2 DEF StartInput, MakeRoot, AskMetadata, LookUp, AskObject, StageOK
<1>3. CASE GetMetadata(d)
  <2>1. \A e \in Deliveries \ {d} : transfer'[e] = transfer[e]
    BY <1>3 DEF GetMetadata, Types, TransfersOK
  <2>2. /\ stage[d] = "meta" /\ stage'[d] \in {"lookup", "get wait"}
        /\ \A e \in Deliveries \ {d} : stage'[e] = stage[e]
    BY <1>3 DEF GetMetadata, StageOK
  <2>3. UNCHANGED <<cached, data, spoilt>>
    BY <1>3 DEF GetMetadata
  <2> QED
    BY <1>1, <2>1, <2>2, <2>3
<1>4. CASE LookAtPath(d) \/ Unlink(d) \/ HandlerReturns(d) \/ AskUpload(d) \/ Uploaded(d)
           \/ Measured(d)
  BY <1>1, <1>4 DEF LookAtPath, Unlink, HandlerReturns, AskUpload, Uploaded, Measured, StageOK
<1>5. CASE Link(d)
  <2>1. \A e \in Deliveries \ {d} : transfer'[e] = transfer[e]
    BY <1>5 DEF Link, CallsHandler, Types, TransfersOK
  <2> QED
    BY <1>1, <1>5, <2>1 DEF Link, StageOK
<1>6. CASE CleanUp(d) \/ RemoveTree(d) \/ HandlerUploads(d)
  BY <1>1, <1>6 DEF CleanUp, RemoveTree, HandlerUploads, StageOK
<1>7. CASE CleanupBreaks(d)
  BY <1>1, <1>7 DEF CleanupBreaks, InCleanup, StageOK
<1>8. CASE Fails(d) \/ Breaks(d)
  <2>1. /\ \A e \in Deliveries \ {d} : stage'[e] = stage[e] /\ transfer'[e] = transfer[e]
        /\ stage'[d] = "cleanup" /\ spoilt' = spoilt \cup BrokenOff(d)
        /\ UNCHANGED cache
    BY <1>8 DEF Fails, Breaks, Abort, StageOK, Types, TransfersOK
  <2>2. transfer[d].next \in 1..Chunks + 1 /\ Chunks \in Nat
    BY WorkspaceAssumption DEF Types, TransfersOK, Transfer, WorkspaceAssumption
  <2>3. stage[d] = "stream" => \/ transfer[d].to \in spoilt' \/ transfer[d].to \notin Contents
                               \/ transfer[d].next > Chunks
    BY <2>1, <2>2 DEF BrokenOff
  <2> QED
    BY <1>1, <2>1, <2>3
<1>9. CASE HandlerWrites(d) \/ ThreadEnds(d)
  BY <1>9 DEF HandlerWrites, ThreadEnds, Calm, Streams
<1>10. CASE HandlerOverwrites(d)
  <2>1. /\ UNCHANGED <<stage, transfer, cached>> /\ spoilt \subseteq spoilt'
        /\ \A c \in Contents \ spoilt' : data'[c] = data[c]
    BY <1>10 DEF HandlerOverwrites, Types, FilesOK
  <2> QED
    BY <2>1 DEF Calm, Streams
<1>11. CASE EndStream(d)
  <2>1. /\ \A e \in Deliveries \ {d} : stage'[e] = stage[e] /\ transfer'[e] = transfer[e]
        /\ stage'[d] # "stream" /\ transfer[d].next > Chunks
        /\ UNCHANGED <<cache, spoilt>>
    BY <1>11 DEF EndStream, CallsHandler, StageOK, Types, TransfersOK
  <2> QED
    BY <1>1, <2>1
<1> QED
  BY <1>2, <1>3, <1>4, <1>5, <1>6, <1>7, <1>8, <1>9, <1>10, <1>11

(***************************************************************************)
(* OpenFile: with the object the file is named after, the new transfer     *)
(* fills the file that was just emptied; with another it is spoilt.        *)
(***************************************************************************)
LEMMA OpenKeeps ==
  ASSUME Types, StageOK, Sound, NEW d \in Deliveries, OpenFile(d)
  PROVE  CacheSound' /\ Kept
<1> DEFINE to == Opened(d)
           got == object[InputOf[IdOf[d]]]
<1>1. /\ \A e \in Deliveries \ {d} : stage'[e] = stage[e] /\ transfer'[e] = transfer[e]
      /\ stage[d] = "get" /\ stage'[d] = "stream"
      /\ transfer'[d].to = to /\ transfer'[d].got = got
      /\ transfer'[d].next = transfer[d].next
  BY DEF OpenFile, Goes, StageOK, Types, TransfersOK, Transfer
<1>2. transfer[d].next = 1
  BY <1>1 DEF Sound, Reads, Early
<1>3. to \in Contents \cup {"own"} /\ "own" \notin Contents
  BY OpenedIn, WorkspaceAssumption DEF WorkspaceAssumption
<1>4. \/ to = "own" /\ UNCHANGED <<cached, data, spoilt>>
      \/ /\ to \in Contents /\ cached' = cached \cup {to}
         /\ data' = [data EXCEPT ![to] = Empty]
         /\ spoilt' = IF got # to THEN spoilt \cup {to}
                      ELSE IF Writers(to) = {} THEN spoilt \ {to} ELSE spoilt
  BY <1>3 DEF OpenFile, cache
<1>5. \A e \in Deliveries, c \in Contents :
        Streams(e, c)' <=> IF e = d THEN c = to ELSE Streams(e, c)
  BY <1>1 DEF Streams
<1>6. \A c : ~ Streams(d, c)
  BY <1>1 DEF Streams
<1>7. \A e \in Deliveries : Streams(e, to) => e \in Writers(to)
  BY DEF Streams, Writers
<1>8. \A e \in Deliveries, c \in Contents : Streams(e, c) => c \in cached
  BY DEF Streams, Sound, Reads
<1> HIDE DEF to, got
<1>9. Kept
  BY <1>4 DEF Kept
<1>10. CacheSound'
  <2> SUFFICES ASSUME NEW c \in cached' \ spoilt'
               PROVE  /\ \A e \in Deliveries : Streams(e, c)' => transfer'[e].got = c
                      /\ data'[c] = Whole(c) \/ \E e \in Deliveries : Fills(e, c)'
    BY DEF CacheSound
  <2>1. c \in Contents
    BY <1>4 DEF Types, FilesOK
  <2> HIDE DEF Streams
  <2>2. CASE c = to
    <3>1. got = c /\ (Writers(c) = {} \/ c \notin spoilt)
      BY <1>3, <1>4, <2>1, <2>2
    <3>2. ASSUME NEW e \in Deliveries, Streams(e, c)'
          PROVE  transfer'[e].got = c
      <4>1. CASE e = d
        BY <1>1, <3>1, <4>1
      <4>2. CASE e # d
        <5>1. Streams(e, c) /\ c \in cached \ spoilt
          BY <1>5, <1>7, <1>8, <2>1, <2>2, <3>1, <3>2, <4>2
        <5>2. transfer[e].got = c
          BY <5>1 DEF Sound, CacheSound
        <5> QED
          BY <1>1, <4>2, <5>2
      <4> QED
        BY <4>1, <4>2
    <3>3. Fills(d, c)'
      <4>1. Streams(d, c)'
        BY <1>5, <2>1, <2>2
      <4>2. transfer'[d].next - 1 = 0
        BY <1>1, <1>2
      <4> QED
        BY <4>1, <4>2 DEF Fills
    <3> QED
      BY <3>2, <3>3
  <2>3. CASE c # to
    <3>1. c \in cached \ spoilt /\ data'[c] = data[c]
      BY <1>4, <2>1, <2>3 DEF Types, FilesOK
    <3>2. \A e \in Deliveries : (Streams(e, c)' <=> Streams(e, c))
                                /\ (Streams(e, c) => transfer'[e] = transfer[e])
      BY <1>1, <1>5, <1>6, <2>1, <2>3
    <3>3. \A e \in Deliveries : Fills(e, c) => Fills(e, c)'
      BY <3>1, <3>2 DEF Fills
    <3> QED
      BY <3>1, <3>2, <3>3 DEF Sound, CacheSound
  <2> QED
    BY <2>2, <2>3
<1> QED
  BY <1>9, <1>10

(***************************************************************************)
(* WriteChunk: a file that is not spoilt gets one more piece of its        *)
(* content, or once more one it had.                                       *)
(***************************************************************************)
LEMMA WriteKeeps ==
  ASSUME Types, StageOK, Sound, NEW d \in Deliveries, WriteChunk(d)
  PROVE  CacheSound' /\ Kept
<1> DEFINE t == transfer[d]
<1>1. /\ stage' = stage /\ stage[d] = "stream"
      /\ \A e \in Deliveries \ {d} : transfer'[e] = transfer[e]
      /\ transfer'[d].to = t.to /\ transfer'[d].got = t.got /\ transfer'[d].next = t.next + 1
      /\ UNCHANGED <<cached, spoilt>>
  BY DEF WriteChunk, Types, TransfersOK, Transfer, ghosts
<1>2. t.next \in 1..Chunks
  BY WorkspaceAssumption DEF WriteChunk, Types, TransfersOK, Transfer, WorkspaceAssumption
<1>3. \A e \in Deliveries, c \in Contents : Streams(e, c)' <=> Streams(e, c)
  BY <1>1 DEF Streams
<1>4. \A c \in Contents : /\ t.to # c => data'[c] = data[c]
                          /\ t.to = c => data'[c] = [data[c] EXCEPT ![t.next] = t.got]
  <2>1. "own" \notin Contents
    BY WorkspaceAssumption DEF WorkspaceAssumption
  <2> QED
    BY <2>1 DEF WriteChunk, Types, FilesOK
<1>5. \A c : Streams(d, c) <=> c = t.to
  BY <1>1 DEF Streams
<1> HIDE DEF t
<1>6. Kept
  BY <1>1 DEF Kept
<1>7. CacheSound'
  <2> SUFFICES ASSUME NEW c \in cached \ spoilt
               PROVE  /\ \A e \in Deliveries : Streams(e, c)' => transfer'[e].got = c
                      /\ data'[c] = Whole(c) \/ \E e \in Deliveries : Fills(e, c)'
    BY <1>1 DEF CacheSound
  <2>1. c \in Contents /\ data[c] \in File
    BY DEF Types, FilesOK
  <2> HIDE DEF Streams
  <2>2. /\ \A e \in Deliveries : Streams(e, c) => transfer[e].got = c
        /\ data[c] = Whole(c) \/ \E e \in Deliveries : Fills(e, c)
    BY DEF Sound, CacheSound
  <2>3. \A e \in Deliveries : Streams(e, c)' => transfer'[e].got = c
    <3>1. \A e \in Deliveries : transfer'[e].got = transfer[e].got
      BY <1>1 DEF t
    <3> QED
      BY <1>3, <2>1, <2>2, <3>1
  <2>4. CASE t.to # c
    <3>1. data'[c] = data[c] /\ ~ Streams(d, c)
      BY <1>4, <1>5, <2>1, <2>4
    <3>2. \A e \in Deliveries : Fills(e, c) => Fills(e, c)'
      BY <1>1, <1>3, <2>1, <3>1 DEF Fills
    <3> QED
      BY <2>2, <2>3, <3>1, <3>2
  <2>5. CASE t.to = c
    <3>1. t.got = c
      BY <1>5, <2>2, <2>5 DEF t
    <3>2. \A k \in 1..Chunks : data'[c][k] = IF k = t.next THEN c ELSE data[c][k]
      BY <1>4, <2>1, <2>5, <3>1 DEF File
    <3>3. data'[c] \in File
      <4>1. data'[c] = [data[c] EXCEPT ![t.next] = c]
        BY <1>4, <2>1, <2>5, <3>1
      <4>2. \A f \in File : [f EXCEPT ![t.next] = c] \in File
        BY <2>1 DEF File
      <4> QED
        BY <2>1, <4>1, <4>2
    <3>4. data[c] = Whole(c) => data'[c] = Whole(c)
      <4>1. ASSUME data[c] = Whole(c)
            PROVE  \A k \in 1..Chunks : data'[c][k] = c
        BY <3>2, <4>1 DEF Whole
      <4> QED
        BY <2>1, <3>3, <4>1, ExtendWhole
    <3>5. ASSUME NEW e \in Deliveries, Fills(e, c)
          PROVE  Fills(e, c)'
      <4>1. Streams(e, c)' /\ \A k \in 1..transfer[e].next - 1 : data[c][k] = c
        BY <1>3, <2>1, <3>5 DEF Fills
      <4>2. transfer[e].next \in 1..Chunks + 1 /\ Chunks \in Nat
        BY WorkspaceAssumption DEF Types, TransfersOK, Transfer, WorkspaceAssumption
      <4>3. \A k \in 1..transfer[e].next - 1 : k \in 1..Chunks
        BY <4>2
      <4>4. \A k \in 1..transfer[e].next - 1 : data'[c][k] = c
        BY <3>2, <4>1, <4>3
      <4>5. CASE e # d
        BY <1>1, <4>1, <4>4, <4>5 DEF Fills
      <4>6. CASE e = d
        <5>1. transfer'[e].next - 1 = t.next /\ transfer[e].next = t.next
          BY <1>1, <1>2, <4>6 DEF t
        <5>2. \A k \in 1..t.next : k = t.next \/ k \in 1..t.next - 1
          BY <1>2
        <5>3. \A k \in 1..t.next : data'[c][k] = c
          BY <1>2, <3>2, <4>4, <5>1, <5>2
        <5> QED
          BY <4>1, <5>1, <5>3 DEF Fills
      <4> QED
        BY <4>5, <4>6
    <3> QED
      BY <2>2, <2>3, <3>4, <3>5
  <2> QED
    BY <2>4, <2>5
<1> QED
  BY <1>6, <1>7

\* Every step keeps the cache sound, the downloads and the faults included.
LEMMA CacheStep ==
  ASSUME Types, StageOK, Sound, [Next]_vars
  PROVE  CacheSound' /\ Kept
<1>1. CASE UNCHANGED vars
  BY <1>1, CalmKeeps DEF vars, cache, ghosts, Calm, Streams, Sound
<1>2. ASSUME NEW u \in Uris, Replace(u)
      PROVE  CacheSound' /\ Kept
  BY <1>2, CalmKeeps DEF Replace, cache, ghosts, Calm, Streams, Sound
<1>3. ASSUME NEW d \in Deliveries, OpenFile(d) \/ WriteChunk(d)
      PROVE  CacheSound' /\ Kept
  BY <1>3, OpenKeeps, WriteKeeps
<1> QED
  BY <1>1, <1>2, <1>3, CalmSteps, CalmKeeps DEF Next, Step, Sound

(***************************************************************************)
(* A step of d is no step of another delivery, nor touches the directory   *)
(* of another id.                                                          *)
(***************************************************************************)
Mine(d) ==
  /\ \A e \in Deliveries \ {d} : stage'[e] = stage[e] /\ transfer'[e] = transfer[e]
  /\ stage'[d] # "unseen"
  /\ \A i \in TaskIds \ {IdOf[d]} : input'[i] = input[i] /\ own'[i] = own[i]

\* A step of a coroutine concerns no task of another id.
LEMMA MineSteps ==
  ASSUME Types, StageOK, NEW d \in Deliveries,
         StartInput(d) \/ Step(d) \/ HandlerUploads(d) \/ Breaks(d) \/ CleanupBreaks(d)
  PROVE  Mine(d)
<1> USE DEF Mine, Goes, workspace
<1>1. IdOf[d] \in TaskIds /\ transfer \in [Deliveries -> Transfer]
  BY ObjectOf DEF Types, TransfersOK
<1>2. CASE StartInput(d) \/ MakeRoot(d) \/ AskMetadata(d) \/ LookUp(d) \/ AskObject(d)
  BY <1>2 DEF StartInput, MakeRoot, AskMetadata, LookUp, AskObject, StageOK
<1>3. CASE GetMetadata(d)
  <2>1. \A e \in Deliveries \ {d} : transfer'[e] = transfer[e]
    BY <1>1, <1>3 DEF GetMetadata
  <2>2. stage'[d] # "unseen" /\ \A e \in Deliveries \ {d} : stage'[e] = stage[e]
    BY <1>3 DEF GetMetadata, StageOK
  <2> QED
    BY <1>3, <2>1, <2>2 DEF GetMetadata
<1>4. CASE OpenFile(d)
  <2>1. \A e \in Deliveries \ {d} : transfer'[e] = transfer[e]
    BY <1>1, <1>4 DEF OpenFile
  <2>2. \A i \in TaskIds \ {IdOf[d]} : input'[i] = input[i] /\ own'[i] = own[i]
    BY <1>4 DEF OpenFile, Types, FilesOK
  <2> QED
    BY <1>4, <2>1, <2>2 DEF OpenFile, StageOK
<1>5. CASE WriteChunk(d)
  <2>1. \A e \in Deliveries \ {d} : transfer'[e] = transfer[e]
    BY <1>1, <1>5 DEF WriteChunk
  <2>2. \A i \in TaskIds \ {IdOf[d]} : input'[i] = input[i] /\ own'[i] = own[i]
    BY <1>5 DEF WriteChunk, Types, FilesOK
  <2> QED
    BY <1>5, <2>1, <2>2 DEF WriteChunk
<1>6. CASE EndStream(d)
  BY <1>1, <1>6 DEF EndStream, CallsHandler, StageOK
<1>7. CASE LookAtPath(d) \/ Unlink(d)
  BY <1>7 DEF LookAtPath, Unlink, StageOK, Types, FilesOK
<1>8. CASE Link(d)
  BY <1>1, <1>8 DEF Link, CallsHandler, StageOK, Types, FilesOK
<1>9. CASE HandlerReturns(d) \/ AskUpload(d) \/ Uploaded(d) \/ Measured(d) \/ HandlerUploads(d)
           \/ CleanUp(d)
  BY <1>9 DEF HandlerReturns, AskUpload, Uploaded, Measured, HandlerUploads, CleanUp, StageOK
<1>10. CASE RemoveTree(d)
  BY <1>10 DEF RemoveTree, Wipes, StageOK, Types, FilesOK
<1>11. CASE Fails(d) \/ Breaks(d)
  BY <1>1, <1>11 DEF Fails, Breaks, Abort, StageOK
<1>12. CASE CleanupBreaks(d)
  BY <1>12 DEF CleanupBreaks, Wipes, StageOK, Types, FilesOK
<1> QED
  BY <1>2, <1>3, <1>4, <1>5, <1>6, <1>7, <1>8, <1>9, <1>10, <1>11, <1>12 DEF Step

\* Who is alone with its id afterwards was so before, and is not a namesake of who moved.
LEMMA OnlyBefore ==
  ASSUME NEW d \in Deliveries, Mine(d), NEW e \in Deliveries, OnlyWithItsId(e)'
  PROVE  OnlyWithItsId(e) /\ (e # d => IdOf[e] # IdOf[d])
BY DEF Mine, OnlyWithItsId

(***************************************************************************)
(* What other deliveries read is not changed.                              *)
(***************************************************************************)
LEMMA OthersRead ==
  ASSUME Types, Sound, Kept, NEW d \in Deliveries, Mine(d), NEW e \in Deliveries \ {d}
  PROVE  Reads(e)'
<1>1. stage'[e] = stage[e] /\ transfer'[e] = transfer[e]
  BY DEF Mine
<1>2. Reads(e) /\ e \in Deliveries
  BY DEF Sound
<1>5. ASSUME OnlyWithItsId(e)'
      PROVE  PathOK(e)'
  <2>1. PathOK(e) /\ IdOf[e] # IdOf[d]
    BY <1>2, <1>5, OnlyBefore DEF Reads
  <2>2. input'[IdOf[e]] = input[IdOf[e]] /\ own'[IdOf[e]] = own[IdOf[e]]
    BY <1>2, <2>1, ObjectOf DEF Mine, Types
  <2> QED
    BY <1>1, <2>1, <2>2 DEF PathOK, Kept
<1> QED
  BY <1>1, <1>2, <1>5 DEF Reads, Kept

(***************************************************************************)
(* The steps of d itself.                                                  *)
(***************************************************************************)
LEMMA OwnStepReads ==
  ASSUME Types, StageOK, Sound, CacheSound', Kept, NEW d \in Deliveries,
         StartInput(d) \/ Step(d) \/ HandlerUploads(d) \/ Breaks(d) \/ CleanupBreaks(d)
  PROVE  Reads(d)'
<1> USE DEF Goes, workspace, cache, ghosts
<1>1. Reads(d)
  BY DEF Sound
<1>2. Mine(d) /\ (OnlyWithItsId(d)' => OnlyWithItsId(d))
  BY MineSteps, OnlyBefore
<1>3. IdOf[d] \in TaskIds /\ transfer[d] \in Transfer /\ stage[d] \in Stages
  BY ObjectOf DEF Types, TransfersOK, StageOK
<1>4. "none" \notin Contents /\ "own" \notin Contents /\ None \notin Contents
  BY WorkspaceAssumption DEF WorkspaceAssumption
\* Nothing is said of the stages after the handler.
<1>5. ASSUME stage'[d] \in {"put wait", "put", "size", "cleanup", "wipe", "left", "released"}
      PROVE  Reads(d)'
  BY <1>5 DEF Reads, PathOK, Early, Linking, InHandler
\* An early stage after an early one.
<1>6. ASSUME stage[d] \in Early, stage'[d] \in Early, transfer'[d].next = transfer[d].next,
             input' = input
      PROVE  Reads(d)'
  <2>1. stage'[d] # "stream" /\ stage'[d] \notin Linking /\ stage'[d] \notin InHandler
    BY <1>6 DEF Early, Linking, InHandler
  <2> QED
    BY <1>1, <1>2, <1>6, <2>1 DEF Reads, PathOK
\* A look at the path after another.
<1>7. ASSUME stage[d] \in Linking, stage'[d] \in Linking, transfer' = transfer, input' = input
      PROVE  Reads(d)'
  <2>1. stage'[d] # "stream" /\ stage'[d] \notin Early /\ stage'[d] \notin InHandler
    BY <1>7 DEF Early, Linking, InHandler
  <2> QED
    BY <1>1, <1>2, <1>7, <2>1 DEF Reads, PathOK, Kept
\* In the handler.
<1>8. ASSUME stage[d] \in InHandler, stage'[d] \in InHandler, input' = input, own' = own
      PROVE  Reads(d)'
  <2>1. stage'[d] # "stream" /\ stage'[d] \notin Early /\ stage'[d] \notin Linking
    BY <1>8 DEF Early, Linking, InHandler
  <2> QED
    BY <1>1, <1>2, <1>8, <2>1 DEF Reads, PathOK, Kept
<1>9. CASE StartInput(d) \/ MakeRoot(d) \/ AskMetadata(d) \/ AskObject(d)
  BY <1>3, <1>6, <1>9 DEF StartInput, MakeRoot, AskMetadata, AskObject, StageOK, Early
<1>10. CASE GetMetadata(d)
  <2>1. transfer'[d].next = transfer[d].next
    BY <1>10 DEF GetMetadata, Types, TransfersOK, Transfer
  <2>2. stage[d] = "meta" /\ stage'[d] \in {"lookup", "get wait"}
    BY <1>10 DEF GetMetadata, StageOK
  <2> QED
    BY <1>6, <1>10, <2>1, <2>2 DEF GetMetadata, Early
<1>11. CASE LookUp(d)
  <2>1. CASE Goes(d, "lookup", "get wait")
    BY <1>6, <1>11, <2>1 DEF LookUp, StageOK, Early
  <2>2. CASE Goes(d, "lookup", "look") /\ transfer[d].etag \in cached
    <3>1. stage[d] = "lookup" /\ stage'[d] = "look" /\ UNCHANGED <<transfer, input, cached>>
      BY <1>11, <2>2 DEF LookUp, StageOK
    <3> QED
      BY <1>1, <1>2, <2>2, <3>1 DEF Reads, PathOK, Early, Linking, InHandler
  <2> QED
    BY <1>11, <2>1, <2>2 DEF LookUp
<1>12. CASE OpenFile(d)
  <2> DEFINE got == object[InputOf[IdOf[d]]]
  <2>1. /\ stage[d] = "get" /\ stage'[d] = "stream"
        /\ transfer'[d].to = Opened(d) /\ transfer'[d].got = got
        /\ transfer'[d].next = transfer[d].next /\ transfer'[d].etag = transfer[d].etag
    BY <1>12 DEF OpenFile, StageOK, Types, TransfersOK, Transfer
  <2>2. transfer[d].etag # None => Opened(d) = transfer[d].etag
    BY DEF Opened
  <2>3. got \in Contents
    BY ObjectOf DEF Types
  <2>4. ASSUME OnlyWithItsId(d), transfer[d].etag # None
        PROVE  input'[IdOf[d]] = "none"
    <3>1. input[IdOf[d]] = "none"
      BY <1>1, <2>1, <2>4 DEF Reads, PathOK, Early
    <3>2. Opened(d) # "own"
      BY <1>3, <1>4, <2>2, <2>4 DEF Transfer
    <3> QED
      BY <1>12, <3>1, <3>2 DEF OpenFile
  <2>5. ASSUME OnlyWithItsId(d), transfer[d].etag = None
        PROVE  Opened(d) = "own" /\ input'[IdOf[d]] = "own"
    <3>1. input[IdOf[d]] = "none"
      BY <1>1, <2>1, <2>5 DEF Reads, PathOK, Early
    <3>2. Opened(d) = "own"
      BY <2>5, <3>1 DEF Opened
    <3> QED
      BY <1>3, <1>12, <3>2 DEF OpenFile, Types, FilesOK
  <2>6. transfer[d].next = 1
    BY <1>1, <2>1 DEF Reads, Early
  <2>7. \A k \in 1..transfer'[d].next - 1 : FALSE
    BY <2>1, <2>6
  <2>8. Opened(d) \in Contents => Opened(d) \in cached'
    BY <1>4, <1>12 DEF OpenFile
  <2> HIDE DEF got
  <2> QED
    BY <1>2, <2>1, <2>2, <2>3, <2>4, <2>5, <2>7, <2>8 DEF Reads, PathOK, Early, Linking, InHandler
<1>13. CASE WriteChunk(d)
  <2> DEFINE t == transfer[d]
  <2>1. /\ stage' = stage /\ stage[d] = "stream" /\ input' = input
        /\ transfer'[d].to = t.to /\ transfer'[d].got = t.got
        /\ transfer'[d].next = t.next + 1 /\ transfer'[d].etag = t.etag
    BY <1>13 DEF WriteChunk, Types, TransfersOK, Transfer
  <2>2. t.next \in 1..Chunks
    BY <1>3, <1>13, WorkspaceAssumption DEF WriteChunk, Transfer, WorkspaceAssumption
  <2>3. ASSUME OnlyWithItsId(d), t.etag = None, NEW k \in 1..t.next
        PROVE  own'[IdOf[d]][k] = t.got
    <3>1. /\ input[IdOf[d]] = "own" /\ t.to = "own"
          /\ \A n \in 1..t.next - 1 : own[IdOf[d]][n] = t.got
      BY <1>1, <2>1, <2>3 DEF Reads, PathOK
    <3>2. own' = [own EXCEPT ![IdOf[d]] = [@ EXCEPT ![t.next] = t.got]]
      BY <1>13, <3>1 DEF WriteChunk
    <3>3. own[IdOf[d]] \in File /\ own'[IdOf[d]] = [own[IdOf[d]] EXCEPT ![t.next] = t.got]
      BY <1>3, <3>2 DEF Types, FilesOK
    <3>4. k \in 1..Chunks /\ (k = t.next \/ k \in 1..t.next - 1)
      BY <2>2, WorkspaceAssumption DEF WorkspaceAssumption
    <3> HIDE DEF t
    <3> QED
      BY <3>1, <3>3, <3>4 DEF File
  <2>4. transfer'[d].next - 1 = t.next
    BY <2>1, <2>2
  <2> HIDE DEF t
  <2>5. OnlyWithItsId(d) /\ t.etag = None =>
          \A k \in 1..transfer'[d].next - 1 : own'[IdOf[d]][k] = t.got
    BY <2>3, <2>4
  <2> QED
    BY <1>1, <1>2, <2>1, <2>5 DEF Reads, PathOK, Early, Linking, InHandler, Kept, t
<1>14. CASE EndStream(d)
  <2> DEFINE c == transfer[d].etag
  <2>1. stage[d] = "stream" /\ transfer[d].next > Chunks
        /\ UNCHANGED <<cached, data, input, own>>
    BY <1>14 DEF EndStream, CallsHandler
  <2>2. CASE c # None
    <3>1. c \in Contents /\ transfer[d].to = c
      BY <1>1, <1>3, <2>1, <2>2 DEF Transfer, Reads
    <3>2. stage' = [stage EXCEPT ![d] = "look"] /\ transfer' = transfer
      BY <1>14, <2>2 DEF EndStream
    <3>3. transfer[d].etag \in cached'
      BY <1>1, <2>1, <3>1 DEF Reads
    <3>4. stage'[d] = "look"
      BY <3>2 DEF StageOK
    <3>5. OnlyWithItsId(d)' => input'[IdOf[d]] = "none"
      BY <1>1, <1>2, <2>1, <2>2 DEF Reads, PathOK
    <3> QED
      BY <3>2, <3>3, <3>4, <3>5 DEF Reads, PathOK, Early, Linking, InHandler
  <2>3. CASE c = None
    <3>1. stage'[d] = "running"
      BY <1>14, <2>3 DEF EndStream, StageOK
    <3>2. ASSUME OnlyWithItsId(d)
          PROVE  input[IdOf[d]] = "own" /\ \E w \in Contents : own[IdOf[d]] = Whole(w)
      <4> DEFINE w == transfer[d].got
      <4>1. /\ input[IdOf[d]] = "own" /\ w \in Contents
            /\ \A k \in 1..transfer[d].next - 1 : own[IdOf[d]][k] = w
        BY <1>1, <2>1, <2>3, <3>2 DEF Reads, PathOK
      <4>2. transfer[d].next - 1 = Chunks
        BY <1>3, <2>1, WorkspaceAssumption DEF Transfer, WorkspaceAssumption
      <4>3. own[IdOf[d]] \in File
        BY <1>3 DEF Types, FilesOK
      <4> HIDE DEF w
      <4>4. own[IdOf[d]] = Whole(w)
        BY <4>1, <4>2, <4>3, ExtendWhole
      <4> QED
        BY <4>1, <4>4
    <3> QED
      BY <1>2, <1>4, <2>1, <3>1, <3>2 DEF Reads, PathOK, Early, Linking, InHandler
  <2> QED
    BY <2>2, <2>3
<1>15. CASE LookAtPath(d)
  BY <1>7, <1>15 DEF LookAtPath, StageOK, Linking
<1>16. CASE Unlink(d)
  <2>1. /\ stage[d] = "unlink" /\ stage'[d] = "symlink" /\ transfer' = transfer
        /\ input[IdOf[d]] # "none"
    BY <1>16 DEF Unlink, StageOK
  <2>2. ~ OnlyWithItsId(d)'
    BY <1>1, <1>2, <2>1 DEF Reads, PathOK, Linking
  <2>3. transfer[d].etag \in cached'
    BY <1>1, <2>1 DEF Reads, Linking, Kept
  <2> QED
    BY <2>1, <2>2, <2>3 DEF Reads, Early, Linking
<1>17. CASE Link(d)
  <2>1. stage[d] = "symlink" /\ stage'[d] = "running" /\ transfer[d].etag \in Contents
    BY <1>17 DEF Link, StageOK, Types, EtagKnown
  <2>2. PICK c \in Contents : c = transfer[d].etag
    BY <2>1
  <2>3. input'[IdOf[d]] = c
    BY <1>3, <1>17, <2>2 DEF Link, Types, FilesOK
  <2>4. c \in cached'
    BY <1>1, <2>1, <2>2 DEF Reads, Linking, Kept
  <2> QED
    BY <1>4, <2>1, <2>3, <2>4 DEF Reads, PathOK, Early, Linking, InHandler
<1>18. CASE HandlerUploads(d)
  BY <1>8, <1>18 DEF HandlerUploads, StageOK, InHandler
<1>19. CASE HandlerReturns(d) \/ AskUpload(d) \/ Uploaded(d) \/ Measured(d) \/ CleanUp(d)
            \/ RemoveTree(d)
  BY <1>5, <1>19 DEF HandlerReturns, AskUpload, Uploaded, Measured, CleanUp, RemoveTree, StageOK
<1>20. CASE Fails(d) \/ Breaks(d) \/ CleanupBreaks(d)
  BY <1>5, <1>20 DEF Fails, Breaks, Abort, CleanupBreaks, StageOK
<1> QED
  BY <1>9, <1>10, <1>11, <1>12, <1>13, <1>14, <1>15, <1>16, <1>17, <1>18, <1>19, <1>20 DEF Step

\* Every step keeps what is read sound.
LEMMA SoundStep ==
  ASSUME Types, StageOK, Sound, [Next]_vars
  PROVE  Sound'
<1>1. CacheSound' /\ Kept
  BY CacheStep
<1>2. ASSUME UNCHANGED <<stage, transfer, input, own>>
      PROVE  Sound'
  <2> SUFFICES ASSUME NEW e \in Deliveries PROVE Reads(e)'
    BY <1>1 DEF Sound
  <2>1. Reads(e)
    BY DEF Sound
  <2>2. ASSUME OnlyWithItsId(e)'
        PROVE  PathOK(e)'
    <3>1. PathOK(e)
      BY <1>2, <2>1, <2>2 DEF Reads, OnlyWithItsId
    <3> QED
      BY <1>1, <1>2, <3>1 DEF PathOK, Kept
  <2> QED
    BY <1>1, <1>2, <2>1, <2>2 DEF Reads, Kept
<1>3. ASSUME NEW d \in Deliveries,
             StartInput(d) \/ Step(d) \/ HandlerUploads(d) \/ Breaks(d) \/ CleanupBreaks(d)
      PROVE  Sound'
  <2>1. Mine(d)
    BY <1>3, MineSteps
  <2>2. Reads(d)'
    BY <1>1, <1>3, OwnStepReads
  <2>3. \A e \in Deliveries \ {d} : Reads(e)'
    BY <1>1, <2>1, OthersRead
  <2> QED
    BY <1>1, <2>2, <2>3 DEF Sound
<1>4. ASSUME NEW d \in Deliveries, HandlerWrites(d) \/ HandlerOverwrites(d) \/ ThreadEnds(d)
      PROVE  Sound'
  BY <1>2, <1>4 DEF HandlerWrites, HandlerOverwrites, ThreadEnds, workspace
<1>5. ASSUME NEW u \in Uris, Replace(u)
      PROVE  Sound'
  BY <1>2, <1>5 DEF Replace, workspace
<1>6. CASE UNCHANGED vars
  BY <1>2, <1>6 DEF vars, workspace
<1> QED
  BY <1>3, <1>4, <1>5, <1>6 DEF Next

\* Before the first task the cache is empty and nobody reads.
LEMMA SoundInit ==
  ASSUME Init
  PROVE  Sound
<1>1. \A d \in Deliveries :
        /\ stage[d] = "unseen" /\ transfer[d].next = 1
        /\ input[IdOf[d]] = "none"
  BY WorkspaceAssumption DEF Init, NoTransfer, WorkspaceAssumption
<1>2. cached = {}
  BY DEF Init
<1> QED
  BY <1>1, <1>2 DEF Sound, CacheSound, Streams, Reads, PathOK, Early, Linking, InHandler

(***************************************************************************)
(* In every reachable state the cache files are as their names promise,    *)
(* and the paths lead where their tasks expect, unless spoilt.             *)
(***************************************************************************)
THEOREM SoundCorrect == Spec => []Sound
<1>1. Init => Sound
  BY SoundInit
<1>2. Types /\ StageOK /\ Sound /\ [Next]_vars => Sound'
  BY SoundStep
<1>3. Counters => StageOK
  BY DEF Counters
<1> QED
  BY <1>1, <1>2, <1>3, CountersCorrect, TypesCorrect, PTL DEF Spec

(***************************************************************************)
(* A handler finds the whole object at its input's path, unless its cache  *)
(* file is being written or was spoilt in one of the three ways, or its id *)
(* was handed over twice.                                                  *)
(***************************************************************************)
THEOREM InputIsWholeCorrect == Spec => []InputIsWhole
<1>1. Sound => InputIsWhole
  <2> SUFFICES ASSUME Sound, NEW d \in Deliveries, Handing(d), OnlyWithItsId(d)
               PROVE  LET c == input[IdOf[d]]
                      IN  /\ c # "none"
                          /\ c \in Contents \ spoilt => data[c] = Whole(c) \/ Writers(c) # {}
                          /\ c = "own" => \E w \in Contents : own[IdOf[d]] = Whole(w)
    BY DEF InputIsWhole
  <2>1. PathOK(d) /\ stage[d] \in InHandler
    BY DEF Sound, Reads, Handing, InHandler
  <2>2. ASSUME NEW c \in Contents \ spoilt, c = input[IdOf[d]]
        PROVE  data[c] = Whole(c) \/ Writers(c) # {}
    <3>1. c \in cached
      BY <2>1, <2>2 DEF PathOK
    <3>2. data[c] = Whole(c) \/ \E e \in Deliveries : Fills(e, c)
      BY <3>1 DEF Sound, CacheSound
    <3> QED
      BY <3>2 DEF Fills, Streams, Writers
  <2> QED
    BY <2>1, <2>2 DEF PathOK
<1> QED
  BY <1>1, SoundCorrect, PTL

=============================================================================
