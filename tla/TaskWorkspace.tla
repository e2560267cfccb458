------------------------------ MODULE TaskWorkspace ------------------------------
(***************************************************************************)
(* The files of tasks: S3Manager (s3.py) downloads an input into a cache   *)
(* file named by the etag of the object and links it into the task's       *)
(* directory, the handler works there (task_files.py), the output is       *)
(* uploaded, the directory removed.  Each coroutine is cut at its awaits,  *)
(* and all of them share the cache, the semaphore and _active_ops.         *)
(*                                                                         *)
(* A content stands for the bytes of an object and for its etag.  A task   *)
(* has one input and one output: what several inputs of a task do to one   *)
(* another, of the same base name above all, which share a path (s3.py     *)
(* line 208), is left out.  A transfer writes its file in Chunks pieces,   *)
(* each an await, and a file is a function from pieces to what was written *)
(* there.                                                                  *)
(***************************************************************************)
EXTENDS Integers, FiniteSets

CONSTANTS Deliveries,          \* tasks handed over
          TaskIds, IdOf,       \* IdOf[d]: the task_id of d, the name of its directory
          Uris, InputOf,       \* InputOf[i]: the s3:// input of the task with id i
          Contents,            \* what objects may contain, and their etags
          InitialObject,       \* the content of each object at first
          None,                \* no etag, and bytes of no object
          Chunks,              \* BOUND: pieces of a file
          MaxTransfers,        \* MAX_S3_CONCURRENCY
          SyncDeliveries,      \* deliveries whose handler is a plain function
          InPlace,             \* deliveries whose handler may write to its input's name
          MaxFaults            \* BOUND: failed or cancelled awaits and replaced objects

ASSUME WorkspaceAssumption ==
  /\ IsFiniteSet(Deliveries)
  /\ IdOf \in [Deliveries -> TaskIds]
  /\ InputOf \in [TaskIds -> Uris]
  /\ InitialObject \in [Uris -> Contents]
  /\ {None, "none", "own"} \cap Contents = {}
  /\ Chunks \in Nat \ {0}
  /\ MaxTransfers \in Nat \ {0}
  /\ SyncDeliveries \subseteq Deliveries
  /\ InPlace \subseteq Deliveries
  /\ MaxFaults \in Nat

VARIABLES
  stage,       \* where the coroutine of each delivery stands
  transfer,    \* its etag, the file it writes, the content it streams, the next piece
  activeOps,   \* S3Manager._active_ops
  permits,     \* free places of the semaphore
  object,      \* the bucket: content of each object
  cached,      \* names of the files in WORKER_BLOB_CACHE_DIR
  data,        \* and what is in them
  dirs,        \* ids whose task directory exists
  input,       \* the input's path in it: "none", "own" (a file) or a link to a cache file
  own,         \* what is in that file
  output,      \* ids whose output file exists
  threads,     \* deliveries whose synchronous handler executes in a thread
  late,        \* deliveries whose thread recreated the directory after their end
  spoilt,      \* cache files with bytes that are not, or not all, the ones of their name
  faults

counters == <<activeOps, permits>>
cache == <<cached, data>>
workspace == <<dirs, input, own, output>>
ghosts == <<late, spoilt>>
vars == <<stage, transfer, counters, object, cache, workspace, threads, ghosts, faults>>

(***************************************************************************)
(* The awaits of a delivery: makedirs of the task directory, get_metadata  *)
(* (first its place in the semaphore), exists(cache_file), the request and *)
(* the stream of download, exists(local_path), unlink, symlink; the        *)
(* handler; a file it uploads itself; upload and size of the output;       *)
(* exists and rmtree of the directory.  "left": cleanup was broken off.    *)
(***************************************************************************)
Waiting == {"meta wait", "get wait", "side wait", "put wait"}
Holding == {"meta", "get", "stream", "side", "put"}
InParams == {"mkdir", "meta wait", "meta", "lookup", "get wait", "get", "stream",
             "look", "unlink", "symlink"}
InHandler == {"running", "side wait", "side", "side size"}
InResult == {"put wait", "put", "size"}
InTry == InParams \cup InHandler \cup InResult
InCleanup == {"cleanup", "wipe"}
Counted == InParams \cup InResult
Stages == {"unseen", "released", "left"} \cup InTry \cup InCleanup

\* A path of the task directory, and the bytes of a file.
Paths == Contents \cup {"none", "own"}
File == [1..Chunks -> Contents \cup {None}]
Empty == [k \in 1..Chunks |-> None]
Whole(c) == [k \in 1..Chunks |-> c]

NoTransfer == [etag |-> None, to |-> "none", got |-> None, next |-> 1]

Init ==
  /\ stage = [d \in Deliveries |-> "unseen"]
  /\ transfer = [d \in Deliveries |-> NoTransfer]
  /\ activeOps = 0
  /\ permits = MaxTransfers
  /\ object = InitialObject
  /\ cached = {}
  /\ data = [c \in Contents |-> Empty]
  /\ dirs = {}
  /\ input = [i \in TaskIds |-> "none"]
  /\ own = [i \in TaskIds |-> Empty]
  /\ output = {}
  /\ threads = {}
  /\ late = {}
  /\ spoilt = {}
  /\ faults = 0

Goes(d, from, to) == stage[d] = from /\ stage' = [stage EXCEPT ![d] = to]

\* `async with self._semaphore`: a place is taken, and given back on every way out.
Acquire == permits > 0 /\ permits' = permits - 1
GiveBack == permits' = permits + 1

-----------------------------------------------------------------------------
(* process_params and _download_file_cached.                               *)

\* An s3:// input is met: the operation is counted.
StartInput(d) ==
  /\ Goes(d, "unseen", "mkdir")
  /\ activeOps' = activeOps + 1
  /\ UNCHANGED <<transfer, permits, object, cache, workspace, threads, ghosts, faults>>

MakeRoot(d) ==
  /\ Goes(d, "mkdir", "meta wait")
  /\ dirs' = dirs \cup {IdOf[d]}
  /\ UNCHANGED <<transfer, counters, object, cache, input, own, output, threads, ghosts, faults>>

AskMetadata(d) ==
  /\ Goes(d, "meta wait", "meta")
  /\ Acquire
  /\ UNCHANGED <<transfer, activeOps, object, cache, workspace, threads, ghosts, faults>>

\* get_metadata returns the etag; any exception in it, or an object without one, means
\* that the file is downloaded past the cache.
GetMetadata(d) ==
  /\ stage[d] = "meta"
  /\ \/ /\ Goes(d, "meta", "lookup")
        /\ transfer' = [transfer EXCEPT ![d].etag = object[InputOf[IdOf[d]]]]
        /\ UNCHANGED faults
     \/ /\ faults < MaxFaults
        /\ faults' = faults + 1
        /\ Goes(d, "meta", "get wait")
        /\ UNCHANGED transfer
  /\ GiveBack
  /\ UNCHANGED <<activeOps, object, cache, workspace, threads, ghosts>>

\* The cache is looked up by name.  What is found may still be in the making.
LookUp(d) ==
  /\ IF transfer[d].etag \in cached THEN Goes(d, "lookup", "look")
                                    ELSE Goes(d, "lookup", "get wait")
  /\ UNCHANGED <<transfer, counters, object, cache, workspace, threads, ghosts, faults>>

AskObject(d) ==
  /\ Goes(d, "get wait", "get")
  /\ Acquire
  /\ UNCHANGED <<transfer, activeOps, object, cache, workspace, threads, ghosts, faults>>

\* MUTANT: an empty etag names a file of the cache, too.
OpenedInCache(d) == transfer[d].etag

\* The file open(..., "wb") writes: the cache file, or without an etag the path in the
\* task directory.  If that is a link it is followed.
Opened(d) ==
  IF transfer[d].etag # None THEN transfer[d].etag
  ELSE IF input[IdOf[d]] = "none" THEN "own" ELSE input[IdOf[d]]

Writers(c) == {e \in Deliveries : stage[e] = "stream" /\ transfer[e].to = c}

\* obstore answers with the object as it is now, and the file is opened and emptied,
\* also one of the cache that others have found, read or write.
OpenFile(d) ==
  /\ Goes(d, "get", "stream")
  /\ transfer[d].etag = None => IdOf[d] \in dirs
  /\ LET to == Opened(d)
         got == object[InputOf[IdOf[d]]]
     IN  /\ transfer' = [transfer EXCEPT ![d].to = to, ![d].got = got]
         /\ IF to = "own"
            THEN /\ input' = [input EXCEPT ![IdOf[d]] = "own"]
                 /\ own' = [own EXCEPT ![IdOf[d]] = Empty]
                 /\ UNCHANGED <<cache, spoilt>>
            ELSE /\ cached' = cached \cup {to}
                 /\ data' = [data EXCEPT ![to] = Empty]
                 /\ spoilt' = IF got # to THEN spoilt \cup {to}
                              ELSE IF Writers(to) = {} THEN spoilt \ {to} ELSE spoilt
                 /\ UNCHANGED <<input, own>>
  /\ UNCHANGED <<counters, object, dirs, output, threads, late, faults>>

\* The next chunk is written, to the file that was opened; one that was removed since
\* is out of everybody's sight.
WriteChunk(d) ==
  /\ stage[d] = "stream" /\ transfer[d].next <= Chunks
  /\ LET t == transfer[d]
     IN  /\ transfer' = [transfer EXCEPT ![d].next = t.next + 1]
         /\ IF t.to = "own"
            THEN /\ own' = IF input[IdOf[d]] = "own" THEN [own EXCEPT ![IdOf[d]][t.next] = t.got]
                                                     ELSE own
                 /\ UNCHANGED data
            ELSE /\ data' = [data EXCEPT ![t.to][t.next] = t.got]
                 /\ UNCHANGED own
  /\ UNCHANGED <<stage, counters, object, cached, dirs, input, output, threads, ghosts, faults>>

\* MUTANT: the end of the stream is not awaited.
EndStreamEarly(d) ==
  /\ Goes(d, "stream", IF transfer[d].etag = None THEN "running" ELSE "look")
  /\ GiveBack
  /\ activeOps' = IF transfer[d].etag = None THEN activeOps - 1 ELSE activeOps
  /\ threads' = IF transfer[d].etag = None /\ d \in SyncDeliveries THEN threads \cup {d} ELSE threads
  /\ UNCHANGED <<transfer, object, cache, workspace, ghosts, faults>>

\* The handler is called, in a thread if it is synchronous.
CallsHandler(d) ==
  /\ activeOps' = activeOps - 1
  /\ threads' = IF d \in SyncDeliveries THEN threads \cup {d} ELSE threads
  /\ transfer' = [transfer EXCEPT ![d] = NoTransfer]

EndStream(d) ==
  /\ stage[d] = "stream" /\ transfer[d].next > Chunks
  /\ GiveBack
  /\ IF transfer[d].etag = None
     THEN Goes(d, "stream", "running") /\ CallsHandler(d)
     ELSE Goes(d, "stream", "look") /\ UNCHANGED <<activeOps, threads, transfer>>
  /\ UNCHANGED <<object, cache, workspace, ghosts, faults>>

LookAtPath(d) ==
  /\ IF input[IdOf[d]] = "none" THEN Goes(d, "look", "symlink") ELSE Goes(d, "look", "unlink")
  /\ UNCHANGED <<transfer, counters, object, cache, workspace, threads, ghosts, faults>>

Unlink(d) ==
  /\ Goes(d, "unlink", "symlink")
  /\ input[IdOf[d]] # "none"
  /\ input' = [input EXCEPT ![IdOf[d]] = "none"]
  /\ own' = [own EXCEPT ![IdOf[d]] = Empty]
  /\ UNCHANGED <<transfer, counters, object, cache, dirs, output, threads, ghosts, faults>>

Link(d) ==
  /\ Goes(d, "symlink", "running")
  /\ IdOf[d] \in dirs /\ input[IdOf[d]] = "none"
  /\ input' = [input EXCEPT ![IdOf[d]] = transfer[d].etag]
  /\ CallsHandler(d)
  /\ UNCHANGED <<permits, object, cache, dirs, own, output, ghosts, faults>>

-----------------------------------------------------------------------------
(* The handler, the output and the cleanup.                                *)

\* The handler is at work: in its thread, also after its coroutine has ended, or on the
\* loop.
Working(d) == IF d \in SyncDeliveries THEN d \in threads ELSE stage[d] = "running"

\* It asks for a path (which creates the directory) and writes its output there.
HandlerWrites(d) ==
  /\ Working(d)
  /\ dirs' = dirs \cup {IdOf[d]}
  /\ output' = output \cup {IdOf[d]}
  /\ late' = IF stage[d] \in InTry \cup InCleanup THEN late ELSE late \cup {d}
  /\ UNCHANGED <<stage, transfer, counters, object, cache, input, own, threads, spoilt, faults>>

\* It writes to the path it got for its input: through the link, into the cache.  (What it
\* does to a copy of its own is left out.)
HandlerOverwrites(d) ==
  /\ d \in InPlace
  /\ Working(d)
  /\ LET c == input[IdOf[d]]
     IN  /\ c \in Contents
         /\ data' = [data EXCEPT ![c] = Empty]
         /\ spoilt' = spoilt \cup {c}
  /\ UNCHANGED <<stage, transfer, counters, object, cached, workspace, threads, late, faults>>

ThreadEnds(d) ==
  /\ d \in threads
  /\ threads' = threads \ {d}
  /\ UNCHANGED <<stage, transfer, counters, object, cache, workspace, ghosts, faults>>

\* TaskFiles.upload_file: a transfer of the handler's own, which _active_ops misses.  The
\* file is opened with the place in the semaphore, and its size asked for afterwards.
HandlerUploads(d) ==
  /\ d \notin SyncDeliveries
  /\ \/ Goes(d, "running", "side wait") /\ IdOf[d] \in output /\ UNCHANGED permits
     \/ Goes(d, "side wait", "side") /\ IdOf[d] \in output /\ Acquire
     \/ Goes(d, "side", "side size") /\ GiveBack
     \/ Goes(d, "side size", "running") /\ IdOf[d] \in output /\ UNCHANGED permits
  /\ UNCHANGED <<transfer, activeOps, object, cache, workspace, threads, ghosts, faults>>

\* The handler returns.  An output that exists is uploaded and counted as an operation.
HandlerReturns(d) ==
  /\ d \notin threads
  /\ \/ /\ Goes(d, "running", "put wait")
        /\ IdOf[d] \in output
        /\ activeOps' = activeOps + 1
     \/ /\ Goes(d, "running", "cleanup")
        /\ UNCHANGED activeOps
  /\ UNCHANGED <<transfer, permits, object, cache, workspace, threads, ghosts, faults>>

AskUpload(d) ==
  /\ Goes(d, "put wait", "put")
  /\ IdOf[d] \in output
  /\ Acquire
  /\ UNCHANGED <<transfer, activeOps, object, cache, workspace, threads, ghosts, faults>>

\* The upload reads the file it has opened, also one that was removed since.
Uploaded(d) ==
  /\ Goes(d, "put", "size")
  /\ GiveBack
  /\ UNCHANGED <<transfer, activeOps, object, cache, workspace, threads, ghosts, faults>>

Measured(d) ==
  /\ Goes(d, "size", "cleanup")
  /\ IdOf[d] \in output
  /\ activeOps' = activeOps - 1
  /\ UNCHANGED <<transfer, permits, object, cache, workspace, threads, ghosts, faults>>

\* S3Manager.cleanup in the finally block of _process_task: exists, then rmtree.  Links
\* are removed, not what they lead to.
CleanUp(d) ==
  /\ IF IdOf[d] \in dirs THEN Goes(d, "cleanup", "wipe") ELSE Goes(d, "cleanup", "released")
  /\ UNCHANGED <<transfer, counters, object, cache, workspace, threads, ghosts, faults>>

Wipes(i) ==
  /\ dirs' = dirs \ {i}
  /\ input' = [input EXCEPT ![i] = "none"]
  /\ own' = [own EXCEPT ![i] = Empty]
  /\ output' = output \ {i}

RemoveTree(d) ==
  /\ Goes(d, "wipe", "released")
  /\ Wipes(IdOf[d])
  /\ UNCHANGED <<transfer, counters, object, cache, threads, ghosts, faults>>

-----------------------------------------------------------------------------
(* Failures and cancellations.                                             *)

\* A transfer into the cache that ends before all pieces are written.
BrokenOff(d) ==
  IF stage[d] = "stream" /\ transfer[d].next <= Chunks THEN {transfer[d].to} \cap Contents ELSE {}

\* MUTANT: _active_ops is decremented only when the operation succeeds.
AbortUncounted(d) ==
  /\ stage' = [stage EXCEPT ![d] = "cleanup"]
  /\ permits' = IF stage[d] \in Holding THEN permits + 1 ELSE permits
  /\ UNCHANGED activeOps
  /\ spoilt' = spoilt \cup BrokenOff(d)
  /\ transfer' = [transfer EXCEPT ![d] = NoTransfer]

\* MUTANT: the directory of a failed task is kept.
AbortKeepingFiles(d) ==
  /\ stage' = [stage EXCEPT ![d] = "released"]
  /\ activeOps' = IF stage[d] \in Counted THEN activeOps - 1 ELSE activeOps
  /\ permits' = IF stage[d] \in Holding THEN permits + 1 ELSE permits
  /\ spoilt' = spoilt \cup BrokenOff(d)
  /\ transfer' = [transfer EXCEPT ![d] = NoTransfer]

\* An exception leaves the awaits of the try block: the finally clauses and the context
\* managers give back what is held.  A cache file half written stays as it is.
Abort(d) ==
  /\ stage' = [stage EXCEPT ![d] = "cleanup"]
  /\ activeOps' = IF stage[d] \in Counted THEN activeOps - 1 ELSE activeOps
  /\ permits' = IF stage[d] \in Holding THEN permits + 1 ELSE permits
  /\ spoilt' = spoilt \cup BrokenOff(d)
  /\ transfer' = [transfer EXCEPT ![d] = NoTransfer]

\* What a step needs is not there: another delivery of the same id unlinked the path,
\* linked it or removed the directory.  Files are opened with a place in the semaphore.
Missing(d) ==
  \/ stage[d] = "unlink" /\ input[IdOf[d]] = "none"
  \/ stage[d] = "symlink" /\ (IdOf[d] \notin dirs \/ input[IdOf[d]] # "none")
  \/ stage[d] = "get" /\ transfer[d].etag = None /\ IdOf[d] \notin dirs
  \/ stage[d] \in {"put wait", "side wait"} /\ permits > 0 /\ IdOf[d] \notin output
  \/ stage[d] \in {"size", "side size"} /\ IdOf[d] \notin output

Fails(d) ==
  /\ Missing(d)
  /\ Abort(d)
  /\ UNCHANGED <<object, cache, workspace, threads, late, faults>>

\* An await fails, or CancelledError is raised there.  The thread of a synchronous
\* handler goes on.
Breaks(d) ==
  /\ stage[d] \in InTry
  /\ faults < MaxFaults
  /\ faults' = faults + 1
  /\ Abort(d)
  /\ UNCHANGED <<object, cache, workspace, threads, late>>

\* A cancellation at an await of the cleanup: rmtree may or may not have begun.
CleanupBreaks(d) ==
  /\ stage[d] \in InCleanup
  /\ faults < MaxFaults
  /\ faults' = faults + 1
  /\ stage' = [stage EXCEPT ![d] = "left"]
  /\ \/ stage[d] = "wipe" /\ Wipes(IdOf[d])
     \/ UNCHANGED workspace
  /\ UNCHANGED <<transfer, counters, object, cache, threads, ghosts>>

\* ENVIRONMENT: an object is replaced.
Replace(u) ==
  /\ faults < MaxFaults
  /\ faults' = faults + 1
  /\ \E c \in Contents \ {object[u]} : object' = [object EXCEPT ![u] = c]
  /\ UNCHANGED <<stage, transfer, counters, cache, workspace, threads, ghosts>>

-----------------------------------------------------------------------------
Step(d) ==
  \/ MakeRoot(d) \/ AskMetadata(d) \/ GetMetadata(d) \/ LookUp(d) \/ AskObject(d)
  \/ OpenFile(d) \/ WriteChunk(d) \/ EndStream(d) \/ LookAtPath(d) \/ Unlink(d)
  \/ Link(d) \/ HandlerReturns(d) \/ AskUpload(d) \/ Uploaded(d) \/ Measured(d)
  \/ CleanUp(d) \/ RemoveTree(d) \/ Fails(d)

Next ==
  \/ \E d \in Deliveries :
       \/ StartInput(d) \/ Step(d) \/ HandlerWrites(d) \/ HandlerOverwrites(d)
       \/ HandlerUploads(d) \/ ThreadEnds(d) \/ Breaks(d) \/ CleanupBreaks(d)
  \/ \E u \in Uris : Replace(u)

Spec == Init /\ [][Next]_vars

-----------------------------------------------------------------------------
(* Properties.                                                             *)

Transfer == [etag : Contents \cup {None}, to : Paths, got : Contents \cup {None},
             next : 1..Chunks + 1]

TypeOK ==
  /\ stage \in [Deliveries -> Stages]
  /\ transfer \in [Deliveries -> Transfer]
  /\ activeOps \in Int
  /\ permits \in Int
  /\ object \in [Uris -> Contents]
  /\ cached \subseteq Contents
  /\ data \in [Contents -> File]
  /\ dirs \subseteq TaskIds
  /\ input \in [TaskIds -> Paths]
  /\ own \in [TaskIds -> File]
  /\ output \subseteq TaskIds
  /\ threads \subseteq Deliveries
  /\ late \subseteq Deliveries
  /\ spoilt \subseteq Contents
  /\ faults \in 0..MaxFaults

\* The two counters agree with the coroutines at every await, through failures and
\* cancellations: _active_ops, which shutdown waits to be 0, counts the inputs and
\* outputs on their way, and the semaphore has given away as many places as are used.
CountersExact ==
  /\ activeOps = Cardinality({d \in Deliveries : stage[d] \in Counted})
  /\ permits = MaxTransfers - Cardinality({d \in Deliveries : stage[d] \in Holding})
  /\ permits >= 0

Handing(d) == stage[d] = "running"

OnlyWithItsId(d) ==
  \A e \in Deliveries : IdOf[e] = IdOf[d] => e = d \/ stage[e] = "unseen"

\* A handler finds at its input's path the whole object the etag names, or its cache file
\* is being written at this moment - it was found while the first download was filling it,
\* or a task that had looked for it before the first one opened it downloads it again - or
\* it is spoilt.  Only three things spoil a cache file until it is downloaded anew: a
\* transfer into it broke off midway, it was filled from an object replaced between the
\* two requests, or a handler wrote through its link.  So downloads of one file may
\* overlap, truncate and overwrite one another: the last leaves it whole.  An id handed
\* over twice is excepted.
InputIsWhole ==
  \A d \in Deliveries : Handing(d) /\ OnlyWithItsId(d) =>
    LET c == input[IdOf[d]]
    IN  /\ c # "none"
        /\ c \in Contents \ spoilt => data[c] = Whole(c) \/ Writers(c) # {}
        /\ c = "own" => \E w \in Contents : own[IdOf[d]] = Whole(w)

\* README, ETag-Based Blob Caching: assets are "downloaded only once, cached locally,
\* and symlinked to tasks' workspace": what a link leads to is the asset.
AssetIsLinked ==
  \A d \in Deliveries : Handing(d) /\ input[IdOf[d]] \in Contents =>
    data[input[IdOf[d]]] = Whole(input[IdOf[d]])

\* SECURITY.md, Automatic Cleanup: "Temporary task data is securely wiped immediately
\* after task completion or failure".  A directory without a task in progress is there
\* only because a cancellation broke the cleanup off, or because the thread of a
\* cancelled handler created it again.
DirectoryHasOwner ==
  \A i \in dirs : \E d \in Deliveries :
     IdOf[d] = i /\ (stage[d] \in InTry \cup InCleanup \cup {"left"} \/ d \in late)

=============================================================================
