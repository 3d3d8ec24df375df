------------------------------ MODULE Downloads -----------------------------
(* utils/httputil/httputil.go: DownloadFiles starts a goroutine for each    *)
(* URL; a channel used as a semaphore bounds how many of them download at a *)
(* time, another one collects their errors.  The file system is seen as the *)
(* chunks of each file, the HTTP client as responses that fail or arrive    *)
(* chunk by chunk.                                                          *)
EXTENDS Integers, FiniteSets, Sequences

CONSTANTS
  Urls,
  Paths,
  Targets,      \* the maps urlsToTargetPaths of the callers
  WorkerLimit,  \* downloadFilesWorkerLimit
  BodyLen,      \* chunks of every body
  Befores       \* the lengths the files may have before

ASSUME DownloadAssumption ==
  /\ IsFiniteSet(Urls) /\ Targets \subseteq [Urls -> Paths] /\ WorkerLimit \in Nat \ {0}
  /\ BodyLen \in Nat /\ Befores \subseteq [Paths -> Nat]

VARIABLES
  targets,   \* urlsToTargetPaths: two URLs may have the same target
  before,    \* length of each file before the call
  files,     \* the chunks of each file: an URL, Old, or Lost
  worker,    \* where the goroutine of each URL stands
  offset,    \* chunks it has written
  sem,       \* elements in the channel sem
  errChan,   \* URLs whose error is in errChan
  dlResult,  \* "pending", then "nil" or "error"
  ended      \* the caller's context has ended

dlVars == <<targets, before, files, worker, offset, sem, errChan, dlResult, ended>>

Old == "old"
Lost == "lost"

Limit == IF WorkerLimit < Cardinality(Urls) THEN WorkerLimit ELSE Cardinality(Urls)

Steps == {"start", "request", "copy", "report", "release", "done"}

DownloadInit ==
  /\ targets \in Targets /\ before \in Befores
  /\ files = [p \in Paths |-> [k \in 1..before[p] |-> Old]]
  /\ worker = [u \in Urls |-> "start"] /\ offset = [u \in Urls |-> 0]
  /\ sem = 0 /\ errChan = {} /\ dlResult = "pending" /\ ended = FALSE

DownloadIdle ==
  /\ before = [p \in Paths |-> 0]
  /\ targets = [u \in Urls |-> CHOOSE p \in Paths : TRUE]
  /\ files = [p \in Paths |-> <<>>]
  /\ worker = [u \in Urls |-> "done"] /\ offset = [u \in Urls |-> 0]
  /\ sem = 0 /\ errChan = Urls /\ dlResult = "error" /\ ended = TRUE

Step(u, from, to) == worker[u] = from /\ worker' = [worker EXCEPT ![u] = to]

(* Fault: the semaphore has room for every URL. *)
AcquireUnbounded(u) ==
  /\ Step(u, "start", "request") /\ sem' = sem + 1
  /\ UNCHANGED <<targets, before, files, offset, errChan, dlResult, ended>>

Acquire(u) ==
  /\ Step(u, "start", "request") /\ sem < Limit /\ sem' = sem + 1
  /\ UNCHANGED <<targets, before, files, offset, errChan, dlResult, ended>>

(* The request, its status and opening the target work out, or one fails.   *)
(* The target is opened without O_TRUNC: what it holds stays.               *)
OpenTarget(u) ==
  /\ ~ended /\ Step(u, "request", "copy")
  /\ UNCHANGED <<targets, before, files, offset, sem, errChan, dlResult, ended>>

DownloadFails(u) ==
  /\ Step(u, "request", "report") \/ Step(u, "copy", "report")
  /\ UNCHANGED <<targets, before, files, offset, sem, errChan, dlResult, ended>>

(* io.Copy writes each chunk at the goroutine's own offset.                 *)
Overwrite(file, k, u) == [i \in 1..(IF k > Len(file) THEN k ELSE Len(file)) |-> IF i = k THEN u ELSE file[i]]

(* Fault: the target is opened with O_APPEND. *)
CopyChunkAppending(u) ==
  /\ worker[u] = "copy" /\ offset[u] < BodyLen
  /\ offset' = [offset EXCEPT ![u] = @ + 1]
  /\ files' = [files EXCEPT ![targets[u]] = Append(@, u)]
  /\ UNCHANGED <<targets, before, worker, sem, errChan, dlResult, ended>>

CopyChunk(u) ==
  /\ worker[u] = "copy" /\ offset[u] < BodyLen
  /\ offset' = [offset EXCEPT ![u] = @ + 1]
  /\ files' = [files EXCEPT ![targets[u]] = Overwrite(@, offset[u] + 1, u)]
  /\ UNCHANGED <<targets, before, worker, sem, errChan, dlResult, ended>>

CopyDone(u) ==
  /\ Step(u, "copy", "release") /\ offset[u] = BodyLen
  /\ UNCHANGED <<targets, before, files, offset, sem, errChan, dlResult, ended>>

Losing(file, u) == [k \in 1..Len(file) |-> IF file[k] = u THEN Lost ELSE file[k]]

(* Closing the target fails and loses what was written; the error is only   *)
(* logged.                                                                  *)
CloseLoses(u) ==
  /\ Step(u, "copy", "release") /\ offset[u] = BodyLen
  /\ files' = [files EXCEPT ![targets[u]] = Losing(@, u)]
  /\ UNCHANGED <<targets, before, offset, sem, errChan, dlResult, ended>>

(* The send blocks while the channel is full.                               *)
Report(u) ==
  /\ Step(u, "report", "release")
  /\ Cardinality(errChan) < Cardinality(Urls) /\ errChan' = errChan \cup {u}
  /\ UNCHANGED <<targets, before, files, offset, sem, dlResult, ended>>

(* Fault: the semaphore is not released on every path. *)
ReleaseForgotten(u) ==
  /\ Step(u, "release", "done")
  /\ UNCHANGED <<targets, before, files, offset, sem, errChan, dlResult, ended>>

(* The deferred receive from sem, after which wg.Go counts the worker out.  *)
Release(u) ==
  /\ Step(u, "release", "done") /\ sem' = sem - 1
  /\ UNCHANGED <<targets, before, files, offset, errChan, dlResult, ended>>

(* wg.Wait, and the errors collected from the closed channel.               *)
Collect ==
  /\ dlResult = "pending" /\ \A u \in Urls : worker[u] = "done"
  /\ dlResult' = IF errChan = {} THEN "nil" ELSE "error"
  /\ UNCHANGED <<targets, before, files, worker, offset, sem, errChan, ended>>

WorkerStep(u) ==
  \/ Acquire(u) \/ OpenTarget(u) \/ DownloadFails(u) \/ CopyChunk(u)
  \/ CopyDone(u) \/ CloseLoses(u) \/ Report(u) \/ Release(u)

(* http.Client has no timeout: until the context ends, the server may leave *)
(* a request or a body unanswered.                                          *)
Unanswered(u) == ~ended /\ worker[u] \in {"request", "copy"}

(* The context ends; only requests look at it.                              *)
Cancelled ==
  /\ \E u \in Urls : Unanswered(u)
  /\ ended' = TRUE
  /\ UNCHANGED <<targets, before, files, worker, offset, sem, errChan, dlResult>>

DownloadNext == Cancelled \/ Collect \/ \E u \in Urls : WorkerStep(u)

DownloadFairness == WF_dlVars(Collect) /\ \A u \in Urls : WF_dlVars(~Unanswered(u) /\ WorkerStep(u))

DownloadSpec == DownloadInit /\ [][DownloadNext]_dlVars /\ DownloadFairness
----------------------------------------------------------------------------
(* Types of the call's channels, goroutines and files.                      *)
DownloadTypeOK ==
  /\ targets \in [Urls -> Paths] /\ before \in [Paths -> Nat]
  /\ files \in [Paths -> Seq(Urls \cup {Old, Lost})]
  /\ worker \in [Urls -> Steps] /\ offset \in [Urls -> 0..BodyLen]
  /\ sem \in Nat /\ errChan \subseteq Urls /\ dlResult \in {"pending", "nil", "error"}
  /\ ended \in BOOLEAN

InFlight == {u \in Urls : worker[u] \in {"request", "copy", "report", "release"}}

(* DownloadFiles: no more than workerLimit goroutines hold a connection or  *)
(* an open file, however they interleave.                                   *)
WorkersLimited == Cardinality(InFlight) <= Limit

Alone(u) == \A v \in Urls \ {u} : targets[v] # targets[u]

LosesNothing(u) == \A k \in 1..Len(files[targets[u]]) : files[targets[u]][k] # Lost

(* DownloadFiles reports every failed download: nil is returned only if     *)
(* each target that is no other URL's target begins with the complete body. *)
(* A longer file that was there keeps its end.  The exception is a target   *)
(* whose Close lost data.                                                   *)
NilMeansComplete ==
  dlResult = "nil" => \A u \in Urls : Alone(u) /\ LosesNothing(u) =>
    files[targets[u]] = [k \in 1..(IF before[targets[u]] > BodyLen THEN before[targets[u]] ELSE BodyLen)
                           |-> IF k <= BodyLen THEN u ELSE Old]

(* DownloadFiles: a worker that has failed is in errChan when it gives up   *)
(* its place, so that the error returned names every failed URL.            *)
EveryFailureCollected ==
  \A u \in Urls : worker[u] \in {"release", "done"} => (offset[u] < BodyLen => u \in errChan)

(* DownloadFiles has returned, or waits for a request that nobody answers   *)
(* under a context that goes on.                                            *)
DownloadOver == dlResult # "pending" \/ \E u \in Urls : Unanswered(u)
=============================================================================
