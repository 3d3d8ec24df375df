---------------------------- MODULE ClaudeClient ----------------------------
(* ai/claudecode/client.go: one caller runs prompts and moves files through *)
(* an HTTP server that may be slow.  Every method is one request: Do sends  *)
(* it and fails, or a response comes whose status and body decide.  When    *)
(* the context or the client's timeout ends a call, the server may still    *)
(* handle its request later, between or after other calls.                  *)
EXTENDS Integers, FiniteSets

CONSTANTS
  RemotePaths, Contents, NoFile,
  MaxCalls  \* bound: calls of the client

ASSUME ClientAssumption == NoFile \notin Contents /\ MaxCalls \in Nat

VARIABLES
  store,     \* external: the files on the server
  handled,   \* external: prompts the server has run
  sent,      \* calls made
  request,   \* the request of the call in progress
  response,  \* what the server answered to it
  straggling, \* requests of calls that have ended, still to be handled
  got,       \* what DownloadFile has just returned
  last,      \* history: per file, the effect of the last call that succeeded
  doubtful,  \* history: per file, the effects of calls that failed
  runs       \* history: calls of Run that succeeded and that failed

clientVars == <<store, handled, sent, request, response, straggling, got, last, doubtful, runs>>

FileStates == Contents \cup {NoFile}
NoRequest == [op |-> "none"]
NoResponse == [status |-> 0]
Nothing == [op |-> "none"]

StatusOK == 200
StatusNotFound == 404
StatusCodes == {StatusOK, StatusNotFound, 500}  \* 500 for any other status

Call(op) == [op |-> op, id |-> sent]
FileCall(op, p, content) == [op |-> op, id |-> sent, path |-> p, content |-> content]

ClientIdle ==
  /\ store = [p \in RemotePaths |-> NoFile] /\ handled = 0 /\ sent = MaxCalls
  /\ request = NoRequest /\ response = NoResponse /\ straggling = {} /\ got = Nothing
  /\ last = store /\ doubtful = [p \in RemotePaths |-> {}] /\ runs = [ok |-> 0, failed |-> 0]

ClientInit ==
  /\ store \in [RemotePaths -> FileStates] /\ handled = 0 /\ sent = 0
  /\ request = NoRequest /\ response = NoResponse /\ straggling = {} /\ got = Nothing
  /\ last = store /\ doubtful = [p \in RemotePaths |-> {}] /\ runs = [ok |-> 0, failed |-> 0]

(* The request is built and handed to httpClient.Do.                        *)
Do(r) ==
  /\ request = NoRequest /\ sent < MaxCalls
  /\ request' = r /\ sent' = sent + 1 /\ got' = Nothing
  /\ UNCHANGED <<store, handled, response, straggling, last, doubtful, runs>>

(* Run waits for the result: FireAndForget, which asks the server to answer *)
(* before it has run the prompt, is not set.                                *)
Run == Do(Call("run"))
UploadFile(p, content) == Do(FileCall("upload", p, content))
DownloadFile(p) == Do(FileCall("download", p, NoFile))
DeleteFile(p) == Do(FileCall("delete", p, NoFile))
Health == Do(Call("health"))

Changes(r) == r.op \in {"upload", "delete"}

(* The server does what the request asks for.                               *)
Effect(r) ==
  /\ store' = IF Changes(r) THEN [store EXCEPT ![r.path] = r.content] ELSE store
  /\ handled' = IF r.op = "run" THEN handled + 1 ELSE handled

Answer(status, readable) ==
  [status |-> status, readable |-> readable,
   body |-> IF request.op = "download" /\ status = StatusOK THEN store[request.path] ELSE NoFile]

Missing(r) == r.op \in {"download", "delete"} /\ store[r.path] = NoFile

(* It answers 200 once that is done, 404 for a missing file, or another     *)
(* status with or without having done it; the body may break off.           *)
ServerHandles ==
  /\ request # NoRequest /\ response = NoResponse
  /\ \E readable \in BOOLEAN, status \in StatusCodes :
       /\ response' = Answer(status, readable)
       /\ (status = StatusNotFound) => Missing(request)
       /\ (status = StatusOK) => ~Missing(request)
       /\ \/ status # StatusNotFound /\ Effect(request)
          \/ status # StatusOK /\ UNCHANGED <<store, handled>>
  /\ UNCHANGED <<sent, request, straggling, got, last, doubtful, runs>>

(* A request whose caller has gone is handled after all.                    *)
ServerHandlesLate(r) ==
  /\ Effect(r) /\ straggling' = straggling \ {r}
  /\ UNCHANGED <<sent, request, response, got, last, doubtful, runs>>

(* Fault: the status of the response is not looked at. *)
RunSucceedsAnyStatus(a) == a.readable
UploadFileSucceedsAnyStatus(a) == a.readable

(* What each method checks of the response before it reports success.       *)
RunSucceeds(a) == a.status = StatusOK /\ a.readable
UploadFileSucceeds(a) == a.status = StatusOK /\ a.readable
DownloadFileSucceeds(a) == a.status # StatusNotFound /\ a.status = StatusOK /\ a.readable
DeleteFileSucceeds(a) == a.status = StatusOK
HealthSucceeds(a) == a.status = StatusOK

Succeeds(r, a) ==
  CASE r.op = "run" -> RunSucceeds(a)
    [] r.op = "upload" -> UploadFileSucceeds(a)
    [] r.op = "download" -> DownloadFileSucceeds(a)
    [] r.op = "delete" -> DeleteFileSucceeds(a)
    [] r.op = "health" -> HealthSucceeds(a)

CallFails ==
  /\ doubtful' = IF Changes(request) THEN [doubtful EXCEPT ![request.path] = @ \cup {request.content}] ELSE doubtful
  /\ runs' = IF request.op = "run" THEN [runs EXCEPT !.failed = @ + 1] ELSE runs
  /\ UNCHANGED <<got, last>>

SucceedsWith(data) ==
  /\ got' = IF request.op = "download" THEN [op |-> "download", path |-> request.path, data |-> data] ELSE Nothing
  /\ last' = IF Changes(request) THEN [last EXCEPT ![request.path] = request.content] ELSE last
  /\ runs' = IF request.op = "run" THEN [runs EXCEPT !.ok = @ + 1] ELSE runs
  /\ UNCHANGED doubtful

CallSucceeds == SucceedsWith(response.body)

CallReturns ==
  /\ response # NoResponse
  /\ IF Succeeds(request, response) THEN CallSucceeds ELSE CallFails
  /\ request' = NoRequest /\ response' = NoResponse
  /\ UNCHANGED <<store, handled, sent, straggling>>

(* Do fails: no connection, the context, the timeout.  The request may or   *)
(* may not reach the server, or the answer was lost.                        *)
DoFails ==
  /\ request # NoRequest /\ CallFails
  /\ \/ straggling' = straggling
     \/ response = NoResponse /\ straggling' = straggling \cup {request}
  /\ request' = NoRequest /\ response' = NoResponse
  /\ UNCHANGED <<store, handled, sent>>

ClientNext ==
  \/ Run \/ Health \/ ServerHandles \/ CallReturns \/ DoFails
  \/ \E p \in RemotePaths : DownloadFile(p) \/ DeleteFile(p) \/ \E content \in Contents : UploadFile(p, content)
  \/ \E r \in straggling : ServerHandlesLate(r)

ClientSpec == ClientInit /\ [][ClientNext]_clientVars
----------------------------------------------------------------------------
(* Types of the client's calls and of the server's files.                   *)
ClientTypeOK ==
  /\ store \in [RemotePaths -> FileStates] /\ last \in [RemotePaths -> FileStates]
  /\ doubtful \in [RemotePaths -> SUBSET FileStates] /\ handled \in Nat /\ sent \in 0..MaxCalls
  /\ got # Nothing => got.data \in FileStates

(* Between calls a file holds what the last UploadFile or DeleteFile that   *)
(* reported success left there, or the effect of one that reported an       *)
(* error, whenever that was: a straggling request may overwrite newer data, *)
(* but no success is ever reported for a change that was not made.          *)
(* DownloadFile returns such a content, never an error page.                *)
FilesFollowCalls ==
  /\ request = NoRequest => \A p \in RemotePaths : store[p] \in {last[p]} \cup doubtful[p]
  /\ got # Nothing => got.data \in ({last[got.path]} \cup doubtful[got.path]) \ {NoFile}

(* Run without FireAndForget: a prompt runs exactly once for each call that *)
(* reports success and at most once for each that does not.                 *)
RunsOnce ==
  request = NoRequest => handled \in runs.ok..runs.ok + runs.failed
=============================================================================
