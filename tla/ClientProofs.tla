---------------------------- MODULE ClientProofs ----------------------------
(* Proofs for every value of the constants about a program that deals with  *)
(* another only through what it sends and is answered: the client of a      *)
(* Claude Code server (ClaudeClient), the heartbeat (Heartbeat) and the     *)
(* handlers that send log entries to Loki (LokiHandler).                    *)
EXTENDS ClaudeClient, Heartbeat, LokiHandler, Recursion
-----------------------------------------------------------------------------
(* ClaudeClient.                                                            *)

(* The types of the requests, of the answers and of what is kept of them.   *)
PlainCalls == [op : {"run", "health"}, id : Nat]
FileCalls == [op : {"upload", "download", "delete"}, id : Nat, path : RemotePaths, content : FileStates]
Requests == PlainCalls \cup FileCalls
Responses == [status : StatusCodes, readable : BOOLEAN, body : FileStates]
Downloaded == [op : {"download"}, path : RemotePaths, data : FileStates]

ClientTypes ==
  /\ store \in [RemotePaths -> FileStates] /\ last \in [RemotePaths -> FileStates]
  /\ doubtful \in [RemotePaths -> SUBSET FileStates]
  /\ handled \in Nat /\ sent \in Nat /\ sent <= MaxCalls /\ runs \in [ok : Nat, failed : Nat]
  /\ request = NoRequest \/ request \in Requests
  /\ response = NoResponse \/ response \in Responses
  /\ straggling \subseteq Requests /\ IsFiniteSet(straggling)
  /\ got = Nothing \/ got \in Downloaded

(* An answer is to the request of a call in progress, and what a download   *)
(* returned is kept until the next call.                                    *)
CallInv ==
  /\ request = NoRequest => response = NoResponse
  /\ request # NoRequest => got = Nothing

(* A change that is not accounted for yet is the one of the call in         *)
(* progress; once it was answered OK it was made; those  still to come are  *)
(* doubtful; a file that is on its way to the caller was in the store.      *)
ClientFilesInv ==
  /\ \A p \in RemotePaths :
       \/ store[p] \in {last[p]} \cup doubtful[p]
       \/ response # NoResponse /\ Changes(request) /\ request.path = p /\ store[p] = request.content
  /\ response.status = StatusOK /\ Changes(request) =>
       store[request.path] \in {request.content} \cup doubtful[request.path]
  /\ \A r \in straggling : Changes(r) => r.content \in doubtful[r.path]
  /\ response.status = StatusOK /\ request.op = "download" =>
       response.body \in ({last[request.path]} \cup doubtful[request.path]) \ {NoFile}
  /\ got # Nothing => got.data \in ({last[got.path]} \cup doubtful[got.path]) \ {NoFile}

(* The prompts that the server may still come to run.                       *)
StragglingRuns == {r \in straggling : r.op = "run"}

(* Prompts run or still to be run, against the calls accounted for and the  *)
(* one that has been answered.                                              *)
RunsInv ==
  /\ runs.ok + (IF request.op = "run" /\ response.status = StatusOK THEN 1 ELSE 0) <= handled
  /\ handled + Cardinality(StragglingRuns)
       <= runs.ok + runs.failed + (IF request.op = "run" /\ response # NoResponse THEN 1 ELSE 0)

(* The inductive invariant of the client and its server.                    *)
ClientInv == ClientTypes /\ CallInv /\ ClientFilesInv /\ RunsInv

(* What tells the requests apart.                                           *)
LEMMA RequestFacts ==
  /\ NoRequest.op = "none" /\ NoResponse.status = 0 /\ NoResponse.status # StatusOK
  /\ ~Changes(NoRequest) /\ Nothing.op = "none"
  /\ \A r \in Requests :
       /\ r.op \in {"run", "health", "upload", "download", "delete"} /\ r # NoRequest
       /\ r.op \in {"upload", "download", "delete"} => r.path \in RemotePaths /\ r.content \in FileStates
       /\ Changes(r) => r.path \in RemotePaths /\ r.content \in FileStates /\ r.op \in {"upload", "delete"}
  /\ \A a \in Responses :
       a.status \in StatusCodes /\ a # NoResponse /\ a.readable \in BOOLEAN /\ a.body \in FileStates
  /\ \A g \in Downloaded : g # Nothing /\ g.path \in RemotePaths /\ g.data \in FileStates
BY DEF NoRequest, NoResponse, Nothing, Changes, Requests, PlainCalls, FileCalls, Responses, Downloaded,
       StatusCodes, StatusOK, StatusNotFound

(* A request that changes a file names it and what is to be in it.          *)
LEMMA ChangeFacts ==
  /\ \A r \in Requests : Changes(r) => r.path \in RemotePaths /\ r.content \in FileStates
  /\ ~Changes(NoRequest)
BY RequestFacts

(* The first state satisfies the invariant.                                 *)
LEMMA ClientInvInit == ClientInit => ClientInv
<1>. SUFFICES ASSUME ClientInit PROVE ClientInv
  BY Zenon
<1>1. ClientTypes
  BY FS_EmptySet, ClientAssumption DEF ClientInit, ClientTypes
<1>2. CallInv
  BY Zenon DEF ClientInit, CallInv
<1>3. ClientFilesInv
  BY RequestFacts, Zenon DEF ClientInit, ClientFilesInv
<1>4. RunsInv
  <2>1. StragglingRuns = {}
    BY Zenon DEF ClientInit, StragglingRuns
  <2>. QED  BY <2>1, FS_EmptySet, RequestFacts DEF ClientInit, RunsInv
<1>. QED  BY <1>1, <1>2, <1>3, <1>4, Zenon DEF ClientInv

(* A new call changes nothing but the request and what was downloaded.      *)
LEMMA DoNext == ASSUME ClientInv, NEW r \in Requests, Do(r) PROVE ClientInv'
<1>1. request = NoRequest /\ response = NoResponse /\ response' = NoResponse /\ got' = Nothing /\ request' = r
  BY Zenon DEF Do, ClientInv, CallInv
<1>2. ClientTypes'
  BY ClientAssumption DEF Do, ClientInv, ClientTypes
<1>3. CallInv'
  BY <1>1, RequestFacts, Zenon DEF CallInv
<1>4. ClientFilesInv'
  <2>1. /\ store' = store /\ last' = last /\ doubtful' = doubtful /\ straggling' = straggling
        /\ response'.status # StatusOK /\ got' = Nothing
    BY <1>1, RequestFacts, ZenonT(30) DEF Do
  <2>2. /\ \A p \in RemotePaths : store[p] \in {last[p]} \cup doubtful[p]
        /\ \A x \in straggling : Changes(x) => x.content \in doubtful[x.path]
    BY <1>1, Zenon DEF ClientInv, ClientFilesInv
  <2>. QED  BY <2>1, <2>2, Zenon DEF ClientFilesInv
<1>5. RunsInv'
  BY <1>1, RequestFacts DEF Do, ClientInv, RunsInv, StragglingRuns
<1>. QED  BY <1>2, <1>3, <1>4, <1>5, Zenon DEF ClientInv

(* What a request does to the files and to the count of prompts.            *)
LEMMA EffectTypes ==
  ASSUME ClientTypes, NEW r \in Requests, Effect(r)
  PROVE  /\ store' \in [RemotePaths -> FileStates] /\ handled' \in Nat
         /\ handled' = handled + (IF r.op = "run" THEN 1 ELSE 0)
         /\ Changes(r) => store'[r.path] = r.content
         /\ \A p \in RemotePaths : store'[p] = store[p] \/ (Changes(r) /\ r.path = p /\ store'[p] = r.content)
<1>1. store \in [RemotePaths -> FileStates] /\ handled \in Nat
  BY Zenon DEF ClientTypes
<1>2. handled' \in Nat /\ handled' = handled + (IF r.op = "run" THEN 1 ELSE 0)
  BY <1>1 DEF Effect
<1>3. CASE Changes(r)
  <2>1. r.path \in RemotePaths /\ r.content \in FileStates
    BY <1>3, ChangeFacts, Zenon
  <2>2. store' = [store EXCEPT ![r.path] = r.content]
    BY <1>3, Zenon DEF Effect
  <2>. QED  BY <1>1, <1>2, <1>3, <2>1, <2>2, Zenon
<1>4. CASE ~Changes(r)
  <2>1. store' = store
    BY <1>4, Zenon DEF Effect
  <2>. QED  BY <1>1, <1>2, <1>4, <2>1, Zenon
<1>. QED  BY <1>3, <1>4, Zenon

(* The server's answer, with or without the effect of the request.          *)
LEMMA ServerHandlesNext == ClientInv /\ ServerHandles => ClientInv'
<1>. SUFFICES ASSUME ClientInv, ServerHandles PROVE ClientInv'
  BY Zenon
<1>1. PICK readable \in BOOLEAN, status0 \in StatusCodes :
        /\ response' = Answer(status0, readable)
        /\ (status0 = StatusNotFound) => Missing(request)
        /\ (status0 = StatusOK) => ~Missing(request)
        /\ \/ status0 # StatusNotFound /\ Effect(request)
           \/ status0 # StatusOK /\ UNCHANGED <<store, handled>>
  BY Zenon DEF ServerHandles
<1>2. /\ request \in Requests /\ response = NoResponse /\ request' = request /\ ClientTypes
      /\ UNCHANGED <<sent, request, straggling, got, last, doubtful, runs>> /\ request # NoRequest
  BY DEF ServerHandles, ClientInv, ClientTypes
<1>3. response' \in Responses /\ response'.status = status0 /\ response' # NoResponse
  <2>1. (IF request.op = "download" /\ status0 = StatusOK THEN store[request.path] ELSE NoFile) \in FileStates
    BY <1>2, RequestFacts DEF ClientTypes, FileStates
  <2>2. response' \in Responses /\ response'.status = status0
    BY <1>1, <2>1 DEF Answer, Responses
  <2>. QED  BY <2>2, RequestFacts
<1>4. /\ store' \in [RemotePaths -> FileStates] /\ handled' \in Nat
      /\ \A p \in RemotePaths : store'[p] = store[p] \/ (Changes(request) /\ request.path = p /\ store'[p] = request.content)
      /\ status0 = StatusOK /\ Changes(request) => store'[request.path] = request.content
      /\ \/ handled' = handled /\ (status0 = StatusOK => request.op # "run")
         \/ handled' = handled + 1 /\ request.op = "run"
  <2>1. CASE status0 # StatusNotFound /\ Effect(request)
    BY <2>1, <1>2, EffectTypes DEF ClientTypes
  <2>2. CASE status0 # StatusOK /\ UNCHANGED <<store, handled>>
    BY <2>2, <1>2, ZenonT(30) DEF ClientTypes
  <2>. QED  BY <1>1, <2>1, <2>2
<1>5. ClientTypes'
  BY <1>2, <1>3, <1>4 DEF ClientTypes
<1>6. CallInv'
  BY <1>2, Zenon DEF ClientInv, CallInv
<1>7. ClientFilesInv'
  <2>0. response = NoResponse /\ ClientFilesInv
    BY <1>2, ZenonT(30) DEF ClientInv
  <2>1. \A p \in RemotePaths : store[p] \in {last[p]} \cup doubtful[p]
    <3>1. \A p \in RemotePaths : \/ store[p] \in {last[p]} \cup doubtful[p]
                                 \/ response # NoResponse /\ Changes(request) /\ request.path = p /\ store[p] = request.content
      BY <2>0, ZenonT(30) DEF ClientFilesInv
    <3>. QED  BY <2>0, <3>1
  <2>2. \A p \in RemotePaths :
          \/ store'[p] \in {last'[p]} \cup doubtful'[p]
          \/ response' # NoResponse /\ Changes(request') /\ request'.path = p /\ store'[p] = request'.content
    <3>. SUFFICES ASSUME NEW p \in RemotePaths
                  PROVE  \/ store'[p] \in {last'[p]} \cup doubtful'[p]
                         \/ response' # NoResponse /\ Changes(request') /\ request'.path = p /\ store'[p] = request'.content
      BY Zenon
    <3>1. store'[p] = store[p] \/ (Changes(request) /\ request.path = p /\ store'[p] = request.content)
      BY <1>4, ZenonT(30)
    <3>2. last' = last /\ doubtful' = doubtful /\ request' = request /\ response' # NoResponse
      BY <1>2, <1>3, Zenon
    <3>. QED  BY <2>1, <3>1, <3>2, Zenon
  <2>3. response'.status = StatusOK /\ Changes(request') =>
          store'[request'.path] \in {request'.content} \cup doubtful'[request'.path]
    <3>1. response'.status = status0 /\ request' = request /\ doubtful' = doubtful
      BY <1>2, <1>3, Zenon
    <3>2. status0 = StatusOK /\ Changes(request) => store'[request.path] = request.content
      BY <1>4, Zenon
    <3>. QED  BY <3>1, <3>2, Zenon
  <2>4. \A r \in straggling' : Changes(r) => r.content \in doubtful'[r.path]
    <3>1. straggling' = straggling /\ doubtful' = doubtful
      BY <1>2, ZenonT(30)
    <3>2. \A r \in straggling : Changes(r) => r.content \in doubtful[r.path]
      BY <2>0, ZenonT(30) DEF ClientFilesInv
    <3>. QED  BY <3>1, <3>2, Zenon
  <2>5. ASSUME response'.status = StatusOK, request'.op = "download"
        PROVE  response'.body \in ({last'[request'.path]} \cup doubtful'[request'.path]) \ {NoFile}
    <3>1. status0 = StatusOK /\ request.op = "download" /\ request.path \in RemotePaths
      BY <2>5, <1>2, <1>3, RequestFacts
    <3>2. response'.body = store[request.path] /\ store[request.path] # NoFile
      BY <3>1, <1>1 DEF Answer, Missing
    <3>. QED  BY <3>1, <3>2, <2>1, <1>2
  <2>6. got' = Nothing
    BY <1>2 DEF ClientInv, CallInv
  <2>. QED  BY <2>2, <2>3, <2>4, <2>5, <2>6 DEF ClientFilesInv
<1>8. RunsInv'
  <2>1. StragglingRuns' = StragglingRuns /\ Cardinality(StragglingRuns) \in Nat
    BY <1>2, FS_Subset, FS_CardinalityType, ZenonT(30) DEF StragglingRuns, ClientTypes
  <2>2. runs.ok \in Nat /\ runs.failed \in Nat /\ handled \in Nat
    BY <1>2, ZenonT(30) DEF ClientTypes
  <2>3. runs.ok <= handled /\ handled + Cardinality(StragglingRuns) <= runs.ok + runs.failed
    BY <1>2, <2>2, RequestFacts DEF ClientInv, RunsInv
  <2>. HIDE DEF StragglingRuns
  <2>. DEFINE c == Cardinality(StragglingRuns)
  <2>4. runs' = runs /\ Cardinality(StragglingRuns') = c /\ c \in Nat
    BY <1>2, <2>1
  <2>. HIDE DEF c
  <2>5. runs.ok + (IF request.op = "run" /\ status0 = StatusOK THEN 1 ELSE 0) <= handled'
    BY <1>4, <2>2, <2>3
  <2>6. handled' + c <= runs.ok + runs.failed + (IF request.op = "run" THEN 1 ELSE 0)
    BY <1>4, <2>2, <2>3, <2>4 DEF c
  <2>. QED  BY <1>2, <1>3, <2>4, <2>5, <2>6 DEF RunsInv
<1>. QED  BY <1>5, <1>6, <1>7, <1>8, Zenon DEF ClientInv

(* A straggling request that is handled at last was doubtful.               *)
LEMMA ServerHandlesLateNext ==
  ASSUME ClientInv, NEW r \in straggling, ServerHandlesLate(r) PROVE ClientInv'
<1>1. /\ ClientTypes /\ r \in Requests /\ Effect(r) /\ straggling' = straggling \ {r}
      /\ UNCHANGED <<sent, request, response, got, last, doubtful, runs>>
  BY Zenon DEF ClientInv, ClientTypes, ServerHandlesLate
<1>2. /\ store' \in [RemotePaths -> FileStates] /\ handled' \in Nat
      /\ handled' = handled + (IF r.op = "run" THEN 1 ELSE 0)
      /\ \A p \in RemotePaths : store'[p] = store[p] \/ (Changes(r) /\ r.path = p /\ store'[p] = r.content)
  BY <1>1, EffectTypes, Zenon
<1>3. ClientTypes'
  BY <1>1, <1>2, FS_RemoveElement, Zenon DEF ClientTypes
<1>4. CallInv'
  BY <1>1, Zenon DEF ClientInv, CallInv
<1>5. ClientFilesInv'
  <2>1. Changes(r) => r.content \in doubtful[r.path]
    BY Zenon DEF ClientInv, ClientFilesInv
  <2>2. \A p \in RemotePaths : store'[p] = store[p] \/ store'[p] \in doubtful[p]
    BY <1>2, <2>1, Zenon
  <2>3. \A p \in RemotePaths :
          \/ store'[p] \in {last[p]} \cup doubtful[p]
          \/ response # NoResponse /\ Changes(request) /\ request.path = p /\ store'[p] = request.content
    BY <2>2, Zenon DEF ClientInv, ClientFilesInv
  <2>4. ASSUME response.status = StatusOK, Changes(request)
        PROVE  store'[request.path] \in {request.content} \cup doubtful[request.path]
    <3>1. request.path \in RemotePaths
      <4>1. request = NoRequest \/ request \in Requests
        BY <1>1, Zenon DEF ClientTypes
      <4>2. request # NoRequest
        BY <2>4, ChangeFacts, Zenon
      <4>3. request \in Requests
        BY <4>1, <4>2, Zenon
      <4>. QED  BY <2>4, <4>3, ChangeFacts
    <3>2. store[request.path] \in {request.content} \cup doubtful[request.path]
      BY <2>4, Zenon DEF ClientInv, ClientFilesInv
    <3>. QED  BY <2>2, <3>1, <3>2, Zenon
  <2>. QED  BY <1>1, <2>3, <2>4, Zenon DEF ClientInv, ClientFilesInv
<1>6. RunsInv'
  <2>1. IsFiniteSet(StragglingRuns) /\ Cardinality(StragglingRuns) \in Nat
    BY <1>1, FS_Subset, FS_CardinalityType, Zenon DEF StragglingRuns, ClientTypes
  <2>2. Cardinality(StragglingRuns') = Cardinality(StragglingRuns) - (IF r.op = "run" THEN 1 ELSE 0)
    <3>1. CASE r.op = "run"
      <4>1. r \in StragglingRuns /\ StragglingRuns' = StragglingRuns \ {r}
        BY <1>1, <3>1, Zenon DEF StragglingRuns
      <4>. QED  BY <4>1, <3>1, <2>1, FS_RemoveElement, Zenon
    <3>2. CASE r.op # "run"
      <4>1. StragglingRuns' = StragglingRuns
        BY <1>1, <3>2 DEF StragglingRuns
      <4>. QED  BY <4>1, <3>2, <2>1
    <3>. QED  BY <3>1, <3>2, Zenon
  <2>3. runs.ok \in Nat /\ runs.failed \in Nat /\ handled \in Nat
    BY <1>1, Zenon DEF ClientTypes
  <2>. DEFINE c == Cardinality(StragglingRuns) d == Cardinality(StragglingRuns')
              one == IF r.op = "run" THEN 1 ELSE 0
              answered == IF request.op = "run" /\ response.status = StatusOK THEN 1 ELSE 0
              pending == IF request.op = "run" /\ response # NoResponse THEN 1 ELSE 0
  <2>4. /\ c \in Nat /\ d = c - one /\ one \in {0, 1} /\ answered \in {0, 1} /\ pending \in {0, 1}
        /\ handled' = handled + one
    BY <1>2, <2>1, <2>2, Zenon
  <2>5. runs.ok + answered <= handled /\ handled + c <= runs.ok + runs.failed + pending
    BY Zenon DEF ClientInv, RunsInv
  <2>. HIDE DEF c, d, one, answered, pending
  <2>6. runs.ok + answered <= handled' /\ handled' + d <= runs.ok + runs.failed + pending
    BY <2>3, <2>4, <2>5
  <2>. QED  BY <1>1, <2>6, Zenon DEF RunsInv, d, answered, pending
<1>. QED  BY <1>3, <1>4, <1>5, <1>6, Zenon DEF ClientInv

(* A call that reported success: its change was made, its prompt ran.       *)
LEMMA CallSucceedsNext ==
  ASSUME ClientInv, CallReturns, Succeeds(request, response) PROVE ClientInv'
<1>1. /\ ClientTypes /\ response \in Responses /\ request \in Requests /\ CallSucceeds
      /\ request' = NoRequest /\ response' = NoResponse
      /\ UNCHANGED <<store, handled, sent, straggling, doubtful>>
  BY Zenon DEF ClientInv, ClientTypes, CallInv, CallReturns, CallSucceeds, SucceedsWith
<1>2. response.status = StatusOK
  <2>1. request.op \in {"run", "health", "upload", "download", "delete"}
    BY <1>1, RequestFacts
  <2>2. RunSucceeds(response) \/ UploadFileSucceeds(response) \/ DownloadFileSucceeds(response)
        \/ DeleteFileSucceeds(response) \/ HealthSucceeds(response)
    BY <2>1, Zenon DEF Succeeds
  <2>. QED  BY <2>2, Zenon DEF RunSucceeds, UploadFileSucceeds, DownloadFileSucceeds, DeleteFileSucceeds, HealthSucceeds
<1>3. /\ last' = IF Changes(request) THEN [last EXCEPT ![request.path] = request.content] ELSE last
      /\ runs' = IF request.op = "run" THEN [runs EXCEPT !.ok = @ + 1] ELSE runs
      /\ got' = IF request.op = "download" THEN [op |-> "download", path |-> request.path, data |-> response.body] ELSE Nothing
  BY <1>1, Zenon DEF CallSucceeds, SucceedsWith
<1>4. ClientTypes'
  <2>1. last' \in [RemotePaths -> FileStates]
    BY <1>1, <1>3, RequestFacts DEF ClientTypes
  <2>2. runs' \in [ok : Nat, failed : Nat]
    BY <1>1, <1>3 DEF ClientTypes
  <2>3. got' = Nothing \/ got' \in Downloaded
    BY <1>1, <1>3, RequestFacts, SMTT(30) DEF Downloaded
  <2>. QED  BY <1>1, <2>1, <2>2, <2>3, Zenon DEF ClientTypes
<1>5. CallInv'
  BY <1>1, Zenon DEF CallInv
<1>6. ClientFilesInv'
  <2>1. ASSUME NEW p \in RemotePaths PROVE store[p] \in {last'[p]} \cup doubtful[p]
    <3>1. CASE Changes(request) /\ request.path = p
      <4>1. last'[p] = request.content
        BY <3>1, <1>1, <1>3, Zenon DEF ClientTypes
      <4>. QED  BY <3>1, <4>1, <1>2, Zenon DEF ClientInv, ClientFilesInv
    <3>2. CASE ~(Changes(request) /\ request.path = p)
      <4>1. last'[p] = last[p]
        BY <3>2, <1>1, <1>3, RequestFacts DEF ClientTypes
      <4>. QED  BY <3>2, <4>1, Zenon DEF ClientInv, ClientFilesInv
    <3>. QED  BY <3>1, <3>2, Zenon
  <2>2. ASSUME got' # Nothing PROVE got'.data \in ({last'[got'.path]} \cup doubtful[got'.path]) \ {NoFile}
    <3>1. request.op = "download" /\ got'.data = response.body /\ got'.path = request.path
      BY <1>3, <2>2, Zenon
    <3>2. last' = last
      BY <1>3, <3>1, Zenon DEF Changes
    <3>. QED  BY <3>1, <3>2, <1>2, Zenon DEF ClientInv, ClientFilesInv
  <2>3. \A r \in straggling : Changes(r) => r.content \in doubtful[r.path]
    BY Zenon DEF ClientInv, ClientFilesInv
  <2>4. response'.status # StatusOK
    BY <1>1, RequestFacts
  <2>. QED  BY <1>1, <2>1, <2>2, <2>3, <2>4, Zenon DEF ClientFilesInv
<1>7. RunsInv'
  <2>1. StragglingRuns' = StragglingRuns /\ Cardinality(StragglingRuns) \in Nat
    BY <1>1, FS_Subset, FS_CardinalityType, Zenon DEF StragglingRuns, ClientTypes
  <2>2. runs.ok \in Nat /\ runs.failed \in Nat /\ handled \in Nat
    BY <1>1, Zenon DEF ClientTypes
  <2>. DEFINE c == Cardinality(StragglingRuns)
              one == IF request.op = "run" THEN 1 ELSE 0
  <2>3. c \in Nat /\ one \in {0, 1} /\ Cardinality(StragglingRuns') = c
    BY <2>1, Zenon
  <2>4. runs'.ok = runs.ok + one /\ runs'.failed = runs.failed
    BY <1>1, <1>3 DEF ClientTypes
  <2>5. runs.ok + one <= handled /\ handled + c <= runs.ok + runs.failed + one
    BY <1>1, <1>2, RequestFacts DEF ClientInv, RunsInv
  <2>. HIDE DEF c, one
  <2>6. runs'.ok + 0 <= handled /\ handled + c <= runs'.ok + runs'.failed + 0
    BY <2>2, <2>3, <2>4, <2>5
  <2>. QED  BY <1>1, <2>3, <2>6, RequestFacts DEF RunsInv
<1>. QED  BY <1>4, <1>5, <1>6, <1>7, Zenon DEF ClientInv

(* A call that reported an error, whether its request straggles or not: its *)
(* change is doubtful and its prompt may have run, or run later.            *)
LEMMA CallFailsNext ==
  ASSUME ClientInv, CallFails, request # NoRequest, request' = NoRequest, response' = NoResponse,
         UNCHANGED <<store, handled, sent>>,
         \/ straggling' = straggling
         \/ response = NoResponse /\ straggling' = straggling \cup {request}
  PROVE  ClientInv'
<1>1. ClientTypes /\ request \in Requests /\ got' = Nothing /\ last' = last
  BY Zenon DEF ClientInv, ClientTypes, CallInv, CallFails
<1>2. /\ doubtful' = IF Changes(request) THEN [doubtful EXCEPT ![request.path] = @ \cup {request.content}] ELSE doubtful
      /\ runs' = IF request.op = "run" THEN [runs EXCEPT !.failed = @ + 1] ELSE runs
  BY Zenon DEF CallFails
<1>3. /\ doubtful' \in [RemotePaths -> SUBSET FileStates]
      /\ \A p \in RemotePaths : doubtful[p] \subseteq doubtful'[p]
      /\ Changes(request) => request.content \in doubtful'[request.path]
  BY <1>1, <1>2, RequestFacts DEF ClientTypes
<1>4. ClientTypes'
  <2>1. straggling' \subseteq Requests /\ IsFiniteSet(straggling')
    BY <1>1, FS_AddElement DEF ClientTypes
  <2>2. runs' \in [ok : Nat, failed : Nat]
    BY <1>1, <1>2 DEF ClientTypes
  <2>. QED  BY <1>1, <1>3, <2>1, <2>2, Zenon DEF ClientTypes
<1>5. CallInv'
  BY Zenon DEF CallInv
<1>6. ClientFilesInv'
  <2>1. \A p \in RemotePaths : store[p] \in {last[p]} \cup doubtful'[p]
    BY <1>3, Zenon DEF ClientInv, ClientFilesInv
  <2>2. ASSUME NEW r \in straggling', Changes(r) PROVE r.content \in doubtful'[r.path]
    <3>1. CASE r \in straggling
      <4>1. r \in Requests /\ r.path \in RemotePaths
        BY <1>1, <2>2, <3>1, RequestFacts DEF ClientTypes
      <4>. QED  BY <1>3, <2>2, <3>1, <4>1, Zenon DEF ClientInv, ClientFilesInv
    <3>2. CASE r = request
      BY <1>3, <2>2, <3>2, Zenon
    <3>. QED  BY <3>1, <3>2, Zenon
  <2>. QED  BY <1>1, <2>1, <2>2, RequestFacts DEF ClientFilesInv
<1>7. RunsInv'
  <2>1. IsFiniteSet(StragglingRuns) /\ Cardinality(StragglingRuns) \in Nat
    BY <1>1, FS_Subset, FS_CardinalityType, Zenon DEF StragglingRuns, ClientTypes
  <2>2. runs.ok \in Nat /\ runs.failed \in Nat /\ handled \in Nat
    BY <1>1, Zenon DEF ClientTypes
  <2>. DEFINE c == Cardinality(StragglingRuns) d == Cardinality(StragglingRuns')
              one == IF request.op = "run" THEN 1 ELSE 0
              answered == IF request.op = "run" /\ response.status = StatusOK THEN 1 ELSE 0
              pending == IF request.op = "run" /\ response # NoResponse THEN 1 ELSE 0
  <2>3. d \in Nat /\ d + pending <= c + one
    <3>1. CASE straggling' = straggling
      <4>1. StragglingRuns' = StragglingRuns
        BY <3>1, Zenon DEF StragglingRuns
      <4>. QED  BY <4>1, <2>1
    <3>2. CASE response = NoResponse /\ straggling' = straggling \cup {request} /\ request.op = "run"
      <4>1. StragglingRuns' = StragglingRuns \cup {request}
        BY <3>2, Zenon DEF StragglingRuns
      <4>2. d = c \/ d = c + 1
        BY <4>1, <2>1, FS_AddElement, Zenon
      <4>. QED  BY <4>2, <3>2, <2>1
    <3>3. CASE response = NoResponse /\ straggling' = straggling \cup {request} /\ request.op # "run"
      <4>1. StragglingRuns' = StragglingRuns
        BY <3>3, Zenon DEF StragglingRuns
      <4>. QED  BY <4>1, <3>3, <2>1
    <3>. QED  BY <3>1, <3>2, <3>3, Zenon
  <2>4. runs'.ok = runs.ok /\ runs'.failed = runs.failed + one
    BY <1>1, <1>2 DEF ClientTypes
  <2>5. runs.ok + answered <= handled /\ handled + c <= runs.ok + runs.failed + pending
    BY Zenon DEF ClientInv, RunsInv
  <2>6. c \in Nat /\ one \in {0, 1} /\ answered \in {0, 1} /\ pending \in {0, 1}
    BY <2>1, Zenon
  <2>. HIDE DEF c, d, one, answered, pending
  <2>7. runs'.ok + 0 <= handled /\ handled + d <= runs'.ok + runs'.failed + 0
    BY <2>2, <2>3, <2>4, <2>5, <2>6, SMTT(30)
  <2>. QED  BY <1>1, <2>7, RequestFacts DEF RunsInv, d
<1>. QED  BY <1>4, <1>5, <1>6, <1>7, Zenon DEF ClientInv

(* Every step of the client and of the server keeps the invariant.          *)
LEMMA ClientInvNext == ClientInv /\ [ClientNext]_clientVars => ClientInv'
<1>. SUFFICES ASSUME ClientInv, [ClientNext]_clientVars PROVE ClientInv'
  BY Zenon
<1>0. ClientTypes
  BY Zenon DEF ClientInv
<1>1. CASE Run \/ Health
  <2>1. Call("run") \in Requests /\ Call("health") \in Requests
    BY <1>0, Zenon DEF ClientTypes, Call, Requests, PlainCalls
  <2>. QED  BY <1>1, <2>1, DoNext, Zenon DEF Run, Health
<1>2. CASE ServerHandles
  BY <1>2, ServerHandlesNext, Zenon
<1>3. CASE CallReturns
  <2>1. CASE Succeeds(request, response)
    BY <1>3, <2>1, CallSucceedsNext, Zenon
  <2>2. CASE ~Succeeds(request, response)
    <3>1. request # NoRequest /\ CallFails /\ straggling' = straggling
      BY <1>3, <2>2, Zenon DEF CallReturns, ClientInv, CallInv
    <3>. QED  BY <1>3, <3>1, CallFailsNext, Zenon DEF CallReturns
  <2>. QED  BY <2>1, <2>2, Zenon
<1>4. CASE DoFails
  BY <1>4, CallFailsNext, Zenon DEF DoFails
<1>5. ASSUME NEW p \in RemotePaths, DownloadFile(p) \/ DeleteFile(p) PROVE ClientInv'
  <2>1. FileCall("download", p, NoFile) \in Requests /\ FileCall("delete", p, NoFile) \in Requests
    BY <1>0, Zenon DEF ClientTypes, FileCall, Requests, FileCalls, FileStates
  <2>. QED  BY <1>5, <2>1, DoNext, Zenon DEF DownloadFile, DeleteFile
<1>6. ASSUME NEW p \in RemotePaths, NEW content \in Contents, UploadFile(p, content) PROVE ClientInv'
  <2>1. FileCall("upload", p, content) \in Requests
    BY <1>0, Zenon DEF ClientTypes, FileCall, Requests, FileCalls, FileStates
  <2>. QED  BY <1>6, <2>1, DoNext, Zenon DEF UploadFile
<1>7. ASSUME NEW r \in straggling, ServerHandlesLate(r) PROVE ClientInv'
  BY <1>7, ServerHandlesLateNext, Zenon
<1>8. CASE UNCHANGED clientVars
  <2>1. UNCHANGED <<store, handled, sent, request, response, straggling, got, last, doubtful, runs>>
    BY <1>8, Zenon DEF clientVars
  <2>2. ClientTypes' /\ CallInv'
    BY <2>1, Zenon DEF ClientInv, ClientTypes, CallInv
  <2>3. ClientFilesInv'
    BY <2>1, Zenon DEF ClientInv, ClientFilesInv
  <2>4. StragglingRuns' = StragglingRuns
    BY <2>1, Zenon DEF StragglingRuns
  <2>5. RunsInv'
    BY <2>1, <2>4, Zenon DEF ClientInv, RunsInv
  <2>. QED  BY <2>2, <2>3, <2>5, Zenon DEF ClientInv
<1>. QED  BY <1>1, <1>2, <1>3, <1>4, <1>5, <1>6, <1>7, <1>8, SMTT(30) DEF ClientNext

(* The inductive invariant of the client and its server.                    *)
LEMMA ClientInvHolds == ClientSpec => []ClientInv
BY ClientInvInit, ClientInvNext, PTL DEF ClientSpec

(* ai/claudecode/client.go: the types of its calls, for any paths, contents *)
(* and number of calls.                                                     *)
THEOREM ClientTypeCorrect == ClientSpec => []ClientTypeOK
<1>1. ClientInv => ClientTypeOK
  BY RequestFacts, ClientAssumption, SMTT(30) DEF ClientInv, ClientTypes, ClientTypeOK
<1>. QED  BY <1>1, ClientInvHolds, PTL

(* UploadFile, DeleteFile and DownloadFile: between calls every file holds  *)
(* the effect of the last change reported as made or of one reported as     *)
(* failed, and a download returns such a content, for any number of calls   *)
(* and of requests the server handles late.                                 *)
THEOREM FilesFollowCallsHolds == ClientSpec => []FilesFollowCalls
<1>1. ClientInv => FilesFollowCalls
  BY Zenon DEF ClientInv, CallInv, ClientFilesInv, FilesFollowCalls
<1>. QED  BY <1>1, ClientInvHolds, PTL

(* Run: exactly one run of the prompt for a success, at most one for an     *)
(* error, for any number of calls and of late requests.                     *)
THEOREM RunsOnceHolds == ClientSpec => []RunsOnce
<1>1. ClientInv => RunsOnce
  <2>. SUFFICES ASSUME ClientInv, request = NoRequest PROVE handled \in runs.ok..runs.ok + runs.failed
    BY Zenon DEF RunsOnce
  <2>1. runs.ok \in Nat /\ runs.failed \in Nat /\ handled \in Nat
    BY Zenon DEF ClientInv, ClientTypes
  <2>2. Cardinality(StragglingRuns) \in Nat
    BY FS_Subset, FS_CardinalityType, Zenon DEF StragglingRuns, ClientInv, ClientTypes
  <2>. DEFINE c == Cardinality(StragglingRuns)
  <2>3. runs.ok <= handled /\ handled + c <= runs.ok + runs.failed
    BY <2>1, RequestFacts DEF ClientInv, RunsInv, CallInv
  <2>4. c \in Nat
    BY <2>2, Zenon
  <2>. HIDE DEF c
  <2>. QED  BY <2>1, <2>3, <2>4
<1>. QED  BY <1>1, ClientInvHolds, PTL
-----------------------------------------------------------------------------
(* Heartbeat.                                                               *)

(* Types, with the bounds that keep the ticker in step with the clock.      *)
BeatTypes ==
  /\ clock \in 0..MaxClock /\ mtime \in Int /\ -1 <= mtime /\ mtime <= clock
  /\ tick \in Int /\ -1 <= tick /\ tick <= clock
  /\ endedAt \in Int /\ 0 <= endedAt /\ endedAt <= clock
  /\ nextTick \in Int

(* The two flags.                                                           *)
Flags == beating \in BOOLEAN /\ missed \in BOOLEAN

(* The next tick is ahead, at most an interval away; Start has been ready   *)
(* for at most MaxDelay.                                                    *)
TickerInv ==
  beating => /\ nextTick # -1 => clock < nextTick /\ nextTick <= clock + Interval
             /\ nextTick = -1 => tick >= 0
             /\ tick >= 0 => clock - tick <= MaxDelay

(* A touch that worked is no older than the tick before the one that is     *)
(* due, but for the delay with which the ticker was made; what has ended    *)
(* has not touched the file since.                                          *)
TouchInv ==
  /\ beating /\ ~missed =>
       /\ mtime >= 0
       /\ nextTick = -1 => mtime >= tick
       /\ nextTick # -1 /\ tick < 0 => mtime >= nextTick - Interval - MaxDelay
       /\ nextTick # -1 /\ tick >= 0 => mtime >= tick - Interval - MaxDelay
  /\ ~beating => mtime <= endedAt

(* The inductive invariant of the heartbeat.                                *)
BeatInv == Flags /\ BeatTypes /\ TickerInv /\ TouchInv

(* The constants are numbers.                                               *)
LEMMA BeatConstants == Interval \in Nat /\ MaxDelay \in Nat /\ MaxClock \in Nat /\ Interval > 0
BY BeatAssumption, Zenon

(* The first state satisfies the invariant.                                 *)
LEMMA BeatInvInit == BeatInit => BeatInv
<1>. SUFFICES ASSUME BeatInit PROVE BeatInv
  BY Zenon
<1>1. Flags
  BY Zenon DEF BeatInit, Flags
<1>2. ~beating /\ clock = 0 /\ mtime = -1 /\ nextTick = 0 /\ tick = -1 /\ endedAt = 0
  BY Zenon DEF BeatInit
<1>3. BeatTypes /\ TickerInv /\ TouchInv
  BY <1>2, BeatConstants DEF BeatTypes, TickerInv, TouchInv
<1>. QED  BY <1>1, <1>3, Zenon DEF BeatInv

(* Every step of Start, of its process and of the clock keeps it.           *)
LEMMA BeatInvNext == BeatInv /\ [BeatNext]_beatVars => BeatInv'
<1>. SUFFICES ASSUME BeatInv, [BeatNext]_beatVars PROVE BeatInv'
  BY Zenon
<1>1. Flags'
  BY Zenon DEF BeatInv, Flags, BeatNext, Start, NewTicker, TouchAtTick, StartEnds, Pass, touch, beatVars
<1>2. BeatTypes /\ TickerInv /\ TouchInv
  BY Zenon DEF BeatInv
<1>3. CASE Start
  <2>1. /\ beating' /\ nextTick' = -1 /\ tick' = clock /\ clock' = clock /\ endedAt' = endedAt
        /\ (mtime' = clock \/ (missed' /\ mtime' = mtime))
    BY <1>3, Zenon DEF Start, touch
  <2>. QED  BY <1>2, <2>1, <1>1, BeatConstants DEF BeatInv, BeatTypes, TickerInv, TouchInv
<1>3a. CASE NewTicker
  <2>1. /\ beating /\ beating' /\ nextTick = -1 /\ nextTick' = clock + Interval /\ tick' = -1
        /\ clock' = clock /\ endedAt' = endedAt /\ mtime' = mtime /\ (missed' <=> missed)
    BY <1>3a, Zenon DEF NewTicker
  <2>. QED  BY <1>2, <2>1, <1>1, BeatConstants DEF BeatInv, BeatTypes, TickerInv, TouchInv
<1>4. CASE TouchAtTick
  <2>1. /\ beating /\ beating' /\ nextTick # -1 /\ nextTick' = nextTick /\ tick' = -1 /\ clock' = clock /\ endedAt' = endedAt
        /\ (mtime' = clock \/ (missed' /\ mtime' = mtime))
    BY <1>4, Zenon DEF TouchAtTick, touch
  <2>. QED  BY <1>2, <2>1, <1>1, BeatConstants DEF BeatInv, BeatTypes, TickerInv, TouchInv
<1>5. CASE StartEnds
  <2>1. /\ ~beating' /\ nextTick' = nextTick /\ tick' = -1 /\ clock' = clock /\ endedAt' = clock
        /\ mtime' = mtime
    BY <1>5, Zenon DEF StartEnds
  <2>. QED  BY <1>2, <2>1, <1>1, BeatConstants DEF BeatInv, BeatTypes, TickerInv, TouchInv
<1>6. CASE Pass
  <2>1. /\ (beating' <=> beating) /\ (missed' <=> missed) /\ mtime' = mtime /\ endedAt' = endedAt
        /\ clock < MaxClock /\ clock' = clock + 1 /\ (beating /\ tick >= 0 => clock - tick < MaxDelay)
        /\ \/ /\ beating /\ clock + 1 = nextTick /\ nextTick' = nextTick + Interval
              /\ tick' = IF tick < 0 THEN clock + 1 ELSE tick
           \/ (beating => clock + 1 # nextTick) /\ nextTick' = nextTick /\ tick' = tick
    BY <1>6, Zenon DEF Pass
  <2>. QED  BY <1>2, <2>1, <1>1, BeatConstants DEF BeatInv, BeatTypes, TickerInv, TouchInv
<1>7. CASE UNCHANGED beatVars
  BY <1>7, <1>1, <1>2, SMTT(30) DEF beatVars, BeatInv, BeatTypes, TickerInv, TouchInv
<1>. QED
  BY <1>3, <1>3a, <1>4, <1>5, <1>6, <1>7, Zenon DEF BeatNext

(* The invariant holds in every behaviour.                                  *)
LEMMA BeatInvHolds == BeatSpec => []BeatInv
BY BeatInvInit, BeatInvNext, PTL DEF BeatSpec

(* heartbeat.go: the heartbeat's state keeps its types, whatever crashes    *)
(* and restarts there are.                                                  *)
THEOREM BeatTypeCorrect == BeatSpec => []BeatTypeOK
<1>1. BeatInv => BeatTypeOK
  BY BeatConstants DEF BeatInv, Flags, BeatTypes, BeatTypeOK
<1>. QED  BY <1>1, BeatInvHolds, PTL

(* Start and SeenWithin: a service in Start whose last touch worked is seen *)
(* within an interval and two scheduling delays, for all of both.           *)
THEOREM AliveIsSeenHolds == BeatSpec => []AliveIsSeen
<1>1. BeatInv => AliveIsSeen
  BY BeatConstants DEF BeatInv, BeatTypes, TickerInv, TouchInv, AliveIsSeen, SeenWithin
<1>. QED  BY <1>1, BeatInvHolds, PTL

(* SeenWithin: a service that has ended is not seen within a duration       *)
(* shorter than the time since, although the file stays.                    *)
THEOREM DeadIsNoticedHolds == BeatSpec => []DeadIsNoticed
<1>1. BeatInv => DeadIsNoticed
  BY BeatConstants DEF BeatInv, BeatTypes, TouchInv, DeadIsNoticed, SeenWithin
<1>. QED  BY <1>1, BeatInvHolds, PTL

(* heartbeat.go: SeenWithin tells a live service from a dead one.           *)
THEOREM SeenIsAliveHolds == BeatSpec => []SeenIsAlive
BY AliveIsSeenHolds, DeadIsNoticedHolds, PTL DEF SeenIsAlive
-----------------------------------------------------------------------------
(* LokiHandler.                                                             *)

(* The types of attributes, of slices and of the arrays behind them, and of *)
(* handlers.                                                                *)
Attributes == [key : STRING, value : Nat \X Nat]
Cells == Attributes \cup STRING
Slices == [array : Nat, len : Nat]
Backings == [cap : Nat, cells : Seq(Cells)]
Handlers == [from : Nat, attrs : Slices, groups : Slices, wantAttrs : Seq(Cells), wantGroups : Seq(Cells)]

(* The cells in use of an array are within its capacity.                    *)
HeapOK(heap) == heap \in Seq(Backings) /\ \A n \in 1..Len(heap) : Len(heap[n].cells) <= heap[n].cap

(* A slice lies within the cells in use of its array.                       *)
SliceOK(s, heap) ==
  /\ s \in Slices /\ s.array <= Len(heap)
  /\ IF s.array = 0 THEN s.len = 0 ELSE s.len <= Len(heap[s.array].cells)

(* A slice stays within its array when arrays are added or grow.            *)
LEMMA SliceStays ==
  ASSUME NEW h1, HeapOK(h1), NEW h2, HeapOK(h2), NEW t, SliceOK(t, h1), Len(h1) <= Len(h2),
         t.array # 0 => (h2[t.array] = h1[t.array] \/ Len(h1[t.array].cells) <= Len(h2[t.array].cells))
  PROVE  SliceOK(t, h2)
<1>1. /\ t \in Slices /\ t.array \in Nat /\ t.len \in Nat /\ t.array <= Len(h1)
      /\ IF t.array = 0 THEN t.len = 0 ELSE t.len <= Len(h1[t.array].cells)
  BY Zenon DEF SliceOK, Slices
<1>2. h1 \in Seq(Backings) /\ h2 \in Seq(Backings) /\ Len(h1) \in Nat /\ Len(h2) \in Nat
  BY DEF HeapOK
<1>3. t.array <= Len(h2)
  BY <1>1, <1>2
<1>4. t.array # 0 => t.len <= Len(h2[t.array].cells)
  <2>. SUFFICES ASSUME t.array # 0 PROVE t.len <= Len(h2[t.array].cells)
    BY Zenon
  <2>1. t.array \in 1..Len(h1) /\ t.array \in 1..Len(h2)
    BY <1>1, <1>2, <1>3
  <2>2. h1[t.array] \in Backings /\ h2[t.array] \in Backings
    BY <1>2, <2>1
  <2>3. Len(h1[t.array].cells) \in Nat /\ Len(h2[t.array].cells) \in Nat
    BY <2>2, SMTT(30) DEF Backings
  <2>4. t.len <= Len(h1[t.array].cells)
    BY <1>1, Zenon
  <2>5. CASE h2[t.array] = h1[t.array]
    BY <2>4, <2>5, Zenon
  <2>6. CASE Len(h1[t.array].cells) <= Len(h2[t.array].cells)
    BY <1>1, <2>3, <2>4, <2>6, SMTT(30)
  <2>. QED  BY <2>5, <2>6, Zenon
<1>. QED  BY <1>1, <1>3, <1>4, Zenon DEF SliceOK

(* Sequences of one kind of elements.                                       *)
LEMMA SeqFacts ==
  ASSUME NEW K
  PROVE  /\ <<>> \in Seq(K) /\ \A c \in K : <<c>> \in Seq(K)
         /\ \A u, v \in Seq(K) : u \o v \in Seq(K) /\ Len(u \o v) = Len(u) + Len(v)
OBVIOUS

(* A function on the numbers up to n is a sequence.                         *)
LEMMA FunctionIsSeq == ASSUME NEW K, NEW n \in Nat, NEW u \in [1..n -> K] PROVE u \in Seq(K)
OBVIOUS

(* Sequences with the same elements are the same.                           *)
LEMMA SameSeq ==
  ASSUME NEW K, NEW s \in Seq(K), NEW t \in Seq(K), Len(s) = Len(t), \A i \in 1..Len(s) : s[i] = t[i]
  PROVE  s = t
OBVIOUS

(* A sequence with one element replaced.                                    *)
LEMMA ReplacedElement ==
  ASSUME NEW K, NEW s \in Seq(K), NEW i \in 1..Len(s), NEW e \in K
  PROVE  [s EXCEPT ![i] = e] \in Seq(K) /\ Len([s EXCEPT ![i] = e]) = Len(s)
OBVIOUS

(* The tail of a sequence from position m on.                               *)
LEMMA TailFacts ==
  ASSUME NEW K, NEW s \in Seq(K), NEW m \in Nat, m > 0
  PROVE  /\ SubSeq(s, m, Len(s)) \in Seq(K)
         /\ Len(SubSeq(s, m, Len(s))) = IF m <= Len(s) THEN Len(s) - m + 1 ELSE 0
         /\ \A i \in 1..Len(s) - m + 1 : SubSeq(s, m, Len(s))[i] = s[m + i - 1]
OBVIOUS

(* What a slice shows.                                                      *)
LEMMA ElemsOf ==
  ASSUME NEW heap, HeapOK(heap), NEW s, SliceOK(s, heap)
  PROVE  /\ Elems(s, heap) \in Seq(Cells) /\ Len(Elems(s, heap)) = s.len
         /\ \A i \in 1..s.len : s.array \in 1..Len(heap) /\ Elems(s, heap)[i] = heap[s.array].cells[i]
<1>0. s.array \in Nat /\ s.len \in Nat
  BY Zenon DEF SliceOK, Slices
<1>1. CASE s.array = 0
  <2>1. Elems(s, heap) = <<>> /\ s.len = 0
    BY <1>1, Zenon DEF Elems, SliceOK
  <2>. QED  BY <2>1
<1>2. CASE s.array # 0
  <2>. DEFINE c == heap[s.array].cells
  <2>0. s.array \in 1..Len(heap) /\ s.len <= Len(c)
    <3>1. Len(heap) \in Nat /\ s.array <= Len(heap) /\ s.len <= Len(c)
      BY <1>2 DEF SliceOK, HeapOK
    <3>. QED  BY <1>0, <1>2, <3>1
  <2>1. c \in Seq(Cells)
    <3>1. heap[s.array] \in Backings
      BY <2>0 DEF HeapOK
    <3>. QED  BY <3>1, Zenon DEF Backings
  <2>2. Elems(s, heap) = SubSeq(c, 1, s.len)
    BY <1>2, Zenon DEF Elems
  <2>. HIDE DEF c
  <2>3. \A i \in 1..s.len : c[i] \in Cells
    BY <1>0, <2>0, <2>1
  <2>4. /\ SubSeq(c, 1, s.len) \in Seq(Cells) /\ Len(SubSeq(c, 1, s.len)) = s.len
        /\ \A i \in 1..s.len : SubSeq(c, 1, s.len)[i] = c[i]
    BY <1>0, <2>0, <2>1, <2>3
  <2>. QED  BY <2>0, <2>2, <2>4, Zenon DEF c
<1>. QED  BY <1>1, <1>2, Zenon

(* What AppendTo leaves of every other slice, and what it makes of its own. *)
Appends(s, xs, a) ==
  /\ HeapOK(a.heap) /\ SliceOK(a.slice, a.heap) /\ a.slice.array # 0
  /\ a.slice.array = s.array \/ a.slice.array > Len(arrays)
  /\ a.slice.len = s.len + Len(xs)
  /\ Elems(a.slice, a.heap) = Elems(s, arrays) \o xs
  /\ \A t : SliceOK(t, arrays) =>
       /\ SliceOK(t, a.heap)
       /\ t.array # a.slice.array => Elems(t, a.heap) = Elems(t, arrays)
       /\ t.array = a.slice.array => \A i \in 1..t.len :
            Elems(t, a.heap)[i] = IF i <= a.slice.len THEN (Elems(s, arrays) \o xs)[i] ELSE Elems(t, arrays)[i]

(* A slice that is backed by the same cells shows the same.                 *)
LEMMA SameElems ==
  ASSUME NEW h1, HeapOK(h1), NEW h2, HeapOK(h2), NEW t, SliceOK(t, h1), SliceOK(t, h2),
         \A i \in 1..t.len : h2[t.array].cells[i] = h1[t.array].cells[i]
  PROVE  Elems(t, h2) = Elems(t, h1)
<1>0. t.len \in Nat
  BY Zenon DEF SliceOK, Slices
<1>1. Elems(t, h1) \in Seq(Cells) /\ Elems(t, h2) \in Seq(Cells) /\ Len(Elems(t, h1)) = t.len /\ Len(Elems(t, h2)) = t.len
  BY ElemsOf, Zenon
<1>2. \A i \in 1..t.len : Elems(t, h2)[i] = Elems(t, h1)[i]
  BY ElemsOf
<1>. QED  BY <1>0, <1>1, <1>2, SameSeq, Zenon

(* The receiver's array has no room: the elements go to a new one.          *)
LEMMA AppendMoves ==
  ASSUME HeapOK(arrays), NEW s, SliceOK(s, arrays), NEW xs \in Seq(Cells),
         ~(s.array # 0 /\ s.len + Len(xs) <= Cap(s))
  PROVE  Appends(s, xs, AppendTo(s, xs))
<1>. DEFINE need == s.len + Len(xs)
            filled == Elems(s, arrays) \o xs
            b == [cap |-> Grow(s, need), cells |-> filled]
            a == [slice |-> [array |-> Len(arrays) + 1, len |-> need], heap |-> Append(arrays, b)]
<1>0. s.len \in Nat /\ s.array \in Nat /\ Len(xs) \in Nat /\ need \in Nat /\ Len(arrays) \in Nat /\ s.array <= Len(arrays)
  BY DEF SliceOK, Slices, HeapOK
<1>1. filled \in Seq(Cells) /\ Len(filled) = need
  <2>1. Elems(s, arrays) \in Seq(Cells) /\ Len(Elems(s, arrays)) = s.len
    BY ElemsOf, Zenon
  <2>. QED  BY <2>1
<1>2. Cap(s) \in Nat
  <2>1. CASE s.array = 0
    BY <2>1, Zenon DEF Cap
  <2>2. CASE s.array # 0
    <3>1. arrays[s.array] \in Backings
      BY <1>0, <2>2 DEF HeapOK
    <3>. QED  BY <2>2, <3>1, Zenon DEF Cap, Backings
  <2>. QED  BY <2>1, <2>2, Zenon
<1>3. AppendTo(s, xs) = a
  BY Zenon DEF AppendTo
<1>. HIDE DEF filled, need
<1>4. Grow(s, need) \in Nat /\ need <= Grow(s, need)
  BY <1>0, <1>2 DEF Grow
<1>5. b \in Backings
  BY <1>1, <1>4, Zenon DEF Backings
<1>6. /\ a.heap \in Seq(Backings) /\ Len(a.heap) = Len(arrays) + 1 /\ a.heap[Len(arrays) + 1] = b
      /\ \A n \in 1..Len(arrays) : a.heap[n] = arrays[n]
  <2>1. arrays \in Seq(Backings)
    BY Zenon DEF HeapOK
  <2>. HIDE DEF b
  <2>. QED  BY <1>5, <2>1
<1>7. b.cells = filled /\ b.cap = Grow(s, need) /\ a.slice.array = Len(arrays) + 1 /\ a.slice.len = need /\ a.slice \in Slices
  BY <1>0 DEF Slices
<1>. HIDE DEF a, b
<1>8. HeapOK(a.heap)
  <2>1. ASSUME NEW n \in 1..Len(a.heap) PROVE Len(a.heap[n].cells) <= a.heap[n].cap
    <3>1. CASE n = Len(arrays) + 1
      BY <1>1, <1>4, <1>6, <1>7, <3>1, Zenon
    <3>2. CASE n \in 1..Len(arrays)
      BY <1>6, <3>2, Zenon DEF HeapOK
    <3>. QED  BY <1>0, <1>6, <3>1, <3>2, SMTT(30)
  <2>. QED  BY <1>6, <2>1, Zenon DEF HeapOK
<1>9. SliceOK(a.slice, a.heap) /\ a.slice.array # 0 /\ a.slice.array > Len(arrays)
  BY <1>0, <1>1, <1>6, <1>7, SMTT(30) DEF SliceOK
<1>10. Elems(a.slice, a.heap) = filled
  <2>1. Elems(a.slice, a.heap) \in Seq(Cells) /\ Len(Elems(a.slice, a.heap)) = need
    BY <1>7, <1>8, <1>9, ElemsOf, Zenon
  <2>2. \A i \in 1..need : Elems(a.slice, a.heap)[i] = filled[i]
    <3>. DEFINE t == a.slice
                h == a.heap
    <3>1. HeapOK(h) /\ SliceOK(t, h)
      BY <1>8, <1>9, Zenon
    <3>. HIDE DEF t, h
    <3>2. ASSUME NEW i \in 1..t.len PROVE Elems(t, h)[i] = h[t.array].cells[i]
      BY <3>1, ElemsOf, ZenonT(30)
    <3>. QED  BY <1>6, <1>7, <3>2, Zenon DEF t, h
  <2>. QED  BY <1>0, <1>1, <2>1, <2>2, SameSeq, Zenon
<1>11. ASSUME NEW t, SliceOK(t, arrays)
       PROVE  SliceOK(t, a.heap) /\ Elems(t, a.heap) = Elems(t, arrays) /\ t.array # a.slice.array
  <2>1. t.array \in Nat /\ t.array <= Len(arrays) /\ t.array # a.slice.array
    BY <1>0, <1>7, <1>11, SMTT(30) DEF SliceOK, Slices
  <2>2. t.array # 0 => a.heap[t.array] = arrays[t.array]
    BY <1>0, <1>6, <2>1
  <2>3. SliceOK(t, a.heap)
    <3>1. Len(arrays) <= Len(a.heap)
      BY <1>0, <1>6
    <3>. QED  BY <1>8, <1>11, <2>2, <3>1, SliceStays, Zenon
  <2>4. Elems(t, a.heap) = Elems(t, arrays)
    <3>1. CASE t.array = 0
      BY <3>1, Zenon DEF Elems
    <3>2. CASE t.array # 0
      BY <1>8, <1>11, <2>2, <2>3, <3>2, SameElems, Zenon
    <3>. QED  BY <3>1, <3>2, Zenon
  <2>. QED  BY <2>1, <2>3, <2>4, Zenon
<1>12. a.slice.len = s.len + Len(xs) /\ Elems(a.slice, a.heap) = Elems(s, arrays) \o xs
  BY <1>7, <1>10, Zenon DEF need, filled
<1>13. Appends(s, xs, a)
  BY <1>8, <1>9, <1>11, <1>12, Zenon DEF Appends
<1>. QED  BY <1>3, <1>13, Zenon

(* The receiver's array has room: the elements go behind its own, and over  *)
(* what another slice of that array may have there.                         *)
LEMMA AppendInPlace ==
  ASSUME HeapOK(arrays), NEW s, SliceOK(s, arrays), NEW xs \in Seq(Cells),
         s.array # 0, s.len + Len(xs) <= Cap(s)
  PROVE  Appends(s, xs, AppendTo(s, xs))
<1>. DEFINE need == s.len + Len(xs)
            own == Elems(s, arrays)
            filled == own \o xs
            n == s.array
            old == arrays[n].cells
            new == filled \o SubSeq(old, need + 1, Len(old))
            a == [slice |-> [s EXCEPT !.len = need], heap |-> [arrays EXCEPT ![n].cells = new]]
<1>0. s.len \in Nat /\ n \in 1..Len(arrays) /\ Len(xs) \in Nat /\ need \in Nat /\ Len(arrays) \in Nat /\ arrays \in Seq(Backings)
  BY SMTT(30) DEF SliceOK, Slices, HeapOK
<1>1. arrays[n] \in Backings /\ old \in Seq(Cells) /\ Len(old) <= arrays[n].cap /\ arrays[n].cap \in Nat
  <2>1. arrays[n] \in Backings
    BY <1>0
  <2>. QED  BY <1>0, <2>1, Zenon DEF HeapOK, Backings
<1>2. own \in Seq(Cells) /\ Len(own) = s.len
  BY ElemsOf, Zenon
<1>3. AppendTo(s, xs) = a
  BY Zenon DEF AppendTo
<1>4. need <= arrays[n].cap
  BY Zenon DEF Cap
<1>. HIDE DEF own
<1>5. filled \in Seq(Cells) /\ Len(filled) = need
  BY <1>2
<1>. HIDE DEF filled, need, old
<1>6. /\ new \in Seq(Cells) /\ Len(new) = (IF need < Len(old) THEN Len(old) ELSE need)
      /\ \A i \in 1..Len(new) : new[i] = IF i <= need THEN filled[i] ELSE old[i]
  <2>. DEFINE rest == SubSeq(old, need + 1, Len(old))
  <2>0. Len(old) \in Nat /\ need + 1 \in Nat /\ need + 1 > 0
    BY <1>0, <1>1
  <2>2. /\ rest \in Seq(Cells) /\ Len(rest) = (IF need + 1 <= Len(old) THEN Len(old) - (need + 1) + 1 ELSE 0)
        /\ \A i \in 1..Len(old) - (need + 1) + 1 : rest[i] = old[need + 1 + i - 1]
    BY <1>1, <2>0, TailFacts, Zenon
  <2>. HIDE DEF rest
  <2>3. /\ filled \o rest \in Seq(Cells) /\ Len(filled \o rest) = need + Len(rest)
        /\ \A i \in 1..need + Len(rest) : (filled \o rest)[i] = IF i <= need THEN filled[i] ELSE rest[i - need]
    BY <1>5, <2>2, ConcatFacts, ZenonT(30)
  <2>4. need + Len(rest) = IF need < Len(old) THEN Len(old) ELSE need
    BY <1>0, <2>0, <2>2
  <2>5. \A i \in 1..need + Len(rest) : ~(i <= need) => rest[i - need] = old[i]
    <3>. SUFFICES ASSUME NEW i \in 1..need + Len(rest), ~(i <= need) PROVE rest[i - need] = old[i]
      BY Zenon
    <3>1. need < Len(old) /\ i - need \in 1..Len(old) - (need + 1) + 1 /\ need + 1 + (i - need) - 1 = i
      BY <1>0, <2>0, <2>4
    <3>. QED  BY <2>2, <3>1, Zenon
  <2>6. new = filled \o rest
    BY Zenon DEF rest
  <2>. HIDE DEF new
  <2>. QED  BY <2>3, <2>4, <2>5, <2>6, ZenonT(30)
<1>. HIDE DEF new
<1>7. /\ a.heap \in Seq(Backings) /\ Len(a.heap) = Len(arrays) /\ a.heap[n].cells = new /\ a.heap[n].cap = arrays[n].cap
      /\ \A m \in 1..Len(arrays) : m # n => a.heap[m] = arrays[m]
  <2>1. a.heap = [arrays EXCEPT ![n] = [arrays[n] EXCEPT !.cells = new]]
    BY Zenon
  <2>2. [arrays[n] EXCEPT !.cells = new] \in Backings
    BY <1>1, <1>6, Zenon DEF Backings
  <2>3. /\ [arrays EXCEPT ![n] = [arrays[n] EXCEPT !.cells = new]] \in Seq(Backings)
        /\ Len([arrays EXCEPT ![n] = [arrays[n] EXCEPT !.cells = new]]) = Len(arrays)
    BY <1>0, <2>2, ReplacedElement
  <2>. QED  BY <1>0, <1>1, <2>1, <2>3, SMTT(30) DEF Backings
<1>8. a.slice \in Slices /\ a.slice.array = n /\ a.slice.len = need
  BY <1>0, Zenon DEF SliceOK, Slices
<1>. HIDE DEF a
<1>9. HeapOK(a.heap)
  <2>1. ASSUME NEW m \in 1..Len(a.heap) PROVE Len(a.heap[m].cells) <= a.heap[m].cap
    <3>1. CASE m = n
      BY <1>0, <1>1, <1>4, <1>6, <1>7, <3>1, Zenon
    <3>2. CASE m # n
      BY <1>7, <3>2, Zenon DEF HeapOK
    <3>. QED  BY <3>1, <3>2, Zenon
  <2>. QED  BY <1>7, <2>1, Zenon DEF HeapOK
<1>10. SliceOK(a.slice, a.heap) /\ a.slice.array # 0
  BY <1>0, <1>1, <1>6, <1>7, <1>8, SMTT(30) DEF SliceOK
<1>11. Elems(a.slice, a.heap) = filled
  <2>1. Elems(a.slice, a.heap) \in Seq(Cells) /\ Len(Elems(a.slice, a.heap)) = need
    BY <1>8, <1>9, <1>10, ElemsOf, Zenon
  <2>2. \A i \in 1..need : Elems(a.slice, a.heap)[i] = new[i]
    <3>. DEFINE t == a.slice
                h == a.heap
    <3>1. HeapOK(h) /\ SliceOK(t, h)
      BY <1>9, <1>10, Zenon
    <3>. HIDE DEF t, h
    <3>2. ASSUME NEW i \in 1..t.len PROVE Elems(t, h)[i] = h[t.array].cells[i]
      BY <3>1, ElemsOf, ZenonT(30)
    <3>. QED  BY <1>7, <1>8, <3>2, Zenon DEF t, h
  <2>3. ASSUME NEW i \in 1..need PROVE new[i] = filled[i]
    <3>1. Len(old) \in Nat /\ i <= need
      BY <1>0, <1>1
    <3>2. i \in 1..Len(new)
      BY <1>0, <1>6, <3>1, SMTT(30)
    <3>. QED  BY <1>6, <3>1, <3>2, Zenon
  <2>. QED  BY <1>0, <1>5, <2>1, <2>2, <2>3, SameSeq, ZenonT(30)
<1>12. ASSUME NEW t, SliceOK(t, arrays)
       PROVE  /\ SliceOK(t, a.heap)
              /\ t.array # n => Elems(t, a.heap) = Elems(t, arrays)
              /\ t.array = n => \A i \in 1..t.len :
                   Elems(t, a.heap)[i] = IF i <= need THEN filled[i] ELSE Elems(t, arrays)[i]
  <2>0. t.array \in Nat /\ t.len \in Nat /\ t.array <= Len(arrays)
    BY <1>12, Zenon DEF SliceOK, Slices
  <2>1. CASE t.array # n
    <3>1. t.array # 0 => a.heap[t.array] = arrays[t.array]
      BY <1>0, <1>7, <2>0, <2>1, SMTT(30)
    <3>2. SliceOK(t, a.heap)
      BY <1>7, <1>12, <3>1, Zenon DEF SliceOK
    <3>3. Elems(t, a.heap) = Elems(t, arrays)
      <4>1. CASE t.array = 0
        BY <4>1, Zenon DEF Elems
      <4>2. CASE t.array # 0
        BY <1>9, <1>12, <3>1, <3>2, <4>2, SameElems, Zenon
      <4>. QED  BY <4>1, <4>2, Zenon
    <3>. QED  BY <2>1, <3>2, <3>3, ZenonT(30)
  <2>2. CASE t.array = n
    <3>1. t.len <= Len(old) /\ Len(old) <= Len(new)
      <4>1. Len(old) \in Nat
        BY <1>1
      <4>2. Len(old) <= Len(new)
        BY <1>0, <1>6, <4>1, SMTT(30)
      <4>3. n # 0
        BY <1>0
      <4>. QED  BY <1>12, <2>2, <4>2, <4>3, Zenon DEF SliceOK, old
    <3>2. SliceOK(t, a.heap)
      <4>1. Len(arrays) <= Len(a.heap)
        BY <1>0, <1>7
      <4>2. Len(arrays[t.array].cells) <= Len(a.heap[t.array].cells)
        BY <1>7, <2>2, <3>1, Zenon DEF old
      <4>. QED  BY <1>9, <1>12, <4>1, <4>2, SliceStays, ZenonT(30)
    <3>3. ASSUME NEW i \in 1..t.len
          PROVE  Elems(t, a.heap)[i] = IF i <= need THEN filled[i] ELSE Elems(t, arrays)[i]
      <4>1. Elems(t, a.heap)[i] = new[i] /\ Elems(t, arrays)[i] = old[i]
        <5>1. Elems(t, a.heap)[i] = a.heap[t.array].cells[i]
          BY <1>9, <3>2, ElemsOf, ZenonT(30)
        <5>2. Elems(t, arrays)[i] = arrays[t.array].cells[i]
          BY <1>12, ElemsOf, Zenon
        <5>. QED  BY <1>7, <2>2, <5>1, <5>2, Zenon DEF old
      <4>2. i \in 1..Len(new)
        BY <1>1, <1>6, <2>0, <3>1
      <4>. QED  BY <1>6, <4>1, <4>2, Zenon
    <3>. QED  BY <2>2, <3>2, <3>3, Zenon
  <2>. QED  BY <2>1, <2>2, Zenon
<1>13. a.slice.len = s.len + Len(xs) /\ Elems(a.slice, a.heap) = Elems(s, arrays) \o xs
  BY <1>8, <1>11, Zenon DEF need, filled, own
<1>14. \A i : filled[i] = (Elems(s, arrays) \o xs)[i]
  BY Zenon DEF filled, own
<1>15. Appends(s, xs, a)
  BY <1>8, <1>9, <1>10, <1>12, <1>13, <1>14, Zenon DEF Appends
<1>. QED  BY <1>3, <1>15, Zenon

(* Append and AppendTo agree on what they leave.                            *)
LEMMA AppendToWorks ==
  ASSUME HeapOK(arrays), NEW s, SliceOK(s, arrays), NEW xs \in Seq(Cells)
  PROVE  Appends(s, xs, AppendTo(s, xs))
BY AppendMoves, AppendInPlace, Zenon
-----------------------------------------------------------------------------
(* One of the two slices that handlers have, for all of them: sl are the    *)
(* slices, wa what they are to show.                                        *)
Clash(sl, wa, n, h) == \E g \in 1..n : sl[g].array = sl[h].array /\ Branches(wa[g], wa[h])

(* Each of the slices sl of n handlers holds what it should, wa, unless     *)
(* another handler branches off in the same array.                          *)
Sound(sl, wa, n, heap) ==
  \A h \in 1..n :
    /\ SliceOK(sl[h], heap) /\ wa[h] \in Seq(Cells) /\ Len(wa[h]) = sl[h].len
    /\ Clash(sl, wa, n, h) \/ Elems(sl[h], heap) = wa[h]

(* g agrees with f on the first n handlers.                                 *)
Extends(f, g, n) == \A i \in 1..n : g[i] = f[i]

(* Two sequences of which neither branches off agree where both have cells. *)
LEMMA NoBranch ==
  ASSUME NEW u \in Seq(Cells), NEW v \in Seq(Cells), ~Branches(u, v)
  PROVE  \A i \in 1..Len(u) : i <= Len(v) => u[i] = v[i]
<1>. SUFFICES ASSUME NEW i \in 1..Len(u), i <= Len(v) PROVE u[i] = v[i]
  BY Zenon
<1>1. i \in 1..Len(v)
  OBVIOUS
<1>. QED  BY <1>1, Zenon DEF Branches, Begins

(* The slice that is appended to: whoever shares the array and wants        *)
(* something else there has a clash, everyone else keeps what they want.    *)
LEMMA AppendKeepsSound ==
  ASSUME HeapOK(arrays), NEW n \in Nat, NEW sl, NEW wa, Sound(sl, wa, n, arrays), NEW h \in 1..n,
         NEW xs \in Seq(Cells), NEW a, Appends(sl[h], xs, a),
         NEW sl2, NEW wa2, Extends(sl, sl2, n), Extends(wa, wa2, n),
         sl2[n + 1] = a.slice, wa2[n + 1] = Elems(sl[h], arrays) \o xs
  PROVE  Sound(sl2, wa2, n + 1, a.heap)
<1>. DEFINE own == Elems(sl[h], arrays) \o xs
<1>0. SliceOK(sl[h], arrays) /\ \A i \in 1..n : sl2[i] = sl[i] /\ wa2[i] = wa[i] /\ i \in 1..n + 1
  BY DEF Sound, Extends
<1>1. own \in Seq(Cells) /\ Len(own) = a.slice.len /\ SliceOK(a.slice, a.heap) /\ Elems(a.slice, a.heap) = own
      /\ HeapOK(a.heap) /\ a.slice.len = sl[h].len + Len(xs)
  <2>1. Elems(sl[h], arrays) \in Seq(Cells) /\ Len(Elems(sl[h], arrays)) = sl[h].len
    BY <1>0, ElemsOf
  <2>2. /\ SliceOK(a.slice, a.heap) /\ Elems(a.slice, a.heap) = own
        /\ HeapOK(a.heap) /\ a.slice.len = sl[h].len + Len(xs)
    BY Zenon DEF Appends
  <2>3. own \in Seq(Cells) /\ Len(own) = sl[h].len + Len(xs)
    <3>. DEFINE e == Elems(sl[h], arrays)
    <3>. HIDE DEF e
    <3>1. e \in Seq(Cells) /\ Len(e) = sl[h].len
      BY <2>1, Zenon DEF e
    <3>2. e \o xs \in Seq(Cells) /\ Len(e \o xs) = Len(e) + Len(xs)
      BY <3>1, SeqFacts, ZenonT(30)
    <3>. QED  BY <3>1, <3>2, Zenon DEF e
  <2>. QED  BY <2>2, <2>3, Zenon
<1>. HIDE DEF own
<1>2. n + 1 \in 1..n + 1 /\ \A i \in 1..n + 1 : i = n + 1 \/ i \in 1..n
  OBVIOUS
<1>3. ASSUME NEW g \in 1..n
      PROVE  /\ SliceOK(sl2[g], a.heap) /\ wa2[g] \in Seq(Cells) /\ Len(wa2[g]) = sl2[g].len
             /\ Clash(sl2, wa2, n + 1, g) \/ Elems(sl2[g], a.heap) = wa2[g]
  <2>0. /\ SliceOK(sl[g], arrays) /\ wa[g] \in Seq(Cells) /\ Len(wa[g]) = sl[g].len
        /\ Clash(sl, wa, n, g) \/ Elems(sl[g], arrays) = wa[g]
    BY Zenon DEF Sound
  <2>1. /\ SliceOK(sl[g], a.heap)
        /\ sl[g].array # a.slice.array => Elems(sl[g], a.heap) = Elems(sl[g], arrays)
        /\ sl[g].array = a.slice.array => \A i \in 1..sl[g].len :
             Elems(sl[g], a.heap)[i] = IF i <= a.slice.len THEN own[i] ELSE Elems(sl[g], arrays)[i]
    BY <2>0, Zenon DEF Appends, own
  <2>2. sl2[g] = sl[g] /\ wa2[g] = wa[g]
    BY <1>0, Zenon
  <2>3. SUFFICES ASSUME ~Clash(sl2, wa2, n + 1, g) PROVE Elems(sl[g], a.heap) = wa[g]
    BY <2>0, <2>1, <2>2, Zenon
  <2>4. ~Clash(sl, wa, n, g)
    BY <1>0, <2>2, <2>3, Zenon DEF Clash
  <2>5. Elems(sl[g], arrays) = wa[g]
    BY <2>0, <2>4, Zenon
  <2>6. CASE sl[g].array # a.slice.array
    BY <2>1, <2>5, <2>6, Zenon
  <2>7. CASE sl[g].array = a.slice.array
    <3>1. ~Branches(own, wa[g])
      BY <1>2, <2>2, <2>3, <2>7, Zenon DEF Clash, own
    <3>2. \A i \in 1..Len(own) : i <= Len(wa[g]) => own[i] = wa[g][i]
      BY <1>1, <2>0, <3>1, NoBranch, Zenon
    <3>3. sl[g].len \in Nat /\ a.slice.len \in Nat
      BY <1>1, <2>0, Zenon DEF SliceOK, Slices
    <3>4. ASSUME NEW i \in 1..sl[g].len PROVE Elems(sl[g], a.heap)[i] = wa[g][i]
      <4>1. CASE i <= a.slice.len
        <5>1. i \in 1..Len(own) /\ i <= Len(wa[g])
          BY <1>1, <2>0, <3>3, <4>1
        <5>2. own[i] = wa[g][i]
          BY <3>2, <5>1, Zenon
        <5>. QED  BY <2>1, <2>7, <4>1, <5>2, Zenon
      <4>2. CASE ~(i <= a.slice.len)
        BY <2>1, <2>5, <2>7, <4>2, Zenon
      <4>. QED  BY <4>1, <4>2, Zenon
    <3>5. Elems(sl[g], a.heap) \in Seq(Cells) /\ Len(Elems(sl[g], a.heap)) = sl[g].len
      BY <1>1, <2>1, ElemsOf, Zenon
    <3>. QED  BY <2>0, <3>4, <3>5, SameSeq, Zenon
  <2>. QED  BY <2>6, <2>7, Zenon
<1>4. /\ SliceOK(sl2[n + 1], a.heap) /\ wa2[n + 1] \in Seq(Cells) /\ Len(wa2[n + 1]) = sl2[n + 1].len
      /\ Elems(sl2[n + 1], a.heap) = wa2[n + 1]
  BY <1>1, Zenon DEF own
<1>. QED  BY <1>2, <1>3, <1>4, Zenon DEF Sound

(* The slice that is copied: its arrays are not touched, and the copy shows *)
(* what the handler it is copied from shows.                                *)
LEMMA CopyKeepsSound ==
  ASSUME HeapOK(arrays), NEW n \in Nat, NEW sl, NEW wa, Sound(sl, wa, n, arrays), NEW h \in 1..n,
         NEW t, NEW xs, NEW a, Appends(t, xs, a), \A g \in 1..n : sl[g].array # a.slice.array,
         NEW sl2, NEW wa2, Extends(sl, sl2, n), Extends(wa, wa2, n),
         sl2[n + 1] = sl[h], wa2[n + 1] = wa[h]
  PROVE  Sound(sl2, wa2, n + 1, a.heap)
<1>0. \A i \in 1..n : sl2[i] = sl[i] /\ wa2[i] = wa[i] /\ i \in 1..n + 1
  BY DEF Extends
<1>2. n + 1 \in 1..n + 1 /\ \A i \in 1..n + 1 : i = n + 1 \/ i \in 1..n
  OBVIOUS
<1>3. ASSUME NEW g \in 1..n
      PROVE  /\ SliceOK(sl[g], a.heap) /\ wa[g] \in Seq(Cells) /\ Len(wa[g]) = sl[g].len
             /\ Clash(sl, wa, n, g) \/ Elems(sl[g], a.heap) = wa[g]
  BY Zenon DEF Sound, Appends
<1>4. \A g \in 1..n : Clash(sl, wa, n, g) => Clash(sl2, wa2, n + 1, g)
  BY <1>0, Zenon DEF Clash
<1>5. Clash(sl, wa, n, h) => Clash(sl2, wa2, n + 1, n + 1)
  BY <1>0, Zenon DEF Clash
<1>6. ASSUME NEW g \in 1..n + 1
      PROVE  /\ SliceOK(sl2[g], a.heap) /\ wa2[g] \in Seq(Cells) /\ Len(wa2[g]) = sl2[g].len
             /\ Clash(sl2, wa2, n + 1, g) \/ Elems(sl2[g], a.heap) = wa2[g]
  <2>1. CASE g = n + 1
    BY <1>3, <1>5, <2>1, Zenon
  <2>2. CASE g \in 1..n
    BY <1>0, <1>3, <1>4, <2>2, Zenon
  <2>. QED  BY <1>2, <2>1, <2>2, Zenon
<1>. QED  BY <1>6, Zenon DEF Sound
-----------------------------------------------------------------------------
(* The invariant: handlers want what they show unless there is a clash, for *)
(* attributes and for groups, and no array holds both.                      *)
AttrSlices == [i \in DOMAIN handlers |-> handlers[i].attrs]
(* The slices of the handlers, and what they should hold, as functions.     *)
GroupSlices == [i \in DOMAIN handlers |-> handlers[i].groups]
WantedAttrs == [i \in DOMAIN handlers |-> handlers[i].wantAttrs]
WantedGroups == [i \in DOMAIN handlers |-> handlers[i].wantGroups]

(* The handlers and the heap: every slice is within its array, and holds    *)
(* what the handler was given.                                              *)
HandlersInv ==
  /\ HeapOK(arrays) /\ handlers \in Seq(Handlers)
  /\ Sound(AttrSlices, WantedAttrs, Len(handlers), arrays)
  /\ Sound(GroupSlices, WantedGroups, Len(handlers), arrays)
  /\ \A g, h \in 1..Len(handlers) : handlers[g].attrs.array = handlers[h].groups.array => handlers[g].attrs.array = 0

(* The first handler has no attributes and no groups.                       *)
LEMMA HandlersInit == LokiInit => HandlersInv
<1>. SUFFICES ASSUME LokiInit PROVE HandlersInv
  BY Zenon
<1>1. arrays = <<>> /\ handlers = <<Root>> /\ HeapOK(arrays)
  BY DEF LokiInit, HeapOK
<1>2. NilSlice \in Slices /\ SliceOK(NilSlice, arrays) /\ Elems(NilSlice, arrays) = <<>> /\ NilSlice.array = 0 /\ NilSlice.len = 0
  BY <1>1 DEF NilSlice, Slices, SliceOK, Elems
<1>3. Root \in Handlers /\ Root.attrs = NilSlice /\ Root.groups = NilSlice /\ Root.wantAttrs = <<>> /\ Root.wantGroups = <<>>
  <2>1. 0 \in Nat /\ <<>> \in Seq(Cells)
    OBVIOUS
  <2>. QED  BY <1>2, <2>1, Zenon DEF Root, Handlers
<1>4. handlers \in Seq(Handlers) /\ Len(handlers) = 1 /\ handlers[1] = Root /\ DOMAIN handlers = 1..1
  BY <1>1, <1>3
<1>5. \A h \in 1..1 : h = 1 /\ handlers[h] = Root
  BY <1>4
<1>6. \A h \in 1..1 : AttrSlices[h] = NilSlice /\ WantedAttrs[h] = <<>> /\ GroupSlices[h] = NilSlice /\ WantedGroups[h] = <<>>
  BY <1>3, <1>4, <1>5, Zenon DEF AttrSlices, WantedAttrs, GroupSlices, WantedGroups
<1>7. <<>> \in Seq(Cells) /\ Len(<<>>) = 0
  OBVIOUS
<1>8. Sound(AttrSlices, WantedAttrs, Len(handlers), arrays) /\ Sound(GroupSlices, WantedGroups, Len(handlers), arrays)
  BY <1>2, <1>4, <1>6, <1>7, Zenon DEF Sound
<1>. QED  BY <1>1, <1>2, <1>3, <1>4, <1>5, <1>8, Zenon DEF HandlersInv

(* A handler is added to the others.                                        *)
LEMMA HandlerAdded ==
  ASSUME handlers \in Seq(Handlers), NEW r \in Handlers, handlers' = Append(handlers, r)
  PROVE  /\ handlers' \in Seq(Handlers) /\ Len(handlers') = Len(handlers) + 1
         /\ handlers'[Len(handlers) + 1] = r /\ \A i \in 1..Len(handlers) : handlers'[i] = handlers[i]
         /\ Extends(AttrSlices, AttrSlices', Len(handlers)) /\ Extends(GroupSlices, GroupSlices', Len(handlers))
         /\ Extends(WantedAttrs, WantedAttrs', Len(handlers)) /\ Extends(WantedGroups, WantedGroups', Len(handlers))
         /\ AttrSlices'[Len(handlers) + 1] = r.attrs /\ GroupSlices'[Len(handlers) + 1] = r.groups
         /\ WantedAttrs'[Len(handlers) + 1] = r.wantAttrs /\ WantedGroups'[Len(handlers) + 1] = r.wantGroups
<1>. DEFINE n == Len(handlers)
<1>1. n \in Nat /\ DOMAIN handlers = 1..n
  OBVIOUS
<1>2. handlers' \in Seq(Handlers) /\ Len(handlers') = n + 1 /\ handlers'[n + 1] = r /\ \A i \in 1..n : handlers'[i] = handlers[i]
  OBVIOUS
<1>3. DOMAIN handlers' = 1..n + 1
  BY <1>2, SMTT(30)
<1>. HIDE DEF n
<1>4. n + 1 \in 1..n + 1 /\ 1..n \subseteq 1..n + 1
  BY <1>1
<1>5. Extends(AttrSlices, AttrSlices', n) /\ AttrSlices'[n + 1] = r.attrs
  BY <1>1, <1>2, <1>3, <1>4, Zenon DEF Extends, AttrSlices
<1>6. Extends(GroupSlices, GroupSlices', n) /\ GroupSlices'[n + 1] = r.groups
  BY <1>1, <1>2, <1>3, <1>4, Zenon DEF Extends, GroupSlices
<1>7. Extends(WantedAttrs, WantedAttrs', n) /\ WantedAttrs'[n + 1] = r.wantAttrs
  BY <1>1, <1>2, <1>3, <1>4, Zenon DEF Extends, WantedAttrs
<1>8. Extends(WantedGroups, WantedGroups', n) /\ WantedGroups'[n + 1] = r.wantGroups
  BY <1>1, <1>2, <1>3, <1>4, Zenon DEF Extends, WantedGroups
<1>. QED  BY <1>2, <1>5, <1>6, <1>7, <1>8, Zenon DEF n

(* WithAttrs appends to the attributes and leaves the groups alone.         *)
LEMMA WithAttrsNext ==
  ASSUME HandlersInv, NEW h \in 1..Len(handlers), NEW xs \in Seq(Cells), WithAttrs(h, xs)
  PROVE  HandlersInv'
<1>. DEFINE n == Len(handlers)
            s == handlers[h].attrs
            a == AppendTo(s, xs)
            w == Elems(s, arrays) \o xs
            r == [handlers[h] EXCEPT !.from = h, !.attrs = a.slice, !.wantAttrs = w]
<1>0. n \in Nat /\ DOMAIN handlers = 1..n /\ h \in Nat /\ HeapOK(arrays) /\ handlers[h] \in Handlers /\ handlers \in Seq(Handlers)
  BY DEF HandlersInv
<1>1. arrays' = a.heap /\ handlers' = Append(handlers, r)
  BY Zenon DEF WithAttrs
<1>2. Sound(AttrSlices, WantedAttrs, n, arrays) /\ Sound(GroupSlices, WantedGroups, n, arrays)
  BY Zenon DEF HandlersInv
<1>3. /\ \A g \in 1..n : AttrSlices[g] = handlers[g].attrs /\ GroupSlices[g] = handlers[g].groups
      /\ \A g \in 1..n : WantedAttrs[g] = handlers[g].wantAttrs /\ WantedGroups[g] = handlers[g].wantGroups
  BY <1>0, Zenon DEF AttrSlices, GroupSlices, WantedAttrs, WantedGroups
<1>4. \A g \in 1..n : SliceOK(handlers[g].attrs, arrays) /\ SliceOK(handlers[g].groups, arrays)
  BY <1>2, <1>3, Zenon DEF Sound
<1>5. Appends(s, xs, a)
  BY <1>0, <1>4, AppendToWorks, Zenon
<1>6. w \in Seq(Cells)
  <2>1. Elems(s, arrays) \in Seq(Cells)
    BY <1>0, <1>4, ElemsOf, Zenon
  <2>. QED  BY <2>1
<1>. HIDE DEF a, w
<1>7. r \in Handlers /\ r.attrs = a.slice /\ r.wantAttrs = w /\ r.groups = handlers[h].groups /\ r.wantGroups = handlers[h].wantGroups
  <2>1. a.slice \in Slices
    BY <1>5, Zenon DEF Appends, SliceOK
  <2>. QED  BY <1>0, <1>6, <2>1, Zenon DEF Handlers
<1>. HIDE DEF r, s
<1>8. /\ handlers' \in Seq(Handlers) /\ Len(handlers') = n + 1 /\ handlers'[n + 1] = r
      /\ \A i \in 1..n : handlers'[i] = handlers[i]
      /\ Extends(AttrSlices, AttrSlices', n) /\ Extends(GroupSlices, GroupSlices', n)
      /\ Extends(WantedAttrs, WantedAttrs', n) /\ Extends(WantedGroups, WantedGroups', n)
      /\ AttrSlices'[n + 1] = a.slice /\ GroupSlices'[n + 1] = handlers[h].groups
      /\ WantedAttrs'[n + 1] = w /\ WantedGroups'[n + 1] = handlers[h].wantGroups
  BY <1>0, <1>1, <1>7, HandlerAdded, ZenonT(30)
<1>9. \A g \in 1..n : handlers[g].groups.array # a.slice.array
  <2>. SUFFICES ASSUME NEW g \in 1..n PROVE handlers[g].groups.array # a.slice.array
    BY Zenon
  <2>1. a.slice.array # 0 /\ (a.slice.array = s.array \/ a.slice.array > Len(arrays))
    BY <1>5, Zenon DEF Appends
  <2>2. handlers[g].groups.array \in Nat /\ handlers[g].groups.array <= Len(arrays) /\ Len(arrays) \in Nat
    BY <1>0, <1>4 DEF SliceOK, Slices, HeapOK
  <2>3. a.slice.array \in Nat
    BY <1>5, Zenon DEF Appends, SliceOK, Slices
  <2>4. s.array = handlers[g].groups.array => s.array = 0
    BY Zenon DEF HandlersInv, s
  <2>. QED  BY <2>1, <2>2, <2>3, <2>4, SMTT(30)
<1>. HIDE DEF n
<1>10. Sound(AttrSlices', WantedAttrs', n + 1, a.heap)
  <2>1. AttrSlices[h] = s /\ h \in 1..n
    BY <1>3, Zenon DEF s, n
  <2>2. Appends(AttrSlices[h], xs, a) /\ WantedAttrs'[n + 1] = Elems(AttrSlices[h], arrays) \o xs
    BY <1>5, <1>8, <2>1, Zenon DEF w
  <2>. QED  BY <1>0, <1>2, <1>8, <2>1, <2>2, AppendKeepsSound, Zenon
<1>11. Sound(GroupSlices', WantedGroups', n + 1, a.heap)
  <2>1. h \in 1..n /\ GroupSlices'[n + 1] = GroupSlices[h] /\ WantedGroups'[n + 1] = WantedGroups[h]
    BY <1>3, <1>8, Zenon DEF n
  <2>2. \A g \in 1..n : GroupSlices[g].array # a.slice.array
    BY <1>3, <1>9, Zenon
  <2>. QED  BY <1>0, <1>2, <1>5, <1>8, <2>1, <2>2, CopyKeepsSound, ZenonT(30)
<1>12. ASSUME NEW g \in 1..n + 1, NEW k \in 1..n + 1, handlers'[g].attrs.array = handlers'[k].groups.array
       PROVE  handlers'[g].attrs.array = 0
  <2>0. h \in 1..n /\ \A i \in 1..n + 1 : i = n + 1 \/ i \in 1..n
    BY <1>0 DEF n
  <2>1. PICK m \in 1..n : handlers'[k].groups = handlers[m].groups
    BY <1>7, <1>8, <2>0, Zenon
  <2>2. CASE g \in 1..n
    BY <1>8, <1>12, <2>1, <2>2, Zenon DEF HandlersInv, n
  <2>3. CASE g = n + 1
    BY <1>7, <1>8, <1>9, <1>12, <2>1, <2>3, ZenonT(30)
  <2>. QED  BY <2>0, <2>2, <2>3, Zenon
<1>13. HeapOK(a.heap)
  BY <1>5, Zenon DEF Appends
<1>14. HeapOK(arrays') /\ Sound(AttrSlices', WantedAttrs', Len(handlers'), arrays') /\ Sound(GroupSlices', WantedGroups', Len(handlers'), arrays')
  BY <1>1, <1>8, <1>10, <1>11, <1>13, ZenonT(30)
<1>. QED  BY <1>8, <1>12, <1>14, Zenon DEF HandlersInv
(* WithGroup appends to the groups and leaves the attributes alone.         *)
LEMMA WithGroupNext ==
  ASSUME HandlersInv, NEW h \in 1..Len(handlers), NEW name \in STRING, WithGroup(h, name)
  PROVE  HandlersInv'
<1>. DEFINE n == Len(handlers)
            xs == <<name>>
            s == handlers[h].groups
            a == AppendTo(s, xs)
            w == Elems(s, arrays) \o xs
            r == [handlers[h] EXCEPT !.from = h, !.groups = a.slice, !.wantGroups = w]
<1>a. xs \in Seq(Cells)
  <2>1. name \in Cells
    BY Zenon DEF Cells
  <2>. QED  BY <2>1, SeqFacts, Zenon
<1>0. n \in Nat /\ DOMAIN handlers = 1..n /\ h \in Nat /\ HeapOK(arrays) /\ handlers[h] \in Handlers /\ handlers \in Seq(Handlers)
  BY DEF HandlersInv
<1>1. arrays' = a.heap /\ handlers' = Append(handlers, r)
  BY Zenon DEF WithGroup
<1>2. Sound(AttrSlices, WantedAttrs, n, arrays) /\ Sound(GroupSlices, WantedGroups, n, arrays)
  BY Zenon DEF HandlersInv
<1>3. /\ \A g \in 1..n : AttrSlices[g] = handlers[g].attrs /\ GroupSlices[g] = handlers[g].groups
      /\ \A g \in 1..n : WantedAttrs[g] = handlers[g].wantAttrs /\ WantedGroups[g] = handlers[g].wantGroups
  BY <1>0, Zenon DEF AttrSlices, GroupSlices, WantedAttrs, WantedGroups
<1>4. \A g \in 1..n : SliceOK(handlers[g].attrs, arrays) /\ SliceOK(handlers[g].groups, arrays)
  BY <1>2, <1>3, Zenon DEF Sound
<1>5. Appends(s, xs, a)
  BY <1>0, <1>a, <1>4, AppendToWorks, Zenon
<1>6. w \in Seq(Cells)
  <2>1. Elems(s, arrays) \in Seq(Cells)
    BY <1>0, <1>4, ElemsOf, Zenon
  <2>. QED  BY <1>a, <2>1
<1>. HIDE DEF a, w, xs
<1>7. r \in Handlers /\ r.groups = a.slice /\ r.wantGroups = w /\ r.attrs = handlers[h].attrs /\ r.wantAttrs = handlers[h].wantAttrs
  <2>1. a.slice \in Slices
    BY <1>5, Zenon DEF Appends, SliceOK
  <2>. QED  BY <1>0, <1>6, <2>1, Zenon DEF Handlers
<1>. HIDE DEF r, s
<1>8. /\ handlers' \in Seq(Handlers) /\ Len(handlers') = n + 1 /\ handlers'[n + 1] = r
      /\ \A i \in 1..n : handlers'[i] = handlers[i]
      /\ Extends(AttrSlices, AttrSlices', n) /\ Extends(GroupSlices, GroupSlices', n)
      /\ Extends(WantedAttrs, WantedAttrs', n) /\ Extends(WantedGroups, WantedGroups', n)
      /\ GroupSlices'[n + 1] = a.slice /\ AttrSlices'[n + 1] = handlers[h].attrs
      /\ WantedGroups'[n + 1] = w /\ WantedAttrs'[n + 1] = handlers[h].wantAttrs
  BY <1>0, <1>1, <1>7, HandlerAdded, ZenonT(30)
<1>9. \A g \in 1..n : handlers[g].attrs.array # a.slice.array
  <2>. SUFFICES ASSUME NEW g \in 1..n PROVE handlers[g].attrs.array # a.slice.array
    BY Zenon
  <2>1. a.slice.array # 0 /\ (a.slice.array = s.array \/ a.slice.array > Len(arrays))
    BY <1>5, ZenonT(30) DEF Appends
  <2>2. handlers[g].attrs.array \in Nat /\ handlers[g].attrs.array <= Len(arrays) /\ Len(arrays) \in Nat
    BY <1>0, <1>4 DEF SliceOK, Slices, HeapOK
  <2>3. a.slice.array \in Nat
    BY <1>5, Zenon DEF Appends, SliceOK, Slices
  <2>4. handlers[g].attrs.array = s.array => s.array = 0
    BY Zenon DEF HandlersInv, s
  <2>. QED  BY <2>1, <2>2, <2>3, <2>4, SMTT(30)
<1>. HIDE DEF n
<1>10. Sound(GroupSlices', WantedGroups', n + 1, a.heap)
  <2>1. GroupSlices[h] = s /\ h \in 1..n
    BY <1>3, Zenon DEF s, n
  <2>2. Appends(GroupSlices[h], xs, a) /\ WantedGroups'[n + 1] = Elems(GroupSlices[h], arrays) \o xs
    BY <1>5, <1>8, <2>1, Zenon DEF w
  <2>. QED  BY <1>0, <1>a, <1>2, <1>8, <2>1, <2>2, AppendKeepsSound, ZenonT(30)
<1>11. Sound(AttrSlices', WantedAttrs', n + 1, a.heap)
  <2>1. h \in 1..n /\ AttrSlices'[n + 1] = AttrSlices[h] /\ WantedAttrs'[n + 1] = WantedAttrs[h]
    BY <1>3, <1>8, Zenon DEF n
  <2>2. \A g \in 1..n : AttrSlices[g].array # a.slice.array
    BY <1>3, <1>9, Zenon
  <2>. QED  BY <1>0, <1>2, <1>5, <1>8, <2>1, <2>2, CopyKeepsSound, ZenonT(30)
<1>12. ASSUME NEW g \in 1..n + 1, NEW k \in 1..n + 1, handlers'[g].attrs.array = handlers'[k].groups.array
       PROVE  handlers'[g].attrs.array = 0
  <2>0. h \in 1..n /\ \A i \in 1..n + 1 : i = n + 1 \/ i \in 1..n
    BY <1>0 DEF n
  <2>1. PICK m \in 1..n : handlers'[g].attrs = handlers[m].attrs
    BY <1>7, <1>8, <2>0, Zenon
  <2>2. CASE k \in 1..n
    BY <1>8, <1>12, <2>1, <2>2, Zenon DEF HandlersInv, n
  <2>3. CASE k = n + 1
    BY <1>7, <1>8, <1>9, <1>12, <2>1, <2>3, ZenonT(30)
  <2>. QED  BY <2>0, <2>2, <2>3, ZenonT(30)
<1>13. HeapOK(a.heap)
  BY <1>5, Zenon DEF Appends
<1>14. HeapOK(arrays') /\ Sound(AttrSlices', WantedAttrs', Len(handlers'), arrays') /\ Sound(GroupSlices', WantedGroups', Len(handlers'), arrays')
  BY <1>1, <1>8, <1>10, <1>11, <1>13, Zenon
<1>. QED  BY <1>8, <1>12, <1>14, Zenon DEF HandlersInv

(* The attributes of a record and of a WithAttrs call are cells.            *)
LEMMA AttrsAreCells ==
  ASSUME NEW keys \in AttrKeys, NEW n \in Nat PROVE Attrs(keys, n) \in Seq(Cells)
<1>1. keys \in Seq(STRING) /\ DOMAIN keys = 1..Len(keys) /\ Len(keys) \in Nat
  BY LokiAssumption
<1>2. ASSUME NEW i \in 1..Len(keys) PROVE [key |-> keys[i], value |-> <<n, i>>] \in Cells
  <2>1. keys[i] \in STRING /\ i \in Nat
    BY <1>1
  <2>. QED  BY <2>1, Zenon DEF Cells, Attributes
<1>. QED  BY <1>1, <1>2 DEF Attrs

(* Every step keeps the handlers sound.                                     *)
LEMMA HandlersNext == ASSUME HandlersInv, [LokiNext]_lokiVars PROVE HandlersInv'
<1>1. CASE UNCHANGED <<arrays, handlers>>
  BY <1>1, Zenon DEF HandlersInv, AttrSlices, GroupSlices, WantedAttrs, WantedGroups
<1>2. ASSUME NEW keys \in AttrKeys, NEW h \in DOMAIN handlers, WithAttrs(h, Attrs(keys, Len(handlers) + 1))
      PROVE  HandlersInv'
  <2>1. DOMAIN handlers = 1..Len(handlers) /\ Len(handlers) + 1 \in Nat
    BY DEF HandlersInv
  <2>2. Attrs(keys, Len(handlers) + 1) \in Seq(Cells)
    BY <2>1, AttrsAreCells, Zenon
  <2>. QED  BY <1>2, <2>1, <2>2, WithAttrsNext, Zenon
<1>3. ASSUME NEW h \in DOMAIN handlers, NEW name \in Groups, WithGroup(h, name) PROVE HandlersInv'
  <2>1. DOMAIN handlers = 1..Len(handlers) /\ name \in STRING
    BY LokiAssumption DEF HandlersInv
  <2>. QED  BY <1>3, <2>1, WithGroupNext, Zenon
<1>. QED  BY <1>1, <1>2, <1>3, Zenon DEF LokiNext, lokiVars, Forget, Handle, PushLog

(* The handlers are sound in every reachable state.                         *)
LEMMA HandlersAlways == LokiSpec => []HandlersInv
BY HandlersInit, HandlersNext, PTL DEF LokiSpec

(* A clash of one of the two slices is what the model calls a fork.         *)
LEMMA ForksAreClashes ==
  ASSUME HandlersInv, NEW h \in DOMAIN handlers
  PROVE  /\ Forked(h) <=> \/ Clash(AttrSlices, WantedAttrs, Len(handlers), h)
                          \/ Clash(GroupSlices, WantedGroups, Len(handlers), h)
         /\ ~Forked(h) => Sees(h) = Wants(h)
<1>1. DOMAIN handlers = 1..Len(handlers)
  BY DEF HandlersInv
<1>2. Forked(h) <=> \/ Clash(AttrSlices, WantedAttrs, Len(handlers), h)
                    \/ Clash(GroupSlices, WantedGroups, Len(handlers), h)
  BY <1>1, Zenon DEF Forked, Clash, AttrSlices, GroupSlices, WantedAttrs, WantedGroups
<1>3. /\ Clash(AttrSlices, WantedAttrs, Len(handlers), h) \/ Elems(AttrSlices[h], arrays) = WantedAttrs[h]
      /\ Clash(GroupSlices, WantedGroups, Len(handlers), h) \/ Elems(GroupSlices[h], arrays) = WantedGroups[h]
  BY <1>1, Zenon DEF HandlersInv, Sound
<1>4. /\ AttrSlices[h] = handlers[h].attrs /\ GroupSlices[h] = handlers[h].groups
      /\ WantedAttrs[h] = handlers[h].wantAttrs /\ WantedGroups[h] = handlers[h].wantGroups
  BY Zenon DEF AttrSlices, GroupSlices, WantedAttrs, WantedGroups
<1>. QED  BY <1>2, <1>3, <1>4, Zenon DEF Sees, Wants

(* Types of the handlers: no slice is longer than its array.                *)
THEOREM LokiTypeCorrect == LokiSpec => []LokiTypeOK
<1>1. HandlersInv => LokiTypeOK
  <2>. SUFFICES ASSUME HandlersInv PROVE LokiTypeOK
    BY Zenon
  <2>1. ASSUME NEW n \in DOMAIN arrays PROVE arrays[n].cap \in Nat /\ Len(arrays[n].cells) <= arrays[n].cap
    <3>1. n \in 1..Len(arrays) /\ arrays[n] \in Backings
      BY DEF HandlersInv, HeapOK
    <3>. QED  BY <3>1, Zenon DEF HandlersInv, HeapOK, Backings
  <2>2. ASSUME NEW h \in DOMAIN handlers, NEW s \in {handlers[h].attrs, handlers[h].groups}
        PROVE  s.array \in 0..Len(arrays) /\ s.len <= Len(Elems(s, arrays))
    <3>1. h \in 1..Len(handlers) /\ HeapOK(arrays)
      BY DEF HandlersInv
    <3>2. SliceOK(handlers[h].attrs, arrays) /\ SliceOK(handlers[h].groups, arrays)
      <4>1. SliceOK(AttrSlices[h], arrays) /\ SliceOK(GroupSlices[h], arrays)
        BY <3>1, Zenon DEF HandlersInv, Sound
      <4>. QED  BY <4>1, Zenon DEF AttrSlices, GroupSlices
    <3>3. SliceOK(s, arrays) /\ Len(Elems(s, arrays)) = s.len
      BY <3>1, <3>2, ElemsOf, Zenon
    <3>4. s.array \in Nat /\ s.len \in Nat /\ s.array <= Len(arrays) /\ Len(arrays) \in Nat
      BY <3>1, <3>3, SMTT(30) DEF SliceOK, Slices, HeapOK
    <3>. QED  BY <3>3, <3>4, SMTT(30)
  <2>. QED  BY <2>1, <2>2, Zenon DEF LokiTypeOK
<1>. QED  BY <1>1, HandlersAlways, PTL

(* WithAttrs and WithGroup append to the receiver's slices without copying: *)
(* a handler keeps what it was derived with unless another was derived      *)
(* differently out of the same backing array.                               *)
THEOREM OnlyForksClashHolds == LokiSpec => []OnlyForksClash
<1>1. HandlersInv => OnlyForksClash
  BY ForksAreClashes, Zenon DEF OnlyForksClash
<1>. QED  BY <1>1, HandlersAlways, PTL
-----------------------------------------------------------------------------
(* Attributes and groups do not mix: what a handler shows of each has the   *)
(* type of its kind, even where it was overwritten.                         *)
KindsInv ==
  \A h \in 1..Len(handlers) :
    /\ Elems(handlers[h].attrs, arrays) \in Seq(Attributes) /\ handlers[h].wantAttrs \in Seq(Attributes)
    /\ Elems(handlers[h].groups, arrays) \in Seq(STRING) /\ handlers[h].wantGroups \in Seq(STRING)

(* What others see of an array that was appended to has the type of what    *)
(* they saw and of what was appended.                                       *)
LEMMA AppendKeepsKind ==
  ASSUME HeapOK(arrays), NEW s, NEW xs, NEW a, Appends(s, xs, a), NEW K,
         Elems(s, arrays) \o xs \in Seq(K), Len(Elems(s, arrays) \o xs) = a.slice.len,
         NEW t, SliceOK(t, arrays), Elems(t, arrays) \in Seq(K)
  PROVE  Elems(t, a.heap) \in Seq(K)
<1>1. CASE t.array # a.slice.array
  BY <1>1, Zenon DEF Appends
<1>2. CASE t.array = a.slice.array
  <2>. DEFINE own == Elems(s, arrays) \o xs
              u == Elems(t, a.heap)
              v == Elems(t, arrays)
  <2>1. u \in Seq(Cells) /\ Len(u) = t.len /\ v \in Seq(K) /\ Len(v) = t.len /\ t.len \in Nat
    BY ElemsOf, Zenon DEF Appends, SliceOK, Slices
  <2>2. \A i \in 1..t.len : u[i] = IF i <= a.slice.len THEN own[i] ELSE v[i]
    BY <1>2, Zenon DEF Appends
  <2>3. own \in Seq(K) /\ Len(own) = a.slice.len
    BY Zenon
  <2>. HIDE DEF own, u, v
  <2>4. \A i \in 1..t.len : u[i] \in K
    <3>. SUFFICES ASSUME NEW i \in 1..t.len PROVE u[i] \in K
      BY Zenon
    <3>1. CASE i <= a.slice.len
      BY <2>1, <2>2, <2>3, <3>1, SMTT(30)
    <3>2. CASE ~(i <= a.slice.len)
      BY <2>1, <2>2, <3>2, SMTT(30)
    <3>. QED  BY <3>1, <3>2, Zenon
  <2>5. DOMAIN u = 1..t.len /\ u = [i \in 1..t.len |-> u[i]]
    BY <2>1
  <2>6. u \in [1..t.len -> K]
    BY <2>4, <2>5, Zenon
  <2>7. u \in Seq(K)
    BY <2>1, <2>6, FunctionIsSeq, Zenon
  <2>. QED  BY <2>7, Zenon DEF u
<1>. QED  BY <1>1, <1>2, Zenon

(* The first handler shows nothing.                                         *)
LEMMA KindsInit == LokiInit => KindsInv
<1>. SUFFICES ASSUME LokiInit PROVE KindsInv
  BY Zenon
<1>1. handlers = <<Root>> /\ Len(handlers) = 1 /\ handlers[1] = Root
  BY Zenon DEF LokiInit
<1>2. /\ Root.attrs = NilSlice /\ Root.groups = NilSlice /\ Root.wantAttrs = <<>> /\ Root.wantGroups = <<>>
      /\ Elems(NilSlice, arrays) = <<>>
  BY Zenon DEF Root, NilSlice, Elems
<1>3. <<>> \in Seq(Attributes) /\ <<>> \in Seq(STRING)
  BY SeqFacts, Zenon
<1>4. ASSUME NEW h \in 1..Len(handlers)
      PROVE  /\ Elems(handlers[h].attrs, arrays) \in Seq(Attributes) /\ handlers[h].wantAttrs \in Seq(Attributes)
             /\ Elems(handlers[h].groups, arrays) \in Seq(STRING) /\ handlers[h].wantGroups \in Seq(STRING)
  <2>1. h = 1
    BY <1>1, SMTT(30)
  <2>. QED  BY <1>1, <1>2, <1>3, <2>1, Zenon
<1>. QED  BY <1>4, Zenon DEF KindsInv

(* The attributes of a record and of a WithAttrs call are attributes.       *)
LEMMA AttrsAreAttributes ==
  ASSUME NEW keys \in AttrKeys, NEW n \in Nat PROVE Attrs(keys, n) \in Seq(Attributes)
<1>1. keys \in Seq(STRING) /\ DOMAIN keys = 1..Len(keys) /\ Len(keys) \in Nat
  BY LokiAssumption
<1>2. ASSUME NEW i \in 1..Len(keys) PROVE [key |-> keys[i], value |-> <<n, i>>] \in Attributes
  <2>1. keys[i] \in STRING /\ i \in Nat
    BY <1>1
  <2>. QED  BY <2>1, Zenon DEF Attributes
<1>. QED  BY <1>1, <1>2 DEF Attrs

(* A step that derives a handler keeps the kinds apart: the slice that is   *)
(* appended to has one kind, and its array is in no slice of the other.     *)
LEMMA KindsNext == ASSUME HandlersInv, KindsInv, [LokiNext]_lokiVars PROVE KindsInv'
<1>. DEFINE n == Len(handlers)
<1>0. n \in Nat /\ DOMAIN handlers = 1..n /\ HeapOK(arrays) /\ handlers \in Seq(Handlers)
  BY DEF HandlersInv
<1>1. \A g \in 1..n : SliceOK(handlers[g].attrs, arrays) /\ SliceOK(handlers[g].groups, arrays)
  <2>. SUFFICES ASSUME NEW g \in 1..n PROVE SliceOK(handlers[g].attrs, arrays) /\ SliceOK(handlers[g].groups, arrays)
    BY Zenon
  <2>1. SliceOK(AttrSlices[g], arrays) /\ SliceOK(GroupSlices[g], arrays)
    BY Zenon DEF HandlersInv, Sound
  <2>. QED  BY <1>0, <2>1, Zenon DEF AttrSlices, GroupSlices
<1>2. CASE UNCHANGED <<arrays, handlers>>
  BY <1>2, Zenon DEF KindsInv
<1>3. ASSUME NEW keys \in AttrKeys, NEW h \in 1..n, WithAttrs(h, Attrs(keys, n + 1)) PROVE KindsInv'
  <2>. DEFINE xs == Attrs(keys, n + 1)
              s == handlers[h].attrs
              a == AppendTo(s, xs)
              w == Elems(s, arrays) \o xs
              r == [handlers[h] EXCEPT !.from = h, !.attrs = a.slice, !.wantAttrs = w]
  <2>1. arrays' = a.heap /\ handlers' = Append(handlers, r)
    BY <1>3, Zenon DEF WithAttrs
  <2>2. xs \in Seq(Attributes) /\ xs \in Seq(Cells)
    <3>1. n + 1 \in Nat
      BY <1>0
    <3>. QED  BY <3>1, AttrsAreAttributes, AttrsAreCells, Zenon
  <2>. HIDE DEF xs
  <2>3. Appends(s, xs, a)
    BY <1>0, <1>1, <2>2, AppendToWorks, Zenon
  <2>4. Elems(s, arrays) \in Seq(Attributes) /\ Len(Elems(s, arrays)) = s.len
    BY <1>0, <1>1, ElemsOf, Zenon DEF KindsInv
  <2>5. w \in Seq(Attributes) /\ Len(w) = a.slice.len /\ Elems(a.slice, a.heap) = w
    <3>1. a.slice.len = s.len + Len(xs) /\ Elems(a.slice, a.heap) = w
      BY <2>3, Zenon DEF Appends
    <3>2. w \in Seq(Attributes) /\ Len(w) = s.len + Len(xs)
      <4>. DEFINE e == Elems(s, arrays)
      <4>1. e \in Seq(Attributes) /\ xs \in Seq(Attributes) /\ Len(e) = s.len
        BY <2>2, <2>4, Zenon
      <4>. HIDE DEF e
      <4>2. e \o xs \in Seq(Attributes) /\ Len(e \o xs) = Len(e) + Len(xs)
        BY <4>1, SeqFacts, Zenon
      <4>. QED  BY <4>1, <4>2, Zenon DEF e
    <3>. QED  BY <3>1, <3>2, Zenon
  <2>. HIDE DEF a, w
  <2>6. r.attrs = a.slice /\ r.wantAttrs = w /\ r.groups = handlers[h].groups /\ r.wantGroups = handlers[h].wantGroups
    BY <1>0 DEF Handlers
  <2>. HIDE DEF r
  <2>7. Len(handlers') = n + 1 /\ handlers'[n + 1] = r /\ \A i \in 1..n : handlers'[i] = handlers[i]
    BY <1>0, <2>1
  <2>8. ASSUME NEW g \in 1..n
        PROVE  Elems(handlers[g].attrs, a.heap) \in Seq(Attributes) /\ Elems(handlers[g].groups, a.heap) \in Seq(STRING)
    <3>1. Elems(handlers[g].attrs, a.heap) \in Seq(Attributes)
      BY <1>0, <1>1, <2>3, <2>5, AppendKeepsKind, ZenonT(30) DEF KindsInv, w
    <3>2. handlers[g].groups.array # a.slice.array
      <4>1. a.slice.array # 0 /\ (a.slice.array = s.array \/ a.slice.array > Len(arrays)) /\ a.slice.array \in Nat
        BY <2>3, ZenonT(30) DEF Appends, SliceOK, Slices
      <4>2. handlers[g].groups.array \in Nat /\ handlers[g].groups.array <= Len(arrays) /\ Len(arrays) \in Nat
        BY <1>0, <1>1 DEF SliceOK, Slices, HeapOK
      <4>3. s.array = handlers[g].groups.array => s.array = 0
        BY Zenon DEF HandlersInv
      <4>. QED  BY <4>1, <4>2, <4>3, SMTT(30)
    <3>3. Elems(handlers[g].groups, a.heap) = Elems(handlers[g].groups, arrays)
      BY <1>1, <2>3, <3>2, ZenonT(30) DEF Appends
    <3>. QED  BY <3>1, <3>3, Zenon DEF KindsInv
  <2>9. ASSUME NEW g \in 1..n + 1
        PROVE  /\ Elems(handlers'[g].attrs, arrays') \in Seq(Attributes) /\ handlers'[g].wantAttrs \in Seq(Attributes)
               /\ Elems(handlers'[g].groups, arrays') \in Seq(STRING) /\ handlers'[g].wantGroups \in Seq(STRING)
    <3>1. CASE g \in 1..n
      BY <2>1, <2>7, <2>8, <3>1, Zenon DEF KindsInv
    <3>2. CASE g = n + 1
      BY <2>1, <2>5, <2>6, <2>7, <2>8, <3>2, ZenonT(30) DEF KindsInv
    <3>. QED  BY <1>0, <3>1, <3>2, SMTT(30)
  <2>. QED  BY <2>7, <2>9, Zenon DEF KindsInv
<1>4. ASSUME NEW name \in Groups, NEW h \in 1..n, WithGroup(h, name) PROVE KindsInv'
  <2>. DEFINE xs == <<name>>
              s == handlers[h].groups
              a == AppendTo(s, xs)
              w == Elems(s, arrays) \o xs
              r == [handlers[h] EXCEPT !.from = h, !.groups = a.slice, !.wantGroups = w]
  <2>1. arrays' = a.heap /\ handlers' = Append(handlers, r)
    BY <1>4, Zenon DEF WithGroup
  <2>2. xs \in Seq(STRING) /\ xs \in Seq(Cells)
    <3>1. name \in STRING /\ name \in Cells
      BY LokiAssumption, Zenon DEF Cells
    <3>. QED  BY <3>1, SeqFacts, Zenon
  <2>. HIDE DEF xs
  <2>3. Appends(s, xs, a)
    BY <1>0, <1>1, <2>2, AppendToWorks, Zenon
  <2>4. Elems(s, arrays) \in Seq(STRING) /\ Len(Elems(s, arrays)) = s.len
    BY <1>0, <1>1, ElemsOf, Zenon DEF KindsInv
  <2>5. w \in Seq(STRING) /\ Len(w) = a.slice.len /\ Elems(a.slice, a.heap) = w
    <3>1. a.slice.len = s.len + Len(xs) /\ Elems(a.slice, a.heap) = w
      BY <2>3, Zenon DEF Appends
    <3>2. w \in Seq(STRING) /\ Len(w) = s.len + Len(xs)
      <4>. DEFINE e == Elems(s, arrays)
      <4>1. e \in Seq(STRING) /\ xs \in Seq(STRING) /\ Len(e) = s.len
        BY <2>2, <2>4, Zenon
      <4>. HIDE DEF e
      <4>2. e \o xs \in Seq(STRING) /\ Len(e \o xs) = Len(e) + Len(xs)
        BY <4>1, SeqFacts, Zenon
      <4>. QED  BY <4>1, <4>2, Zenon DEF e
    <3>. QED  BY <3>1, <3>2, Zenon
  <2>. HIDE DEF a, w
  <2>6. r.groups = a.slice /\ r.wantGroups = w /\ r.attrs = handlers[h].attrs /\ r.wantAttrs = handlers[h].wantAttrs
    BY <1>0, SMTT(30) DEF Handlers
  <2>. HIDE DEF r
  <2>7. Len(handlers') = n + 1 /\ handlers'[n + 1] = r /\ \A i \in 1..n : handlers'[i] = handlers[i]
    BY <1>0, <2>1
  <2>8. ASSUME NEW g \in 1..n
        PROVE  Elems(handlers[g].attrs, a.heap) \in Seq(Attributes) /\ Elems(handlers[g].groups, a.heap) \in Seq(STRING)
    <3>1. Elems(handlers[g].groups, a.heap) \in Seq(STRING)
      BY <1>0, <1>1, <2>3, <2>5, AppendKeepsKind, ZenonT(30) DEF KindsInv, w
    <3>2. handlers[g].attrs.array # a.slice.array
      <4>1. a.slice.array # 0 /\ (a.slice.array = s.array \/ a.slice.array > Len(arrays)) /\ a.slice.array \in Nat
        BY <2>3, Zenon DEF Appends, SliceOK, Slices
      <4>2. handlers[g].attrs.array \in Nat /\ handlers[g].attrs.array <= Len(arrays) /\ Len(arrays) \in Nat
        BY <1>0, <1>1 DEF SliceOK, Slices, HeapOK
      <4>3. handlers[g].attrs.array = s.array => handlers[g].attrs.array = 0
        BY Zenon DEF HandlersInv
      <4>. QED  BY <4>1, <4>2, <4>3, SMTT(30)
    <3>3. Elems(handlers[g].attrs, a.heap) = Elems(handlers[g].attrs, arrays)
      BY <1>1, <2>3, <3>2, ZenonT(30) DEF Appends
    <3>. QED  BY <3>1, <3>3, Zenon DEF KindsInv
  <2>9. ASSUME NEW g \in 1..n + 1
        PROVE  /\ Elems(handlers'[g].attrs, arrays') \in Seq(Attributes) /\ handlers'[g].wantAttrs \in Seq(Attributes)
               /\ Elems(handlers'[g].groups, arrays') \in Seq(STRING) /\ handlers'[g].wantGroups \in Seq(STRING)
    <3>1. CASE g \in 1..n
      BY <2>1, <2>7, <2>8, <3>1, Zenon DEF KindsInv
    <3>2. CASE g = n + 1
      BY <2>1, <2>5, <2>6, <2>7, <2>8, <3>2, Zenon DEF KindsInv
    <3>. QED  BY <1>0, <3>1, <3>2
  <2>. QED  BY <2>7, <2>9, Zenon DEF KindsInv
<1>. QED  BY <1>0, <1>2, <1>3, <1>4, ZenonT(30) DEF LokiNext, lokiVars, Forget, Handle, PushLog
-----------------------------------------------------------------------------
(* Handle processes one attribute after the other.                          *)
Values == Nat \X Nat
(* The types of what processAttr makes of the attributes.                   *)
Fields == [key : Seq(STRING), value : Values]
Paths == Seq(STRING) \cup {<<"app">>, <<"level">>}
Labelings == UNION {[D -> Values] : D \in SUBSET Paths}
Accs == [labels : Labelings, line : Seq(Fields)]
(* One call of processAttr, as a function.                                  *)
ProcessStep(groups) == [q \in Accs \X Attributes |-> processAttr(groups, q[1], q[2])]
(* A labelling with one label set, and what it is to be one.                *)
WithLabel(f, k, v) == [x \in DOMAIN f \cup {k} |-> IF x = k THEN v ELSE f[x]]
IsWithLabel(g, f, k, v) ==
  g \in Labelings /\ DOMAIN g = DOMAIN f \cup {k} /\ g[k] = v /\ \A x \in DOMAIN f : x # k => g[x] = f[x]
(* The field that an attribute becomes under groups, and the fields of a    *)
(* sequence of attributes.                                                  *)
FieldOf(groups, a) == [key |-> FullKey(groups, a.key), value |-> a.value]
Describes(all, groups, s) == all = [i \in 1..Len(s) |-> FieldOf(groups, s[i])]

(* The key and value of an attribute under the handler's groups.            *)
LEMMA FieldType ==
  ASSUME NEW groups \in Seq(STRING), NEW a \in Attributes
  PROVE  /\ FullKey(groups, a.key) \in Seq(STRING) /\ a.value \in Values /\ FieldOf(groups, a) \in Fields
         /\ FieldOf(groups, a).key = FullKey(groups, a.key) /\ FieldOf(groups, a).value = a.value
<1>1. a.key \in STRING /\ a.value \in Values
  BY Zenon DEF Attributes, Values
<1>2. Backwards(groups) \in Seq(STRING)
  <2>1. Len(groups) \in Nat /\ \A i \in 1..Len(groups) : groups[(Len(groups) - i) + 1] \in STRING
    OBVIOUS
  <2>2. Backwards(groups) \in [1..Len(groups) -> STRING]
    BY <2>1 DEF Backwards
  <2>. QED  BY <2>1, <2>2, FunctionIsSeq, Zenon
<1>3. FullKey(groups, a.key) \in Seq(STRING)
  BY <1>1, <1>2, SeqFacts, Zenon DEF FullKey
<1>. QED  BY <1>1, <1>3, Zenon DEF FieldOf, Fields

(* A label that is set: the others keep their values.                       *)
LEMMA LabelSet ==
  ASSUME NEW f \in Labelings, NEW k \in Seq(STRING), NEW v \in Values
  PROVE  IsWithLabel(WithLabel(f, k, v), f, k, v)
<1>1. PICK D \in SUBSET Paths : f \in [D -> Values]
  BY Zenon DEF Labelings
<1>. DEFINE g == [x \in DOMAIN f \cup {k} |-> IF x = k THEN v ELSE f[x]]
<1>2. D \cup {k} \in SUBSET Paths /\ g \in [D \cup {k} -> Values]
  <2>1. k \in Paths
    BY Zenon DEF Paths
  <2>. QED  BY <1>1, <2>1, Zenon
<1>3. g \in Labelings
  BY <1>2, Zenon DEF Labelings
<1>4. DOMAIN g = DOMAIN f \cup {k} /\ g[k] = v /\ \A x \in DOMAIN f : x # k => g[x] = f[x]
  BY Zenon
<1>. QED  BY <1>3, <1>4, Zenon DEF WithLabel, IsWithLabel

(* What processAttr does with an attribute whose key is, or is not, a       *)
(* label's.                                                                 *)
LEMMA ProcessFacts ==
  ASSUME NEW groups \in Seq(STRING), NEW acc \in Accs, NEW a \in Attributes
  PROVE  LET r == processAttr(groups, acc, a)
             e == FieldOf(groups, a)
         IN /\ r \in Accs
            /\ e.key \in LabelKeys =>
                 /\ r.line = acc.line /\ DOMAIN r.labels = DOMAIN acc.labels \cup {e.key} /\ r.labels[e.key] = e.value
                 /\ \A x \in DOMAIN acc.labels : x # e.key => r.labels[x] = acc.labels[x]
            /\ e.key \notin LabelKeys => r.labels = acc.labels /\ r.line = Append(acc.line, e)
<1>. DEFINE k == FullKey(groups, a.key)
            v == a.value
            r == processAttr(groups, acc, a)
            e == FieldOf(groups, a)
            g == WithLabel(acc.labels, k, v)
<1>1. k \in Seq(STRING) /\ v \in Values /\ e \in Fields /\ e.key = k /\ e.value = v /\ e = [key |-> k, value |-> v]
  BY FieldType, Zenon DEF FieldOf
<1>2. acc.labels \in Labelings /\ acc.line \in Seq(Fields)
  BY Zenon DEF Accs
<1>3. r = IF k \in LabelKeys THEN [acc EXCEPT !.labels = g] ELSE [acc EXCEPT !.line = Append(acc.line, [key |-> k, value |-> v])]
  BY Zenon DEF processAttr, WithLabel
<1>. HIDE DEF k, v, e, r
<1>4. /\ g \in Labelings /\ DOMAIN g = DOMAIN acc.labels \cup {k} /\ g[k] = v
      /\ \A x \in DOMAIN acc.labels : x # k => g[x] = acc.labels[x]
  <2>1. IsWithLabel(g, acc.labels, k, v)
    BY <1>1, <1>2, LabelSet, ZenonT(30)
  <2>. HIDE DEF g
  <2>. QED  BY <2>1, Zenon DEF IsWithLabel
<1>5. Append(acc.line, e) \in Seq(Fields)
  BY <1>1, <1>2
<1>. HIDE DEF g
<1>6. CASE k \in LabelKeys
  <2>1. r = [acc EXCEPT !.labels = g]
    BY <1>3, <1>6, Zenon
  <2>2. r.labels = g /\ r.line = acc.line /\ r \in Accs
    BY <1>2, <1>4, <2>1, Zenon DEF Accs
  <2>. QED  BY <1>1, <1>4, <1>6, <2>2, Zenon DEF r, e
<1>7. CASE k \notin LabelKeys
  <2>1. r = [acc EXCEPT !.line = Append(acc.line, e)]
    BY <1>1, <1>3, <1>7, Zenon
  <2>2. r.labels = acc.labels /\ r.line = Append(acc.line, e) /\ r \in Accs
    BY <1>2, <1>5, <2>1, Zenon DEF Accs
  <2>. QED  BY <1>1, <1>7, <2>2, Zenon DEF r, e
<1>. QED  BY <1>6, <1>7, Zenon

(* The entry r is the entry acc with the field e added to it.               *)
Processed(acc, e, r) ==
  /\ e.key \in LabelKeys =>
       /\ r.line = acc.line /\ DOMAIN r.labels = DOMAIN acc.labels \cup {e.key} /\ r.labels[e.key] = e.value
       /\ \A x \in DOMAIN acc.labels : x # e.key => r.labels[x] = acc.labels[x]
  /\ e.key \notin LabelKeys => r.labels = acc.labels /\ r.line = Append(acc.line, e)

(* processAttr adds the field of its attribute.                             *)
LEMMA FieldProcessed ==
  ASSUME NEW groups \in Seq(STRING), NEW acc \in Accs, NEW a \in Attributes
  PROVE  Processed(acc, FieldOf(groups, a), processAttr(groups, acc, a))
BY ProcessFacts, Zenon DEF Processed

(* One step of Handle takes what was collected to what is collected.        *)
LEMMA ProcessStepType ==
  ASSUME NEW groups \in Seq(STRING) PROVE ProcessStep(groups) \in [Accs \X Attributes -> Accs]
<1>1. \A acc \in Accs, a \in Attributes : processAttr(groups, acc, a) \in Accs
  BY ProcessFacts, Zenon
<1>. QED  BY <1>1, Zenon DEF ProcessStep

(* h holds what processAttr has made of each prefix of s.                   *)
ProcessTable(h, s, base, groups) ==
  h = [t \in SUBSET DOMAIN s |-> IF t = {} THEN base ELSE processAttr(groups, h[t \ {Max(t)}], s[Max(t)])]

(* What Handle collects is a fold of the attributes.                        *)
LEMMA ProcessIsFolded ==
  ASSUME NEW groups \in Seq(STRING), NEW s \in Seq(Attributes), NEW base \in Accs
  PROVE  Folded(InOrder(LAMBDA acc, a : processAttr(groups, acc, a), base, s), s, Accs, base, ProcessStep(groups))
<1>. DEFINE step == ProcessStep(groups)
<1>0. step \in [Accs \X Attributes -> Accs]
  BY ProcessStepType, Zenon
<1>1. \A r \in Accs, e \in Attributes : step[<<r, e>>] = processAttr(groups, r, e)
  BY Zenon DEF ProcessStep
<1>. HIDE DEF step
<1>2. \A t \in SUBSET DOMAIN s : t # {} => Max(t) \in DOMAIN s /\ s[Max(t)] \in Attributes
  BY ElementAtMax, Zenon
<1>3. \E h : ProcessTable(h, s, base, groups)
  <2>1. PICK h \in [SUBSET DOMAIN s -> Accs] : FoldTable(h, s, base, step)
    BY <1>0, FoldExists, Zenon
  <2>2. \A t \in SUBSET DOMAIN s : h[t] = IF t = {} THEN base ELSE processAttr(groups, h[t \ {Max(t)}], s[Max(t)])
    <3>. SUFFICES ASSUME NEW t \in SUBSET DOMAIN s
                  PROVE  h[t] = IF t = {} THEN base ELSE processAttr(groups, h[t \ {Max(t)}], s[Max(t)])
      BY Zenon
    <3>1. h[t \ {Max(t)}] \in Accs
      BY Zenon
    <3>2. h[t] = IF t = {} THEN base ELSE step[<<h[t \ {Max(t)}], s[Max(t)]>>]
      BY <2>1, Zenon DEF FoldTable
    <3>. QED  BY <1>1, <1>2, <3>1, <3>2, ZenonT(30)
  <2>. QED  BY <2>2, Zenon DEF ProcessTable
<1>. DEFINE h == CHOOSE h : ProcessTable(h, s, base, groups)
<1>4. ProcessTable(h, s, base, groups)
  BY <1>3, Zenon
<1>5. InOrder(LAMBDA acc, a : processAttr(groups, acc, a), base, s) = h[DOMAIN s]
  BY Zenon DEF InOrder, MapThenFoldSet, ProcessTable
<1>. HIDE DEF h
<1>6. h[{}] = base
  BY <1>4, Zenon DEF ProcessTable
<1>7. \A t \in SUBSET DOMAIN s : t # {} /\ h[t \ {Max(t)}] \in Accs => h[t] = step[<<h[t \ {Max(t)}], s[Max(t)]>>]
  <2>1. \A t \in SUBSET DOMAIN s : t # {} => h[t] = processAttr(groups, h[t \ {Max(t)}], s[Max(t)])
    BY <1>4, Zenon DEF ProcessTable
  <2>. QED  BY <1>1, <1>2, <2>1, ZenonT(30)
<1>8. Folded(h[DOMAIN s], s, Accs, base, step)
  BY <1>0, <1>6, <1>7, FoldIsFolded, ZenonT(30)
<1>. QED  BY <1>5, <1>8, Zenon DEF step
-----------------------------------------------------------------------------
(* The labels are the values given last to their keys by the first n        *)
(* fields.                                                                  *)
Labels(all, labels, n) ==
  \A i \in 1..n : all[i].key \in LabelKeys =>
    \E j \in i..n : /\ all[j].key = all[i].key /\ all[i].key \in DOMAIN labels /\ labels[all[i].key] = all[j].value
                    /\ \A k \in j + 1..n : all[k].key # all[i].key

(* One more field: it becomes its key's label, or leaves the labels alone.  *)
LEMMA LabelsGrow ==
  ASSUME NEW m \in Nat, NEW all \in [1..m -> Fields], NEW n \in Nat, n + 1 \in 1..m,
         NEW f, NEW g, Labels(all, f, n),
         IF all[n + 1].key \in LabelKeys
         THEN /\ DOMAIN g = DOMAIN f \cup {all[n + 1].key} /\ g[all[n + 1].key] = all[n + 1].value
              /\ \A x \in DOMAIN f : x # all[n + 1].key => g[x] = f[x]
         ELSE g = f
  PROVE  Labels(all, g, n + 1)
<1>. SUFFICES ASSUME NEW i \in 1..n + 1, all[i].key \in LabelKeys
              PROVE  \E j \in i..n + 1 :
                       /\ all[j].key = all[i].key /\ all[i].key \in DOMAIN g /\ g[all[i].key] = all[j].value
                       /\ \A k \in j + 1..n + 1 : all[k].key # all[i].key
  BY Zenon DEF Labels
<1>1. CASE all[i].key = all[n + 1].key
  <2>1. n + 1 \in i..n + 1 /\ \A k \in (n + 1) + 1..n + 1 : FALSE
    OBVIOUS
  <2>. QED  BY <1>1, <2>1, Zenon
<1>2. CASE all[i].key # all[n + 1].key
  <2>1. i \in 1..n
    BY <1>2
  <2>2. PICK j \in i..n : /\ all[j].key = all[i].key /\ all[i].key \in DOMAIN f /\ f[all[i].key] = all[j].value
                          /\ \A k \in j + 1..n : all[k].key # all[i].key
    BY <2>1, Zenon DEF Labels
  <2>3. all[i].key \in DOMAIN g /\ g[all[i].key] = all[j].value
    BY <1>2, <2>2, Zenon
  <2>4. j \in i..n + 1 /\ \A k \in j + 1..n + 1 : k = n + 1 \/ k \in j + 1..n
    BY <2>1
  <2>. QED  BY <1>2, <2>2, <2>3, <2>4, ZenonT(30)
<1>. QED  BY <1>1, <1>2, Zenon

(* What Handle has collected after all of a record's attributes.            *)
LEMMA Collected ==
  ASSUME NEW groups \in Seq(STRING), NEW s \in Seq(Attributes), NEW base \in Accs, base.line = <<>>,
         NEW all, Describes(all, groups, s),
         NEW v, Folded(v, s, Accs, base, ProcessStep(groups))
  PROVE  /\ v \in Accs /\ DOMAIN base.labels \subseteq DOMAIN v.labels
         /\ LineShows(all, v.line) /\ Labels(all, v.labels, Len(all))
<1>. DEFINE m == Len(s)
            K == {i \in 1..m : all[i].key \notin LabelKeys}
<1>0. m \in Nat /\ K \in SUBSET (1..m) /\ \A i \in 1..m : s[i] \in Attributes
  OBVIOUS
<1>1. all \in [1..m -> Fields] /\ \A i \in 1..m : all[i] = FieldOf(groups, s[i])
  <2>1. \A i \in 1..m : FieldOf(groups, s[i]) \in Fields
    BY <1>0, FieldType, ZenonT(30)
  <2>. QED  BY <2>1, Zenon DEF Describes
<1>2. Len(all) = m
  BY <1>0, <1>1, FunctionIsSeq, SMTT(30)
<1>3. PICK p : FoldPath(p, s, Accs, base, ProcessStep(groups)) /\ v = p[m]
  BY Zenon DEF Folded
<1>4. p \in [0..m -> Accs] /\ p[0] = base
  BY <1>3, Zenon DEF FoldPath
<1>5. ASSUME NEW n \in 0..m - 1 PROVE p[n + 1] = processAttr(groups, p[n], s[n + 1])
  <2>1. n + 1 \in 1..m /\ (n + 1) - 1 = n /\ n \in 0..m
    BY <1>0
  <2>2. p[n + 1] = ProcessStep(groups)[<<p[n], s[n + 1]>>]
    BY <1>3, <2>1, ZenonT(30) DEF FoldPath
  <2>. QED  BY <1>0, <1>4, <2>1, <2>2, ZenonT(30) DEF ProcessStep
<1>. DEFINE T == {n \in 0..m : /\ DOMAIN base.labels \subseteq DOMAIN p[n].labels
                               /\ Line(Fields, all, K, p[n].line, n) /\ Labels(all, p[n].labels, n)}
<1>. HIDE DEF m
<1>6. 0 \in T
  <2>1. Line(Fields, all, K, <<>>, 0)
    <3>1. <<>> \in Seq(Fields) /\ Len(<<>>) = 0
      BY SeqFacts, Zenon
    <3>2. Rank(K, 0) = 0
      BY <1>0, RankFacts, ZenonT(30)
    <3>3. \A i \in K : ~(i <= 0)
      BY <1>0, SMTT(30)
    <3>. HIDE DEF K
    <3>. QED  BY <3>1, <3>2, <3>3, Zenon DEF Line
  <2>2. Labels(all, base.labels, 0)
    BY DEF Labels
  <2>. HIDE DEF K
  <2>. QED  BY <1>0, <1>4, <2>1, <2>2, SMTT(30)
<1>7. ASSUME NEW n \in 0..m - 1, n \in T PROVE n + 1 \in T
  <2>. DEFINE acc == p[n]
              r == p[n + 1]
              a == s[n + 1]
              e == all[n + 1]
  <2>0. n \in Nat /\ n + 1 \in 1..m /\ n \in 0..m /\ n + 1 \in 0..m /\ a \in Attributes
    BY <1>0
  <2>1. acc \in Accs /\ r = processAttr(groups, acc, a) /\ e = FieldOf(groups, a)
    BY <1>1, <1>4, <1>5, <2>0, ZenonT(30)
  <2>2. DOMAIN base.labels \subseteq DOMAIN acc.labels /\ Line(Fields, all, K, acc.line, n) /\ Labels(all, acc.labels, n)
    BY <1>7, Zenon
  <2>. HIDE DEF acc, r, a, e
  <2>3. /\ e.key \in LabelKeys =>
             /\ r.line = acc.line /\ DOMAIN r.labels = DOMAIN acc.labels \cup {e.key} /\ r.labels[e.key] = e.value
             /\ \A x \in DOMAIN acc.labels : x # e.key => r.labels[x] = acc.labels[x]
        /\ e.key \notin LabelKeys => r.labels = acc.labels /\ r.line = Append(acc.line, e)
    <3>1. Processed(acc, FieldOf(groups, a), processAttr(groups, acc, a))
      BY <2>0, <2>1, FieldProcessed, Zenon
    <3>2. Processed(acc, e, r)
      BY <2>1, <3>1, Zenon
    <3>. QED  BY <3>2, Zenon DEF Processed
  <2>4. DOMAIN base.labels \subseteq DOMAIN r.labels
    BY <2>2, <2>3, Zenon
  <2>5. n + 1 \in K <=> e.key \notin LabelKeys
    BY <2>0, Zenon DEF e
  <2>6. K \in SUBSET (1..m)
    BY <1>0, Zenon
  <2>. HIDE DEF K
  <2>7. Line(Fields, all, K, r.line, n + 1)
    <3>1. /\ n + 1 \in K => Line(Fields, all, K, Append(acc.line, e), n + 1)
          /\ n + 1 \notin K => Line(Fields, all, K, acc.line, n + 1)
      BY <1>0, <1>1, <2>0, <2>2, <2>6, LineGrows, ZenonT(30) DEF e
    <3>. QED  BY <2>3, <2>5, <3>1, ZenonT(30)
  <2>8. Labels(all, r.labels, n + 1)
    <3>1. IF all[n + 1].key \in LabelKeys
          THEN /\ DOMAIN r.labels = DOMAIN acc.labels \cup {all[n + 1].key} /\ r.labels[all[n + 1].key] = all[n + 1].value
               /\ \A x \in DOMAIN acc.labels : x # all[n + 1].key => r.labels[x] = acc.labels[x]
          ELSE r.labels = acc.labels
      BY <2>3, ZenonT(30) DEF e
    <3>. QED  BY <1>0, <1>1, <2>0, <2>2, <3>1, LabelsGrow, ZenonT(30)
  <2>. QED  BY <2>0, <2>4, <2>7, <2>8, ZenonT(30) DEF r
<1>8. m \in T
  <2>. HIDE DEF T
  <2>1. 0..m \subseteq T
    BY <1>0, <1>6, <1>7, InductionUpTo, ZenonT(30)
  <2>. QED  BY <1>0, <2>1, SMTT(30)
<1>9. v \in Accs /\ DOMAIN base.labels \subseteq DOMAIN v.labels /\ Line(Fields, all, K, v.line, m) /\ Labels(all, v.labels, m)
  BY <1>0, <1>3, <1>4, <1>8, ZenonT(30) DEF m
<1>10. LineShows(all, v.line)
  <2>1. Len(v.line) = Rank(K, m) /\ \A i \in K : i <= m => v.line[Rank(K, i)] = all[i]
    BY <1>9, ZenonT(30) DEF Line
  <2>2. \A i \in K : i <= m
    BY <1>0
  <2>3. {j \in K : j <= m} = K
    BY <2>2, Zenon
  <2>4. K = {i \in 1..Len(all) : all[i].key \notin LabelKeys}
    BY <1>2, Zenon DEF m
  <2>5. Rank(K, m) = Cardinality(K)
    BY <2>3, Zenon DEF Rank
  <2>. HIDE DEF K
  <2>6. Lists(v.line, all, K)
    BY <2>1, <2>2, <2>5, Zenon DEF Lists
  <2>. QED  BY <2>4, <2>6, Zenon DEF LineShows
<1>. QED  BY <1>2, <1>9, <1>10, ZenonT(30) DEF m

(* The entry that Handle makes for a handler whose slices nobody changed.   *)
EntryOf(h, rec) ==
  LET groups == Elems(handlers[h].groups, arrays)
      seen == InOrder(LAMBDA acc, a : processAttr(groups, acc, a), [labels |-> OwnLabels, line |-> <<>>],
                       Elems(handlers[h].attrs, arrays) \o rec)
      labels == IF <<"service">> \in DOMAIN seen.labels THEN seen.labels
                ELSE [k \in DOMAIN seen.labels \cup {<<"service">>} |->
                        IF k = <<"service">> THEN <<0, 0>> ELSE seen.labels[k]]
  IN [by |-> h, rec |-> rec, labels |-> labels, line |-> seen.line]

(* It shows every attribute.                                                *)
LEMMA EntryShowsAll ==
  ASSUME HandlersInv, KindsInv, NEW h \in DOMAIN handlers, ~Forked(h), NEW rec \in Seq(Attributes)
  PROVE  LET e == EntryOf(h, rec)
             all == Wanted(h, rec)
         IN /\ e.by = h /\ e.rec = rec
            /\ LineShows(all, e.line) /\ LabelsShow(all, e.labels)
            /\ {<<"app">>, <<"level">>, <<"service">>} \subseteq DOMAIN e.labels
<1>. DEFINE groups == Elems(handlers[h].groups, arrays)
            attrs == Elems(handlers[h].attrs, arrays)
            s == attrs \o rec
            base == [labels |-> OwnLabels, line |-> <<>>]
            seen == InOrder(LAMBDA acc, a : processAttr(groups, acc, a), base, s)
            all == Wanted(h, rec)
            e == EntryOf(h, rec)
            service == <<"service">>
            f == seen.labels
            labels == IF service \in DOMAIN f THEN f
                      ELSE [k \in DOMAIN f \cup {service} |-> IF k = service THEN <<0, 0>> ELSE f[k]]
<1>1. attrs = handlers[h].wantAttrs /\ groups = handlers[h].wantGroups
  <2>1. Sees(h) = Wants(h)
    BY ForksAreClashes, Zenon
  <2>. QED  BY <2>1, Zenon DEF Sees, Wants
<1>2. groups \in Seq(STRING) /\ attrs \in Seq(Attributes)
  <2>1. h \in 1..Len(handlers)
    BY DEF HandlersInv
  <2>. QED  BY <2>1, Zenon DEF KindsInv
<1>3. e = [by |-> h, rec |-> rec, labels |-> labels, line |-> seen.line]
  BY Zenon DEF EntryOf
<1>4. Describes(all, groups, s)
  <2>1. all = [i \in 1..Len(s) |-> [key |-> Backwards(groups) \o <<s[i].key>>, value |-> s[i].value]]
    BY <1>1, Zenon DEF Wanted
  <2>. HIDE DEF all, s
  <2>. QED  BY <2>1, Zenon DEF FieldOf, FullKey, Describes
<1>5. s \in Seq(Attributes)
  BY <1>2, SeqFacts, Zenon
<1>6. base \in Accs /\ base.line = <<>> /\ base.labels = OwnLabels /\ DOMAIN OwnLabels = {<<"app">>, <<"level">>}
  <2>1. {<<"app">>, <<"level">>} \subseteq Paths
    BY Zenon DEF Paths
  <2>2. <<0, 0>> \in Values
    BY Zenon DEF Values
  <2>3. OwnLabels \in [{<<"app">>, <<"level">>} -> Values]
    BY <2>2, Zenon DEF OwnLabels
  <2>4. OwnLabels \in Labelings
    BY <2>1, <2>3, Zenon DEF Labelings
  <2>5. <<>> \in Seq(Fields)
    BY SeqFacts, Zenon
  <2>. QED  BY <2>3, <2>4, <2>5, Zenon DEF Accs
<1>7. Folded(seen, s, Accs, base, ProcessStep(groups))
  <2>. HIDE DEF base, s, groups
  <2>. QED  BY <1>2, <1>5, <1>6, ProcessIsFolded, Zenon
<1>. HIDE DEF base, s, groups, all, seen
<1>8. /\ seen \in Accs /\ DOMAIN base.labels \subseteq DOMAIN seen.labels
      /\ LineShows(all, seen.line) /\ Labels(all, seen.labels, Len(all))
  BY <1>2, <1>4, <1>5, <1>6, <1>7, Collected, Zenon
<1>9. DOMAIN f \subseteq DOMAIN labels /\ service \in DOMAIN labels /\ \A k \in DOMAIN f : labels[k] = f[k]
  <2>. HIDE DEF f, service
  <2>1. CASE service \in DOMAIN f
    BY <2>1, Zenon
  <2>2. CASE service \notin DOMAIN f
    <3>1. labels = [k \in DOMAIN f \cup {service} |-> IF k = service THEN <<0, 0>> ELSE f[k]]
      BY <2>2, Zenon
    <3>. HIDE DEF labels
    <3>2. DOMAIN labels = DOMAIN f \cup {service} /\ \A k \in DOMAIN f : k # service /\ labels[k] = f[k]
      BY <2>2, <3>1, Zenon
    <3>. QED  BY <3>2, Zenon
  <2>. QED  BY <2>1, <2>2, Zenon
<1>. HIDE DEF labels, f, e
<1>10. e.by = h /\ e.rec = rec /\ e.labels = labels /\ e.line = seen.line
  BY <1>3, Zenon
<1>11. LabelsShow(all, labels)
  <2>1. Labels(all, f, Len(all))
    BY <1>8, Zenon DEF f
  <2>. QED  BY <1>9, <2>1 DEF Labels, LabelsShow
<1>12. {<<"app">>, <<"level">>, <<"service">>} \subseteq DOMAIN labels
  BY <1>6, <1>8, <1>9, Zenon DEF f
<1>. QED  BY <1>8, <1>10, <1>11, <1>12, ZenonT(30) DEF e, all

(* Every entry that is pushed is complete, and no handler is derived before *)
(* it was looked at.                                                        *)
LEMMA CompleteNext ==
  ASSUME HandlersInv, KindsInv, EntryComplete, [LokiNext]_lokiVars PROVE EntryComplete'
<1>0. NoEntry.by = -1
  BY Zenon DEF NoEntry
<1>1. CASE entry' = NoEntry
  BY <1>0, <1>1 DEF EntryComplete
<1>2. CASE UNCHANGED lokiVars
  <2>1. arrays' = arrays /\ handlers' = handlers /\ entry' = entry
    BY <1>2, Zenon DEF lokiVars
  <2>. QED  BY <2>1, Zenon DEF EntryComplete, Forked, Wanted
<1>3. ASSUME NEW keys \in AttrKeys, NEW h \in DOMAIN handlers, Handle(h, Attrs(keys, 0)), entry = NoEntry
      PROVE  EntryComplete'
  <2>. DEFINE rec == Attrs(keys, 0)
              e == EntryOf(h, rec)
  <2>1. arrays' = arrays /\ handlers' = handlers /\ entry' \in {e, entry}
    BY <1>3, Zenon DEF Handle, Push, EntryOf
  <2>2. rec \in Seq(Attributes)
    BY AttrsAreAttributes, Zenon
  <2>. HIDE DEF rec, e
  <2>3. CASE entry' = e
    <3>. DEFINE all1 == Wanted(entry.by, entry.rec)'
    <3>. SUFFICES ASSUME entry'.by > 0, ~Forked(entry.by)'
                  PROVE  /\ LineShows(all1, entry'.line) /\ LabelsShow(all1, entry'.labels)
                         /\ {<<"app">>, <<"level">>, <<"service">>} \subseteq DOMAIN entry'.labels
      BY Zenon DEF EntryComplete, LineShows, LabelsShow
    <3>1. e.by = h
      BY Zenon DEF e, EntryOf
    <3>2. ~Forked(h)
      BY <2>1, <2>3, <3>1, Zenon DEF Forked
    <3>3. /\ e.rec = rec /\ LineShows(Wanted(h, rec), e.line) /\ LabelsShow(Wanted(h, rec), e.labels)
          /\ {<<"app">>, <<"level">>, <<"service">>} \subseteq DOMAIN e.labels
      BY <2>2, <3>2, EntryShowsAll, Zenon DEF e
    <3>4. Wanted(entry.by, entry.rec)' = Wanted(h, rec)
      BY <2>1, <2>3, <3>1, <3>3, Zenon DEF Wanted
    <3>. QED  BY <2>3, <3>3, <3>4, Zenon
  <2>. QED  BY <1>1, <1>3, <2>1, <2>3, Zenon
<1>4. ASSUME NEW data, PushLog(data), entry = NoEntry PROVE EntryComplete'
  <2>1. CASE entry' = entry
    BY <1>1, <1>4, <2>1, ZenonT(30)
  <2>2. CASE entry' # entry
    <3>1. entry'.by = 0
      BY <1>4, <2>2 DEF PushLog, Push
    <3>. QED  BY <3>1, SMTT(30) DEF EntryComplete
  <2>. QED  BY <2>1, <2>2, Zenon
<1>. QED  BY <1>1, <1>2, <1>3, <1>4, Zenon DEF LokiNext, Forget

(* Handle: every attribute of the handler and then of the record is in the  *)
(* entry once, as a label or in the line, in order, unless the handler's    *)
(* arrays were overwritten by a fork.                                       *)
THEOREM EntryCompleteHolds == LokiSpec => []EntryComplete
<1>1. LokiInit => EntryComplete
  BY DEF LokiInit, EntryComplete, NoEntry
<1>2. LokiInit => HandlersInv /\ KindsInv /\ EntryComplete
  BY <1>1, HandlersInit, KindsInit, Zenon
<1>3. HandlersInv /\ KindsInv /\ EntryComplete /\ [LokiNext]_lokiVars => (HandlersInv /\ KindsInv /\ EntryComplete)'
  BY HandlersNext, KindsNext, CompleteNext, Zenon
<1>. QED  BY <1>2, <1>3, PTL DEF LokiSpec
=============================================================================
