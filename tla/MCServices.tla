---------------------------- MODULE MCServices ----------------------------
(* The components that share something between goroutines or services, the  *)
(* app runner with the HTTP server, and the SQL log, one at a time: "part"  *)
(* names the one that runs, the others stay idle.                           *)
EXTENDS DBConnect, Downloads, WorkflowGate, StreamSetup, SharedMap, GormSlogLogger, ServerApp

CONSTANT Parts  \* the components to run

(* Two URLs with one target, and one with a target of its own.  Renaming    *)
(* URLs and paths gives the other maps of this shape.                       *)
SharedTarget ==
  LET alone == CHOOSE u \in Urls : TRUE
      own == CHOOSE p \in Paths : TRUE
      shared == CHOOSE p \in Paths : p # own
  IN  {[u \in Urls |-> IF u = alone THEN own ELSE shared]}

(* No file, or files longer than the body.                                  *)
NewOrOld == {[p \in Paths |-> n] : n \in {0, 3}}

WaitConfig(i, c, m, n) == [initial |-> i, coefficient |-> c, max |-> m, attempts |-> n]
WaitConfigs == {WaitConfig(0, 0, 0, 0), WaitConfig(1, 3, 20, 3), WaitConfig(20, 0, 0, 2)}

Need(n, r, a) == [name |-> n, retention |-> r, maxAge |-> a]
StreamNeeds ==
  {<<>>, <<Need("a", 0, 0)>>, <<Need("a", 7, 24), Need("b", 1, 1)>>, <<Need("b", 1, 1), Need("a", 2, 0)>>}

LiteralBodies == {<<"a">>, <<"'">>, <<"\\", "'">>, <<"$", "'">>}

VARIABLE part

ServicesInit ==
  /\ part \in Parts
  /\ IF part = "db" THEN DBInit ELSE DBIdle
  /\ IF part = "downloads" THEN DownloadInit ELSE DownloadIdle
  /\ IF part = "gate" THEN GateInit ELSE GateIdle
  /\ IF part = "setup" THEN SetupInit ELSE SetupIdle
  /\ IF part = "map" THEN MapInit ELSE MapIdle
  /\ IF part = "log" THEN LogInit ELSE LogIdle
  /\ IF part = "app" THEN AppInit ELSE runnable = "none" /\ RunnerIdle /\ EchoIdle

ServicesNext ==
  /\ UNCHANGED part
  /\ \/ part = "db" /\ DBNext /\ UNCHANGED <<dlVars, gateVars, setupVars, mapVars, logVars, appVars>>
     \/ part = "downloads" /\ DownloadNext /\ UNCHANGED <<dbVars, gateVars, setupVars, mapVars, logVars, appVars>>
     \/ part = "gate" /\ GateNext /\ UNCHANGED <<dbVars, dlVars, setupVars, mapVars, logVars, appVars>>
     \/ part = "setup" /\ SetupNext /\ UNCHANGED <<dbVars, dlVars, gateVars, mapVars, logVars, appVars>>
     \/ part = "map" /\ MapNext /\ UNCHANGED <<dbVars, dlVars, gateVars, setupVars, logVars, appVars>>
     \/ part = "log" /\ LogNext /\ UNCHANGED <<dbVars, dlVars, gateVars, setupVars, mapVars, appVars>>
     \/ part = "app" /\ AppNext /\ UNCHANGED <<dbVars, dlVars, gateVars, setupVars, mapVars, logVars>>

ServicesSpec ==
  /\ ServicesInit /\ [][ServicesNext]_<<part, dbVars, dlVars, gateVars, setupVars, mapVars, logVars, appVars>>
  /\ DBFairness /\ DownloadFairness /\ GateFairness /\ SetupFairness /\ MapFairness /\ LogFairness
  /\ AppFairness
----------------------------------------------------------------------------
(* Every call that has begun returns: NewWithConfig and DownloadFiles       *)
(* unless they wait for an answer without any limit, the wait for workflows *)
(* although they keep running, New of the message queue, every operation on *)
(* a Map unless Range's callback reads it behind a writer, and Trace.       *)
EveryCallEnds == <>[](NewOver /\ DownloadOver /\ WaitOver /\ SetupOver /\ MapOver /\ TraceOver)
=============================================================================
