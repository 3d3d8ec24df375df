----------------------------- MODULE ServerApp -----------------------------
(* The app runner with its Runnable: either any Runnable at all (AppRunner  *)
(* alone), or the one the library is made for, whose Run is the HTTP        *)
(* server's Start and whose Stop cancels the context Run was given; and the *)
(* HTTP server used without the runner.                                     *)
EXTENDS AppRunner, EchoServer

VARIABLE runnable  \* "any", "echo" (the composition), "none" (the server alone)

appVars == <<runnable, vars, echoVars>>

(* A runner and a server that have ended.                                   *)
RunnerIdle ==
  /\ main = "returned" /\ sigCh = 1 /\ app = At("ended") /\ errCh = <<>>
  /\ stop = At("ended") /\ stopErrCh = <<>> /\ waiter = "closed" /\ wg = 0
  /\ expired = TRUE /\ shutdownErr = NoErr /\ result = NoErr

EchoIdle ==
  /\ ctxDone = TRUE /\ starter = "returned" /\ outcome = "nil"
  /\ server = "ended" /\ serverErr = "closed" /\ serverCh = "closed"
  /\ listener = "closed" /\ closing = TRUE /\ appShut = FALSE /\ conns = 0

AppInit ==
  \/ runnable = "any" /\ Init /\ EchoIdle
  \/ runnable = "echo" /\ Init /\ EchoInit
  \/ runnable = "none" /\ RunnerIdle /\ EchoInit

(* Run returns what Start returned.                                         *)
EchoRun ==
  /\ starter = "returned"
  /\ RunReturns(IF outcome = "nil" THEN NoErr ELSE RunErr)
  /\ UNCHANGED <<runnable, echoVars>>

(* Stop cancels Run's context and returns nil; it does not wait for Run.    *)
EchoStop ==
  /\ StopReturns(NoErr)
  /\ ctxDone' = TRUE
  /\ UNCHANGED <<starter, outcome, server, serverErr, serverCh, listener, closing, appShut, conns>>
  /\ UNCHANGED runnable

(* The deferred cancel of Run: the server's context ends with the runner,   *)
(* also when Stop has not ended it.                                         *)
DeferredCancel ==
  /\ ctxDone' = (ctxDone \/ main' = "returned")
  /\ UNCHANGED <<starter, outcome, server, serverErr, serverCh, listener, closing, appShut, conns>>

AppNext ==
  \/ runnable = "any" /\ Next /\ UNCHANGED <<runnable, echoVars>>
  \/ runnable = "none" /\ EchoNext /\ UNCHANGED <<runnable, vars>>
  \/ /\ runnable = "echo"
     /\ \/ (Signal \/ DeadlinePasses \/ Main \/ App \/ Stop \/ CloseDone) /\ DeferredCancel /\ UNCHANGED runnable
        \/ (StartSteps \/ ServerSteps \/ Accept \/ Respond) /\ UNCHANGED <<runnable, vars>>
        \/ EchoRun \/ EchoStop

(* The goroutine that calls Run, and the one that calls Stop, go on.        *)
AppFairness ==
  /\ Fairness /\ EchoFairness
  /\ WF_appVars(runnable = "echo" /\ EchoRun) /\ WF_appVars(runnable = "echo" /\ EchoStop)

AppSpec == AppInit /\ [][AppNext]_appVars /\ AppFairness
----------------------------------------------------------------------------
(* performGracefulShutdown over Start: when the runner reports success the  *)
(* server's goroutine in Start is over and every request it had taken is    *)
(* answered, unless Run's error is left in errCh: nobody reads it when a    *)
(* signal came first.                                                       *)
CleanExit ==
  runnable = "echo" /\ main = "returned" /\ result = NoErr
    => starter = "returned" /\ (conns = 0 \/ errCh = <<RunErr>>)

(* The composition ends by itself once a signal has come or the server has  *)
(* failed, with the port closed, though no request need ever end.           *)
AppEnds ==
  runnable = "echo" /\ (sigCh > 0 \/ serverErr = "failed")
    ~> [](main = "returned" /\ server = "ended" /\ listener # "open")
=============================================================================
