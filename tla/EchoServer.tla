----------------------------- MODULE EchoServer -----------------------------
(* http/echo/echo.go: Start runs the server in a goroutine and waits for    *)
(* the context to end, which shuts the server down, or for the server's     *)
(* error.  Echo and net/http are seen through Start and Shutdown: both take *)
(* startupMutex, Shutdown for as long as it waits for requests.             *)
EXTENDS Integers

CONSTANT MaxConns  \* bound: requests being served at a time

ASSUME ConnsAssumption == MaxConns \in Nat

VARIABLES
  ctxDone,    \* the context given to Start has ended
  starter,    \* Start: "select", "shutdown", "returned"
  outcome,    \* what it returned: "nil", "server" or "shutdown" error
  server,     \* the goroutine: "start", "listen", "serve", "send", "ended"
  serverErr,  \* what Echo.Start returned: "closed" is ErrServerClosed
  serverCh,   \* errCh: "empty" or the error in it
  listener,   \* "none", "open", "closed"
  closing,    \* net/http's inShutdown
  appShut,    \* the application itself has called Shutdown on Echo
  conns       \* requests being served

echoVars == <<ctxDone, starter, outcome, server, serverErr, serverCh, listener, closing, appShut, conns>>

EchoInit ==
  /\ ctxDone = FALSE /\ starter = "select" /\ outcome = "pending"
  /\ server = "start" /\ serverErr = "none" /\ serverCh = "empty"
  /\ listener = "none" /\ closing = FALSE /\ appShut = FALSE /\ conns = 0

ContextEnds ==
  /\ ~ctxDone /\ ctxDone' = TRUE
  /\ UNCHANGED <<starter, outcome, server, serverErr, serverCh, listener, closing, appShut, conns>>

ServerReturns(err) == server' = "send" /\ serverErr' = err

(* configureServer under startupMutex: the port is opened, or that fails.   *)
Listen ==
  /\ server = "start" /\ starter # "shutdown"
  /\ \/ server' = "listen" /\ listener' = "open" /\ UNCHANGED serverErr
     \/ ServerReturns("failed") /\ UNCHANGED listener
  /\ UNCHANGED <<ctxDone, starter, outcome, serverCh, closing, appShut, conns>>

(* Fault: a shutdown that came before Serve is not noticed. *)
ServeIgnoringShutdown ==
  /\ server = "listen" /\ server' = "serve" /\ UNCHANGED <<serverErr, listener>>
  /\ UNCHANGED <<ctxDone, starter, outcome, serverCh, closing, appShut, conns>>

(* Serve registers the listener, or closes it after a Shutdown.             *)
Serve ==
  /\ server = "listen"
  /\ IF closing THEN ServerReturns("closed") /\ listener' = "closed"
     ELSE server' = "serve" /\ UNCHANGED <<serverErr, listener>>
  /\ UNCHANGED <<ctxDone, starter, outcome, serverCh, closing, appShut, conns>>

Accept ==
  /\ server = "serve" /\ listener = "open" /\ conns < MaxConns /\ conns' = conns + 1
  /\ UNCHANGED <<ctxDone, starter, outcome, server, serverErr, serverCh, listener, closing, appShut>>

Respond ==
  /\ conns > 0 /\ conns' = conns - 1
  /\ UNCHANGED <<ctxDone, starter, outcome, server, serverErr, serverCh, listener, closing, appShut>>

(* Accept fails, for good or because Shutdown has closed the listener.      *)
ServeEnds ==
  /\ server = "serve"
  /\ \/ listener = "closed" /\ ServerReturns("closed")
     \/ listener = "open" /\ ServerReturns("failed")
  /\ listener' = "closed"
  /\ UNCHANGED <<ctxDone, starter, outcome, serverCh, closing, appShut, conns>>

(* Fault: errCh has no buffer. *)
SendUnbuffered ==
  /\ server = "send" /\ starter = "select" /\ serverCh' = serverErr /\ server' = "ended"
  /\ UNCHANGED <<ctxDone, starter, outcome, serverErr, listener, closing, appShut, conns>>

Send ==
  /\ server = "send" /\ serverCh = "empty" /\ serverCh' = serverErr /\ server' = "ended"
  /\ UNCHANGED <<ctxDone, starter, outcome, serverErr, listener, closing, appShut, conns>>

(* Shutdown marks the server and closes the listener if Serve has it.       *)
BeginShutdown ==
  /\ closing' = TRUE /\ listener' = IF server = "serve" THEN "closed" ELSE listener

(* Fault: the select has no case for the context. *)
TakeContextDoneMissing == FALSE /\ UNCHANGED echoVars

TakeContextDone ==
  /\ starter = "select" /\ ctxDone /\ starter' = "shutdown" /\ BeginShutdown
  /\ UNCHANGED <<ctxDone, outcome, server, serverErr, serverCh, appShut, conns>>

StartReturns(result) == starter' = "returned" /\ outcome' = result

(* All requests have ended, or shutdownTimeout has passed.                  *)
Shutdown ==
  /\ starter = "shutdown" /\ StartReturns(IF conns = 0 THEN "nil" ELSE "shutdown")
  /\ UNCHANGED <<ctxDone, server, serverErr, serverCh, listener, closing, appShut, conns>>

TakeServerError ==
  /\ starter = "select" /\ serverCh # "empty"
  /\ StartReturns(IF serverCh = "closed" THEN "nil" ELSE "server")
  /\ UNCHANGED <<ctxDone, server, serverErr, serverCh, listener, closing, appShut, conns>>

(* The application holds the Echo value and may shut it down itself; its    *)
(* own wait for requests, which its context ends, is left out.              *)
AppShutdown ==
  /\ ~closing /\ starter = "select" /\ appShut' = TRUE /\ BeginShutdown
  /\ UNCHANGED <<ctxDone, starter, outcome, server, serverErr, serverCh, conns>>

StartSteps == TakeContextDone \/ Shutdown \/ TakeServerError

ServerSteps == Listen \/ Serve \/ ServeEnds \/ Send

EchoNext == StartSteps \/ ServerSteps \/ Accept \/ Respond \/ ContextEnds \/ AppShutdown

(* The goroutines go on and the shutdown timeout passes; nothing is assumed *)
(* of requests, of Accept failing, or of the context.                       *)
EchoFairness ==
  /\ WF_echoVars(StartSteps) /\ WF_echoVars(Listen \/ Serve \/ Send)
  /\ WF_echoVars(ServeEnds /\ listener = "closed")

EchoSpec == EchoInit /\ [][EchoNext]_echoVars /\ EchoFairness
----------------------------------------------------------------------------
(* Types of the server's state.                                             *)
EchoTypeOK ==
  /\ {ctxDone, closing, appShut} \subseteq BOOLEAN /\ conns \in 0..MaxConns
  /\ starter \in {"select", "shutdown", "returned"}
  /\ outcome \in {"pending", "nil", "server", "shutdown"}
  /\ server \in {"start", "listen", "serve", "send", "ended"}
  /\ serverErr \in {"none", "closed", "failed"} /\ serverCh \in {"empty", "closed", "failed"}
  /\ listener \in {"none", "open", "closed"}

(* Start: nil after the context has ended means that no request is being    *)
(* served and none will be, even if the context ended before the server was *)
(* listening.                                                               *)
NilMeansDrained == outcome = "nil" /\ ~appShut => conns = 0

(* Start's select: a server that could not listen or failed later goes      *)
(* unreported only if the context had ended as well.                        *)
FailureTold == outcome = "nil" /\ serverErr = "failed" => ctxDone

(* Start returns once its context has ended, whatever the requests do; and  *)
(* once it has returned its goroutine ends and the port is closed, also     *)
(* when the port was opened only after the shutdown.                        *)
PortReleased ==
  ctxDone \/ outcome # "pending" ~> [](outcome # "pending" /\ server = "ended" /\ listener # "open")
=============================================================================
