----------------------------- MODULE AppRunner -----------------------------
(***************************************************************************)
(* app-runner/app_runner.go: Run starts Runnable.Run in a goroutine, waits *)
(* for a signal or for Run to return, then calls Runnable.Stop in a second *)
(* goroutine and waits until both have ended, Stop fails, or the shutdown  *)
(* timeout expires.  The Runnable is the environment: its Run and Stop may *)
(* return nil or an error at any time, or never.                           *)
(***************************************************************************)
EXTENDS Integers, Sequences

CONSTANTS
  NoErr,     \* nil
  RunErr,    \* an error returned by Runnable.Run
  StopErr,   \* an error returned by Runnable.Stop
  Timeout    \* ErrShutdownTimeout

ASSUME RunnerAssumption ==
  /\ NoErr \notin {RunErr, StopErr, Timeout}
  /\ RunErr # Timeout

VARIABLES
  main,        \* the caller of Run: "wait", "shutdown", "returned"
  sigCh,       \* signals buffered in sigCh
  app,         \* the runApp goroutine
  errCh,       \* values runApp has sent
  stop,        \* the goroutine that calls Stop
  stopErrCh,   \* values it has sent
  waiter,      \* the goroutine that waits for wg and closes doneCh
  wg,          \* the WaitGroup's counter
  expired,     \* shutdownCtx is past its deadline
  shutdownErr, \* what waitForShutdown returned
  result       \* what Run returned

vars == <<main, sigCh, app, errCh, stop, stopErrCh, waiter, wg, expired,
          shutdownErr, result>>

ErrChSize == 1  \* both errCh channels are make(chan error, 1)

(* A goroutine that calls into the Runnable: the call is running; it has   *)
(* returned an error value that is not sent yet; it has ended.             *)
Goroutine == [at : {"none", "call", "send", "leave", "ended"}, err : {NoErr, RunErr, StopErr}]
At(p) == [at |-> p, err |-> NoErr]

(* ctxerrors.Wrap, which returns nil when it is given a nil error. *)
Wrap(err) == IF err = NoErr THEN NoErr ELSE err

Init ==
  /\ main = "wait"
  /\ sigCh = 0
  /\ app = At("call") /\ errCh = <<>>
  /\ stop = At("none") /\ stopErrCh = <<>>
  /\ waiter = "none"
  /\ wg = 1
  /\ expired = FALSE
  /\ shutdownErr = NoErr /\ result = NoErr

(* The environment: a signal arrives (dropped when sigCh is full), Run or  *)
(* Stop returns, the shutdown deadline passes.                             *)
Signal ==
  /\ sigCh < 1
  /\ sigCh' = sigCh + 1
  /\ UNCHANGED <<main, app, errCh, stop, stopErrCh, waiter, wg, expired,
                 shutdownErr, result>>

RunReturns(err) ==
  /\ app.at = "call"
  /\ app' = [at |-> "send", err |-> err]
  /\ UNCHANGED <<main, sigCh, errCh, stop, stopErrCh, waiter, wg, expired,
                 shutdownErr, result>>

(* Only an error of Stop is sent. *)
StopReturns(err) ==
  /\ stop.at = "call"
  /\ stop' = [at |-> IF err = NoErr THEN "leave" ELSE "send", err |-> err]
  /\ UNCHANGED <<main, sigCh, app, errCh, stopErrCh, waiter, wg, expired,
                 shutdownErr, result>>

DeadlinePasses ==
  /\ main = "shutdown" /\ ~expired
  /\ expired' = TRUE
  /\ UNCHANGED <<main, sigCh, app, errCh, stop, stopErrCh, waiter, wg,
                 shutdownErr, result>>

(* Fault: errCh is unbuffered, so that only a waiting receiver lets the    *)
(* send go on.                                                             *)
AppSendUnbuffered ==
  /\ app.at = "send" /\ main = "wait"
  /\ errCh' = Append(errCh, app.err)
  /\ app' = [app EXCEPT !.at = "leave"]
  /\ UNCHANGED <<main, sigCh, stop, stopErrCh, waiter, wg, expired,
                 shutdownErr, result>>

(* runApp: errCh <- Run(ctx), then the deferred close(errCh) and wg.Done().*)
(* The send blocks while the buffer is full.                               *)
AppSend ==
  /\ app.at = "send" /\ Len(errCh) < ErrChSize
  /\ errCh' = Append(errCh, app.err)
  /\ app' = [app EXCEPT !.at = "leave"]
  /\ UNCHANGED <<main, sigCh, stop, stopErrCh, waiter, wg, expired,
                 shutdownErr, result>>

AppLeave ==
  /\ app.at = "leave"
  /\ app' = [app EXCEPT !.at = "ended"]
  /\ wg' = wg - 1
  /\ UNCHANGED <<main, sigCh, errCh, stop, stopErrCh, waiter, expired,
                 shutdownErr, result>>

(* Fault: the goroutine of Stop is not added to the WaitGroup. *)
StartShutdownNoAdd(err) ==
  /\ main' = "shutdown"
  /\ shutdownErr' = err
  /\ stop' = At("call")
  /\ waiter' = "wait"
  /\ UNCHANGED wg

(* performGracefulShutdown up to its select: the deadline starts, Stop and *)
(* the waiter are started.                                                 *)
StartShutdown(err) ==
  /\ main' = "shutdown"
  /\ shutdownErr' = err
  /\ wg' = wg + 1
  /\ stop' = At("call")
  /\ waiter' = "wait"

TakeSignal ==
  /\ main = "wait" /\ sigCh > 0
  /\ sigCh' = sigCh - 1
  /\ StartShutdown(NoErr)
  /\ UNCHANGED <<app, errCh, stopErrCh, expired, result>>

TakeRunResult ==
  /\ main = "wait" /\ errCh # <<>>
  /\ errCh' = Tail(errCh)
  /\ StartShutdown(Head(errCh))
  /\ UNCHANGED <<sigCh, app, stopErrCh, expired, result>>

StopSend ==
  /\ stop.at = "send" /\ Len(stopErrCh) < ErrChSize
  /\ stopErrCh' = Append(stopErrCh, stop.err)
  /\ stop' = [stop EXCEPT !.at = "leave"]
  /\ UNCHANGED <<main, sigCh, app, errCh, waiter, wg, expired, shutdownErr,
                 result>>

StopLeave ==
  /\ stop.at = "leave"
  /\ stop' = [stop EXCEPT !.at = "ended"]
  /\ wg' = wg - 1
  /\ UNCHANGED <<main, sigCh, app, errCh, stopErrCh, waiter, expired,
                 shutdownErr, result>>

CloseDone ==
  /\ waiter = "wait" /\ wg = 0
  /\ waiter' = "closed"
  /\ UNCHANGED <<main, sigCh, app, errCh, stop, stopErrCh, wg, expired,
                 shutdownErr, result>>

(* The select of performGracefulShutdown; any ready case may be taken.  Run *)
(* then cancels its context: a Runnable here may return at any time anyway, *)
(* and ServerApp tells its server so (DeferredCancel).                      *)
ReturnWith(err) ==
  /\ main' = "returned"
  /\ result' = err
  /\ UNCHANGED <<sigCh, app, errCh, stop, waiter, wg, expired, shutdownErr>>

TakeStopError ==
  /\ main = "shutdown" /\ stopErrCh # <<>>
  /\ stopErrCh' = Tail(stopErrCh)
  /\ ReturnWith(Wrap(shutdownErr))

(* Fault: the select has no case for the deadline. *)
TakeDeadlineMissing == FALSE /\ UNCHANGED vars

TakeDeadline ==
  /\ main = "shutdown" /\ expired
  /\ ReturnWith(Timeout)
  /\ UNCHANGED stopErrCh

(* Fault: a completed shutdown is reported as success. *)
TakeDoneForgets ==
  /\ main = "shutdown" /\ waiter = "closed"
  /\ ReturnWith(NoErr)
  /\ UNCHANGED stopErrCh

(* Fault: the end of Stop is taken for the end of everything. *)
TakeDoneWithoutRun ==
  /\ main = "shutdown" /\ stop.at = "ended"
  /\ ReturnWith(shutdownErr)
  /\ UNCHANGED stopErrCh

TakeDone ==
  /\ main = "shutdown" /\ waiter = "closed"
  /\ ReturnWith(shutdownErr)
  /\ UNCHANGED stopErrCh

Main  == TakeSignal \/ TakeRunResult \/ TakeStopError \/ TakeDeadline \/ TakeDone
App   == AppSend \/ AppLeave
Stop  == StopSend \/ StopLeave

Next ==
  \/ Signal
  \/ \E err \in {NoErr, RunErr} : RunReturns(err)
  \/ \E err \in {NoErr, StopErr} : StopReturns(err)
  \/ DeadlinePasses
  \/ Main \/ App \/ Stop \/ CloseDone

Spec == Init /\ [][Next]_vars

(* Goroutines that can go on do so, and time passes.  Nothing is assumed   *)
(* of signals, or of whether the Runnable's Run and Stop ever return.      *)
Fairness ==
  /\ WF_vars(Main) /\ WF_vars(App) /\ WF_vars(Stop) /\ WF_vars(CloseDone)
  /\ WF_vars(DeadlinePasses)

FairSpec == Spec /\ Fairness
-----------------------------------------------------------------------------
(* The goroutines, channels and the WaitGroup have the states above. *)
TypeOK ==
  /\ main \in {"wait", "shutdown", "returned"}
  /\ sigCh \in 0 .. 1
  /\ app \in Goroutine /\ stop \in Goroutine
  /\ errCh \in Seq({NoErr, RunErr}) /\ stopErrCh \in Seq({StopErr})
  /\ waiter \in {"none", "wait", "closed"}
  /\ wg \in 0 .. 2
  /\ expired \in BOOLEAN
  /\ shutdownErr \in {NoErr, RunErr}
  /\ result \in {NoErr, RunErr, Timeout}

(* doneCh is closed only after both Run and Stop have returned and their   *)
(* goroutines have left: the WaitGroup counts Stop before the wait begins. *)
DoneAfterAll == waiter = "closed" => app.at = "ended" /\ stop.at = "ended"

(* An error of Run that waitForShutdown received is what the caller gets,  *)
(* unless the shutdown then times out: neither Stop's failure nor its      *)
(* success replaces it.                                                    *)
FailureReported ==
  /\ main = "returned"
  /\ app.err = RunErr /\ app.at \in {"leave", "ended"} /\ errCh = <<>>
  => result \in {RunErr, Timeout}

(* Whatever the Runnable does, the runner returns once a signal has come   *)
(* or Run has returned.                                                    *)
RunnerReturns ==
  (sigCh > 0 \/ app.at # "call") /\ main # "returned" ~> main = "returned"

(* No goroutine of the runner outlives the Runnable's own calls: with      *)
(* nobody left to receive, the buffered channels take what they send, and  *)
(* the WaitGroup lets the waiter go when both calls are over.              *)
GoroutinesEnd ==
  <>[](/\ app.at \in {"call", "ended"} /\ stop.at \in {"none", "call", "ended"}
       /\ app.at = "ended" /\ stop.at = "ended" => waiter = "closed")

(* "Wait for all goroutines to finish": a shutdown that reports success    *)
(* has seen Run and Stop return.                                           *)
SuccessMeansFinished ==
  main = "returned" /\ result = NoErr =>
    app.at \in {"leave", "ended"} /\ stop.at \in {"leave", "ended"}
=============================================================================
