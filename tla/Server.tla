------------------------------- MODULE Server -------------------------------
(***************************************************************************)
(* The end of the process, src/internal/server/server.go: serve and its    *)
(* shutdown goroutine, the HTTP server's graceful shutdown with its time   *)
(* limit, the goroutine that logs when authentication gets ready, and the  *)
(* handlers of Handler that are under way.                                 *)
(***************************************************************************)
EXTENDS Handler

VARIABLES
  root,       \* the process context
  run,        \* Run: serving, and how it returns
  result,     \* what Run returns: nil, timeout or failed
  stopper,    \* serve's shutdown goroutine
  shutdown,   \* shutdownResult: a channel with room for one
  log         \* the goroutine of startRestartReadinessLog

serverVars == <<root, run, result, stopper, shutdown, log>>
vars == <<handlerVars, serverVars>>

ServerInit ==
  /\ Init
  /\ root = "live" /\ run = "serving" /\ result = "" /\ stopper = "select" /\ shutdown = ""
  /\ log \in {"waiting", "done"}   \* done: authentication was ready at once

RootEnds ==
  /\ root = "live"
  /\ root' = "canceled"
  /\ UNCHANGED <<handlerVars, run, result, stopper, shutdown, log>>

(* The listener is open until Shutdown is called, or Serve fails.            *)
Arrive(r) ==
  /\ run = "serving" /\ stopper = "select"
  /\ Receive(r)
  /\ UNCHANGED serverVars

HandlerMoves(r) == Handle(r) /\ UNCHANGED serverVars

(* Request contexts are derived from the process context.                    *)
RootEndsRequest(r) ==
  /\ root = "canceled" /\ Running(r) /\ ctx[r] = "live"
  /\ ctx' = [ctx EXCEPT ![r] = "canceled"]
  /\ UNCHANGED <<config, input, at, body, answer, fault, serverVars>>

ServeOnly(next) == run' = next /\ UNCHANGED <<handlerVars, root, stopper, shutdown, log>>

(* Serve returns ErrServerClosed as soon as Shutdown is called; it may fail  *)
(* before that.  Either way serveDone is closed.                             *)
ServeReturns ==
  /\ run = "serving" /\ stopper # "select"
  /\ ServeOnly("closed") /\ UNCHANGED result

ServeFails ==
  /\ run = "serving" /\ stopper = "select"
  /\ ServeOnly("stopping") /\ result' = "failed"

(* Both ends of serve's select may be ready: either is taken.                *)
StopperStarts ==
  /\ stopper = "select" /\ root = "canceled"
  /\ stopper' = "shutting"
  /\ UNCHANGED <<handlerVars, root, run, result, shutdown, log>>

StopperReleased ==
  /\ stopper = "select" /\ run # "serving"
  /\ stopper' = "done" /\ shutdown' = "nil"
  /\ UNCHANGED <<handlerVars, root, run, result, log>>

Finish(outcome) ==
  /\ stopper = "shutting"
  /\ stopper' = "done" /\ shutdown' = outcome
  /\ UNCHANGED <<handlerVars, root, run, result, log>>

ShutdownDrains == (\A r \in Request : ~Running(r)) /\ Finish("nil")

ShutdownNeverTimesOut == FALSE   \* mutant: Shutdown waits for the handlers for ever

(* shutdownTimeout.                                                          *)
ShutdownTimesOut == (\E r \in Request : Running(r)) /\ Finish("timeout")

ServeHears ==
  /\ run = "closed" /\ shutdown # ""
  /\ ServeOnly("stopping") /\ result' = shutdown

(* Mutant: the process does not wait for the goroutine it cancelled.         *)
RunReturnsAtOnce ==
  /\ run = "stopping"
  /\ ServeOnly("returned") /\ UNCHANGED result

(* stopReadinessLog waits for the goroutine.                                 *)
RunReturns ==
  /\ run = "stopping" /\ log = "done"
  /\ ServeOnly("returned") /\ UNCHANGED result

LogStep(from, next) ==
  /\ log = from
  /\ log' = next
  /\ UNCHANGED <<handlerVars, root, run, result, stopper, shutdown>>

LogReady == LogStep("waiting", "writing") \/ LogStep("writing", "done")
LogStops == (root = "canceled" \/ run = "stopping") /\ LogStep("waiting", "done")

ServerMoves ==
  \/ ServeReturns \/ StopperStarts \/ StopperReleased \/ ShutdownDrains \/ ShutdownTimesOut
  \/ ServeHears \/ RunReturns \/ LogStops \/ LogStep("writing", "done")

ServerNext ==
  \/ RootEnds \/ ServeFails \/ LogReady \/ ServerMoves
  \/ \E r \in Request : Arrive(r) \/ HandlerMoves(r) \/ RootEndsRequest(r)

(* The server's own goroutines run, and its timers fire; a handler may hang. *)
ServerSpec == ServerInit /\ [][ServerNext]_vars /\ WF_vars(ServerMoves)

-----------------------------------------------------------------------------
(* Properties *)

(* When Run has returned nothing is logged any more, and unless it reports   *)
(* an error no handler was cut off.                                          *)
NothingOutlivesRun ==
  run = "returned" =>
    /\ log = "done"
    /\ result = "nil" => \A r \in Request : ~Running(r)

(* Once the process context ends, Run returns, and with it its shutdown      *)
(* goroutine ends, whatever handlers do and however Serve ends.              *)
RunEnds == root = "canceled" ~> [](run = "returned" /\ stopper = "done")
=============================================================================
