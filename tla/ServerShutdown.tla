--------------------------- MODULE ServerShutdown ---------------------------
(***************************************************************************)
(* How the daemon starts and stops.  New opens one thing after the other   *)
(* and, when a step fails, calls Stop itself on what it has so far.  A     *)
(* signal that arrives meanwhile waits in its channel.  Afterwards the     *)
(* signal goroutine of run.go cancels the root context and calls Stop;     *)
(* startServer calls it too when it returns.  stopOnce lets one of them    *)
(* run the body: cancel the loops and wait for their Run, drain the HTTP   *)
(* server, close the rest.  The waits have time limits.  When Stop         *)
(* returned to New or to the signal goroutine the process exits.           *)
(***************************************************************************)
EXTENDS AttemptLoop

VARIABLES
  boot,       \* the next step of New
  opened,     \* what New has opened and Stop can reach
  signal,     \* whether a signal was sent
  stopBody,   \* the next step of the body that stopOnce guards
  caller,     \* caller[c]: where a caller of Stop is
  serve,      \* startServer: before or after it set s.srv, or returned
  handler,    \* an HTTP request
  closes,     \* closes[r]: how often a resource was closed
  gaveUp,     \* the waits that ran into their limit
  exited      \* the process is gone

bootVars == <<boot, opened, signal>>

stopVars == <<stopBody, caller, serve, handler, closes, gaveUp, exited>>

vars == <<loopVars, bootVars, stopVars>>

StopCallers == {"new", "signal", "startServer"}

\* The components stand for their registry with the two DCGM caches.
Resources == {"workload", "exporter", "components", "dcgm", "databases"}

BootSteps == Resources \cup {"loops", "up", "failed"}

StopSteps == {"new", "loops", "http", "done"} \cup Resources

TypeOK ==
  /\ LoopTypeOK
  /\ boot \in BootSteps
  /\ opened \subseteq Resources \cup {"loops"}
  /\ signal \in BOOLEAN
  /\ stopBody \in StopSteps
  /\ caller \in [StopCallers -> {"running", "stopping", "returned"}]
  /\ serve \in {"none", "starting", "serving", "returned"}
  /\ handler \in {"none", "serving"}
  /\ closes \in [Resources -> 0..2]
  /\ gaveUp \subseteq {"loops", "http", "noServer"}
  /\ exited \in BOOLEAN

\* runCommand calls New.
Init ==
  /\ LoopInit
  /\ boot = "databases"
  /\ opened = {}
  /\ signal = FALSE
  /\ stopBody = "new"
  /\ caller = [c \in StopCallers |-> "running"]
  /\ serve = "none"
  /\ handler = "none"
  /\ closes = [r \in Resources |-> 0]
  /\ gaveUp = {}
  /\ exited = FALSE

-----------------------------------------------------------------------------
(* New *)

AfterBoot(step) ==
  CASE step = "databases" -> "dcgm"
    [] step = "dcgm" -> "components"
    [] step = "components" -> "workload"
    [] step = "workload" -> "loops"
    [] step = "loops" -> "exporter"
    [] step = "exporter" -> "up"

\* A step that succeeds.  The last one is followed by "go s.startServer".
BootOpens ==
  /\ boot \in Resources \cup {"loops"}
  /\ opened' = opened \cup {boot}
  /\ boot' = AfterBoot(boot)
  /\ serve' = IF boot = "exporter" THEN "starting" ELSE serve
  /\ UNCHANGED <<loopVars, signal, stopBody, caller, handler, closes, gaveUp, exited>>

\* A step that fails: the deferred function calls Stop.  When a component does
\* not start, the registry with the others stays behind; when the scraper or
\* the metrics store cannot be made, the workload metrics do.
BootFails ==
  /\ boot \in Resources \ {"databases"}
  /\ boot' = "failed"
  /\ \/ UNCHANGED opened
     \/ boot \in {"components", "workload"} /\ opened' = opened \cup {boot}
  /\ caller' = [caller EXCEPT !["new"] = "stopping"]
  /\ UNCHANGED <<loopVars, signal, stopBody, serve, handler, closes, gaveUp, exited>>

\* initializeDatabases closes what it opened, and New returns its error.
BootWithoutDatabases ==
  /\ boot = "databases"
  /\ boot' = "failed"
  /\ exited' = TRUE
  /\ UNCHANGED <<loopVars, opened, signal, stopBody, caller, serve, handler, closes, gaveUp>>

-----------------------------------------------------------------------------
(* What runs beside Stop *)

\* startServer assigns s.srv and serves, or cannot create its metrics store.
ServerStarts ==
  /\ serve = "starting"
  /\ serve' \in {"serving", "returned"}
  /\ UNCHANGED <<loopVars, bootVars, stopBody, caller, handler, closes, gaveUp,
                 exited>>

\* Requests are accepted as long as the server was not shut down.
HandlerStep ==
  /\ \/ handler = "none" /\ serve = "serving" /\ handler' = "serving"
     \/ handler = "serving" /\ handler' = "none"
  /\ UNCHANGED <<loopVars, bootVars, stopBody, caller, serve, closes, gaveUp,
                 exited>>

\* The address cannot be listened on, or Serve fails: os.Exit(1).
ServeFails ==
  /\ serve = "serving"
  /\ exited' = TRUE
  /\ UNCHANGED <<loopVars, bootVars, stopBody, caller, serve, handler, closes, gaveUp>>

\* SIGTERM, SIGINT or the end of the offline mode's duration.
SignalArrives ==
  /\ ~signal
  /\ signal' = TRUE
  /\ UNCHANGED <<loopVars, boot, opened, stopBody, caller, serve, handler, closes,
                 gaveUp, exited>>

\* The goroutine that New's return starts reads the channel: rootCancel, which
\* cancels loopCtx with it, and Stop.
SignalHandled ==
  /\ signal /\ boot = "up" /\ caller["signal"] = "running"
  /\ caller' = [caller EXCEPT !["signal"] = "stopping"]
  /\ cancelled' = TRUE
  /\ UNCHANGED <<bootVars, run, round, runMu, worker, done, lastResult, failed,
                 stopBody, serve, handler, closes, gaveUp, exited>>

\* The deferred Stop of startServer.
ServerReturns ==
  /\ serve = "returned"
  /\ caller["startServer"] = "running"
  /\ caller' = [caller EXCEPT !["startServer"] = "stopping"]
  /\ UNCHANGED <<loopVars, bootVars, stopBody, serve, handler, closes, gaveUp,
                 exited>>

-----------------------------------------------------------------------------
(* Stop *)

BodyGoto(step) == stopBody' = step

\* Mutant: no stopOnce.
StopBeginsAgain(c) ==
  /\ caller[c] = "stopping" /\ stopBody \in {"new", "done"}
  /\ BodyGoto("loops")
  /\ cancelled' = TRUE
  /\ UNCHANGED <<bootVars, run, round, runMu, worker, done, lastResult, failed,
                 caller, serve, handler, closes, gaveUp, exited>>

\* The first caller runs the body; loopCancel comes first.
StopBegins(c) ==
  /\ caller[c] = "stopping" /\ stopBody = "new"
  /\ BodyGoto("loops")
  /\ cancelled' = TRUE
  /\ UNCHANGED <<bootVars, run, round, runMu, worker, done, lastResult, failed,
                 caller, serve, handler, closes, gaveUp, exited>>

\* loopWG counts the Run goroutines that were started.
LoopsGone == "loops" \in opened => \A l \in Loops : run[l] = "exited"

\* Mutant: the loops are cancelled and not waited for.
StopLeavesLoops ==
  /\ stopBody = "loops"
  /\ BodyGoto("http")
  /\ UNCHANGED <<loopVars, bootVars, caller, serve, handler, closes, gaveUp, exited>>

\* waitForWaitGroup on loopWG.
StopWaitsForLoops ==
  /\ stopBody = "loops"
  /\ BodyGoto("http")
  /\ \/ LoopsGone /\ UNCHANGED gaveUp
     \/ gaveUp' = gaveUp \cup {"loops"}
  /\ UNCHANGED <<loopVars, bootVars, caller, serve, handler, closes, exited>>

\* Mutant: Close instead of Shutdown.
StopClosesServer ==
  /\ stopBody = "http"
  /\ BodyGoto("workload")
  /\ serve' = IF serve \in {"none", "starting"} THEN serve ELSE "returned"
  /\ UNCHANGED <<loopVars, bootVars, caller, handler, closes, gaveUp, exited>>

\* Mutant: Shutdown without a limit.
StopDrainsServer ==
  /\ stopBody = "http"
  /\ handler = "none"
  /\ BodyGoto("workload")
  /\ serve' = IF serve \in {"none", "starting"} THEN serve ELSE "returned"
  /\ UNCHANGED <<loopVars, bootVars, caller, handler, closes, gaveUp, exited>>

\* Shutdown returns when no request is left or after its limit, and Serve
\* returns; with s.srv not yet assigned there is nothing to shut down.
StopShutsDownServer ==
  /\ stopBody = "http"
  /\ BodyGoto("workload")
  /\ \/ /\ serve = "starting"
        /\ gaveUp' = gaveUp \cup {"noServer"}
        /\ UNCHANGED serve
     \/ /\ serve = "none"
        /\ UNCHANGED <<serve, gaveUp>>
     \/ /\ serve \in {"serving", "returned"}
        /\ serve' = "returned"
        /\ \/ handler = "none" /\ UNCHANGED gaveUp
           \/ gaveUp' = gaveUp \cup {"http"}
  /\ UNCHANGED <<loopVars, bootVars, caller, handler, closes, exited>>

\* The workload metrics, the exporter's context (Stop does not wait for an
\* export), the components, DCGM, the databases: one after the other, each if
\* New got as far.
StopCloses ==
  /\ stopBody \in Resources
  /\ closes' = [closes EXCEPT ![stopBody] = IF stopBody \in opened THEN @ + 1 ELSE @]
  /\ BodyGoto(CASE stopBody = "workload" -> "exporter"
                [] stopBody = "exporter" -> "components"
                [] stopBody = "components" -> "dcgm"
                [] stopBody = "dcgm" -> "databases"
                [] OTHER -> "done")
  /\ UNCHANGED <<loopVars, bootVars, caller, serve, handler, gaveUp, exited>>

\* Mutant: a flag instead of sync.Once: the second caller does not wait.
StopReturnsAtOnce(c) ==
  /\ caller[c] = "stopping" /\ stopBody # "new"
  /\ caller' = [caller EXCEPT ![c] = "returned"]
  /\ UNCHANGED <<loopVars, bootVars, stopBody, serve, handler, closes, gaveUp, exited>>

\* Do returns to every caller once the body is done.
StopReturns(c) ==
  /\ caller[c] = "stopping" /\ stopBody = "done"
  /\ caller' = [caller EXCEPT ![c] = "returned"]
  /\ UNCHANGED <<loopVars, bootVars, stopBody, serve, handler, closes, gaveUp,
                 exited>>

\* The signal goroutine closes the channel runCommand waits for, or New
\* returns its error.
ProcessExits ==
  /\ "returned" \in {caller["signal"], caller["new"]}
  /\ exited' = TRUE
  /\ UNCHANGED <<loopVars, bootVars, stopBody, caller, serve, handler, closes,
                 gaveUp>>

BootStep == BootOpens \/ BootFails \/ BootWithoutDatabases

StopStep ==
  \/ \E c \in StopCallers : StopBegins(c) \/ StopReturns(c)
  \/ StopWaitsForLoops \/ StopShutsDownServer \/ StopCloses
  \/ SignalHandled \/ ProcessExits

\* The goroutines of the managers, started by New.
Managers(A) == "loops" \in opened /\ A /\ UNCHANGED <<bootVars, stopVars>>

Next ==
  /\ ~exited
  /\ \/ BootStep
     \/ Managers(LoopNext)
     \/ ServerStarts \/ ServeFails \/ HandlerStep
     \/ SignalArrives \/ ServerReturns
     \/ StopStep

Spec == Init /\ [][Next]_vars

\* New gets on (its waits have limits too), the goroutine that runs Stop is
\* scheduled, and the limits of its waits come; so do the timers of the loops,
\* whose select takes ctx.Done at last when it can again and again.  Nothing is
\* asked of workers, which may hang for good, or of handlers.
FairSpec ==
  /\ Spec
  /\ WF_vars(~exited /\ BootStep) /\ WF_vars(~exited /\ StopStep)
  /\ \A l \in Loops : /\ WF_vars(~exited /\ Managers(LoopStep(l)))
                      /\ SF_vars(~exited /\ Managers(Exits(l)))

-----------------------------------------------------------------------------

(***************************************************************************)
(* "without this guard components, databases, and the health exporter      *)
(* would be closed twice" (server.go:91-93): whoever calls Stop, and in    *)
(* whatever order, nothing is closed twice.                                *)
(***************************************************************************)
ClosedOnce == \A r \in Resources : closes[r] <= 1

(***************************************************************************)
(* Nobody who called Stop goes on before everything that was opened is     *)
(* closed, also when New failed half way: "so failures later in            *)
(* initialization do not leak DCGM resources" (server.go:306-307).         *)
(***************************************************************************)
StopReturnsWhenClosed ==
  (\E c \in StopCallers : caller[c] = "returned")
    => \A r \in Resources : closes[r] = 1 <=> r \in opened

(***************************************************************************)
(* Requests complete before the components and databases go, unless they   *)
(* outlast the limit of Shutdown or the server was not up yet.             *)
(***************************************************************************)
RequestsDrained ==
  handler = "serving" /\ (\E r \in Resources : closes[r] > 0)
    => gaveUp \cap {"http", "noServer"} # {}

(***************************************************************************)
(* The Run goroutines of the loops are gone before anything is closed,     *)
(* unless they outlast the wait.                                           *)
(***************************************************************************)
LoopsExitedFirst ==
  (\E r \in Resources : closes[r] > 0)
    => "loops" \in gaveUp \/ LoopsGone

(***************************************************************************)
(* A signal ends the process, whenever it is sent (New does not look at    *)
(* it) and whatever hangs: a worker, a request or a server that never came *)
(* up.                                                                     *)
(***************************************************************************)
SignalEndsProcess == signal ~> exited

(***************************************************************************)
(* A cancelled loop exits although its worker may hang: Stop is not held   *)
(* up by a collector that ignores its context.                             *)
(***************************************************************************)
ExitsWhenCancelled ==
  \A l \in Loops :
    cancelled /\ "loops" \in opened ~> run[l] = "exited" \/ exited

(***************************************************************************)
(* An attempt that was abandoned does not end the attempts: the loop       *)
(* starts the next one, unless a worker hangs for good.                    *)
(***************************************************************************)
AttemptsGoOn ==
  \A l \in Loops : \A k \in 0..(MaxRounds - 1) :
    "loops" \in opened /\ round[l] = k ~>
      \/ round[l] > k \/ cancelled \/ exited
      \/ [](\E n \in Rounds : Alive(l, n))

(***************************************************************************)
(* "Signal inventory/attestation loops to stop and wait for graceful exit  *)
(* before we close dependencies they may still be using."                  *)
(* (server.go:554-555): no inventory collection, which asks DCGM for its   *)
(* devices, is running when DCGM is shut down, if the wait did not run     *)
(* into its limit.                                                         *)
(***************************************************************************)
NoWorkAfterClose ==
  "loops" \notin gaveUp /\ closes["dcgm"] > 0
    => \A n \in Rounds : worker["inventory"][n] # "collecting"
=============================================================================
