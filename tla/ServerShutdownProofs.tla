------------------------ MODULE ServerShutdownProofs ------------------------
(***************************************************************************)
(* The safety of ServerShutdown for any set of managers and any number of  *)
(* attempts, in two parts: what Stop does is shown with StopInv, and what  *)
(* the managers do meanwhile with LoopInv, which no step of New or Stop    *)
(* disturbs.                                                               *)
(***************************************************************************)
EXTENDS ServerShutdown, TLAPS

-----------------------------------------------------------------------------
(* AttemptLoop: the managers, for any number of attempts *)

(***************************************************************************)
(* What holds of each loop between any two steps of it, its worker and the *)
(* workers it abandoned.  Only the last attempt can be alive, because its  *)
(* start needed the lock that every worker keeps to its end; so whatever   *)
(* is recorded is about the last attempt.                                  *)
(***************************************************************************)
Good(l) ==
  /\ run[l] = "attempt" => round[l] < MaxRounds
  /\ run[l] = "wait" => round[l] # 0
  /\ runMu[l] => round[l] # 0 /\ Alive(l, round[l])
  /\ \A n \in Rounds :
       /\ Alive(l, n) => n = round[l] /\ runMu[l]
       /\ worker[l][n] = "exporting" => lastResult[l] = n
       /\ n > round[l] => worker[l][n] = "unused"
       /\ done[l][n] # "empty" => worker[l][n] \in {"sent", "ended"}
       /\ n = round[l] /\ done[l][n] = "ok" => lastResult[l] = n
  /\ run[l] = "sleep" /\ ~failed[l] => lastResult[l] = round[l]

LoopInv == LoopTypeOK /\ \A l \in Loops : Good(l)

-----------------------------------------------------------------------------

\* LoopInv holds of loops that were not started.
LEMMA LoopInitInv == LoopInit => LoopInv
<1> SUFFICES ASSUME LoopInit PROVE LoopInv
  OBVIOUS
<1>1. LoopTypeOK
  <2>1. 0 \in 0..MaxRounds
    BY RoundsBounded
  <2>2. round \in [Loops -> 0..MaxRounds] /\ lastResult \in [Loops -> 0..MaxRounds]
    BY <2>1 DEF LoopInit
  <2>3. [n \in Rounds |-> "unused"] \in [Rounds -> WorkerStates]
    BY DEF WorkerStates
  <2>4. worker \in [Loops -> [Rounds -> WorkerStates]]
    BY <2>3 DEF LoopInit
  <2>5. done \in [Loops -> [Rounds -> {"empty", "ok", "error"}]]
    BY DEF LoopInit
  <2> QED
    BY <2>2, <2>4, <2>5 DEF LoopInit, LoopTypeOK
<1>2. ASSUME NEW l \in Loops PROVE Good(l)
  <2>1. run[l] = "jitter" /\ round[l] = 0 /\ runMu[l] = FALSE
    BY DEF LoopInit
  <2>2. \A n \in Rounds : worker[l][n] = "unused" /\ done[l][n] = "empty"
    BY DEF LoopInit
  <2> QED
    BY <2>1, <2>2 DEF Good, Alive
<1> QED
  BY <1>1, <1>2 DEF LoopInv

\* A step of a loop leaves the others' state alone.
LEMMA OthersKept ==
  ASSUME LoopInv, NEW l \in Loops, NEW k \in Loops, k # l,
         LoopStep(l) \/ WorkerStep(l)
  PROVE  Good(k)'
<1>1. /\ run'[k] = run[k] /\ round'[k] = round[k] /\ runMu'[k] = runMu[k]
      /\ worker'[k] = worker[k] /\ done'[k] = done[k]
      /\ lastResult'[k] = lastResult[k] /\ failed'[k] = failed[k]
  BY DEF LoopInv, LoopTypeOK, LoopStep, WorkerStep, Goto, Wakes, Exits, StartsWorker,
         StillRunning, Receives, GivesUp, Records, Sends, Unlocks
<1>2. Good(k)
  BY DEF LoopInv
<1> QED
  BY <1>1, <1>2 DEF Good, Alive

\* The types of one loop's state.
LEMMA TypesAt ==
  ASSUME LoopTypeOK, NEW l \in Loops
  PROVE  /\ round[l] \in 0..MaxRounds /\ lastResult[l] \in 0..MaxRounds
         /\ runMu[l] \in BOOLEAN /\ failed[l] \in BOOLEAN
         /\ worker[l] \in [Rounds -> WorkerStates]
         /\ done[l] \in [Rounds -> {"empty", "ok", "error"}]
  BY DEF LoopTypeOK

\* Steps of Run that start no worker.
LEMMA RunKeepsInv ==
  ASSUME LoopInv, NEW l \in Loops,
         Wakes(l) \/ Exits(l) \/ StillRunning(l) \/ GivesUp(l)
  PROVE  LoopTypeOK' /\ Good(l)'
<1>1. LoopTypeOK'
  BY DEF LoopInv, LoopTypeOK, Wakes, Exits, StillRunning, GivesUp, Goto
<1>2. /\ UNCHANGED <<round, runMu, worker, done, lastResult>>
      /\ run'[l] = "attempt" => round[l] < MaxRounds
      /\ run'[l] # "wait"
      /\ run'[l] = "sleep" => failed'[l] = TRUE
  BY DEF LoopInv, LoopTypeOK, Wakes, Exits, StillRunning, GivesUp, Goto
<1>3. Good(l)
  BY DEF LoopInv
<1>4. Good(l)'
  BY <1>2, <1>3 DEF Good, Alive
<1> QED
  BY <1>1, <1>4

\* The lock was free, so no worker is alive, and the new one is the last.
LEMMA StartsWorkerKeepsInv ==
  ASSUME LoopInv, NEW l \in Loops, StartsWorker(l)
  PROVE  LoopTypeOK' /\ Good(l)'
<1> DEFINE r == round[l] + 1
<1>1. Good(l) /\ LoopTypeOK
  BY DEF LoopInv
<1>2. r \in Rounds /\ round[l] \in 0..MaxRounds
  BY <1>1, TypesAt, RoundsBounded DEF Good, StartsWorker, Rounds
<1>3. /\ round'[l] = r /\ runMu'[l] = TRUE /\ run'[l] = "wait"
      /\ worker'[l] = [worker[l] EXCEPT ![r] = "collecting"]
      /\ UNCHANGED <<done, lastResult, failed, cancelled>>
  BY <1>1 DEF StartsWorker, LoopTypeOK, Goto
<1>4. LoopTypeOK'
  <2>1. round' \in [Loops -> 0..MaxRounds]
    BY <1>1, <1>2 DEF StartsWorker, LoopTypeOK, Rounds
  <2>2. worker' \in [Loops -> [Rounds -> WorkerStates]]
    BY <1>1, <1>2 DEF StartsWorker, LoopTypeOK, WorkerStates
  <2>3. run' \in [Loops -> {"jitter", "attempt", "wait", "sleep", "exited"}]
        /\ runMu' \in [Loops -> BOOLEAN]
    BY <1>1 DEF StartsWorker, LoopTypeOK, Goto
  <2> QED
    BY <1>1, <1>3, <2>1, <2>2, <2>3 DEF LoopTypeOK
<1>5. /\ worker'[l][r] = "collecting"
      /\ \A n \in Rounds : n # r => worker'[l][n] = worker[l][n]
  BY <1>1, <1>2, <1>3, TypesAt
<1>6. /\ worker[l][r] = "unused" /\ done[l][r] = "empty"
      /\ \A n \in Rounds : ~Alive(l, n)
  BY <1>1, <1>2 DEF Good, StartsWorker, Rounds
<1>7. Good(l)'
  <2>1. run'[l] # "attempt" /\ run'[l] # "sleep" /\ round'[l] # 0
    BY <1>2, <1>3 DEF Rounds
  <2>2. Alive(l, round[l])'
    BY <1>3, <1>5 DEF Alive
  <2>3. ASSUME NEW n \in Rounds
        PROVE  /\ Alive(l, n)' => n = round'[l] /\ runMu'[l]
               /\ worker'[l][n] = "exporting" => lastResult'[l] = n
               /\ n > round'[l] => worker'[l][n] = "unused"
               /\ done'[l][n] # "empty" => worker'[l][n] \in {"sent", "ended"}
               /\ n = round'[l] /\ done'[l][n] = "ok" => lastResult'[l] = n
    <3>1. CASE n = r
      BY <3>1, <1>2, <1>3, <1>5, <1>6 DEF Alive
    <3>2. CASE n # r
      BY <3>2, <1>1, <1>2, <1>3, <1>5, <1>6 DEF Alive, Good, Rounds
    <3> QED
      BY <3>1, <3>2
  <2> QED
    BY <2>1, <2>2, <2>3, <1>3 DEF Good
<1> QED
  BY <1>4, <1>7

\* The result that Run gets is that of its last attempt.
LEMMA ReceivesKeepsInv ==
  ASSUME LoopInv, NEW l \in Loops, Receives(l)
  PROVE  LoopTypeOK' /\ Good(l)'
<1> DEFINE r == round[l]
<1>1. Good(l) /\ LoopTypeOK
  BY DEF LoopInv
<1>2. r \in Rounds
  BY <1>1, TypesAt, RoundsBounded DEF Good, Receives, Rounds
<1>3. /\ run'[l] = "sleep" /\ failed'[l] = (done[l][r] = "error")
      /\ done'[l] = [done[l] EXCEPT ![r] = "empty"]
      /\ UNCHANGED <<round, runMu, worker, lastResult, cancelled>>
  BY <1>1 DEF Receives, LoopTypeOK, Goto
<1>4. LoopTypeOK'
  <2>1. done' \in [Loops -> [Rounds -> {"empty", "ok", "error"}]]
    BY <1>1, <1>2 DEF Receives, LoopTypeOK
  <2>2. run' \in [Loops -> {"jitter", "attempt", "wait", "sleep", "exited"}]
        /\ failed' \in [Loops -> BOOLEAN]
    BY <1>1 DEF Receives, LoopTypeOK, Goto
  <2> QED
    BY <1>1, <1>3, <2>1, <2>2 DEF LoopTypeOK
<1>5. /\ done'[l][r] = "empty"
      /\ \A n \in Rounds : n # r => done'[l][n] = done[l][n]
  BY <1>1, <1>2, <1>3, TypesAt
<1>6. ~failed'[l] => lastResult[l] = r
  <2>1. done[l][r] \in {"ok", "error"}
    BY <1>1, <1>2, TypesAt DEF Receives
  <2> QED
    BY <2>1, <1>1, <1>2, <1>3 DEF Good
<1>7. Good(l)'
  BY <1>1, <1>2, <1>3, <1>5, <1>6 DEF Good, Alive
<1> QED
  BY <1>4, <1>7

\* A worker step is one of the last attempt, whose number it records.
LEMMA WorkerKeepsInv ==
  ASSUME LoopInv, NEW l \in Loops, NEW n \in Rounds,
         Records(l, n) \/ Sends(l, n) \/ Unlocks(l, n)
  PROVE  LoopTypeOK' /\ Good(l)'
<1>1. Good(l) /\ LoopTypeOK
  BY DEF LoopInv
<1>2. Alive(l, n) /\ n = round[l] /\ runMu[l]
  BY <1>1 DEF Good, Alive, Records, Sends, Unlocks
<1>3. CASE Records(l, n)
  <2>1. /\ lastResult'[l] = n /\ worker'[l] = [worker[l] EXCEPT ![n] = "exporting"]
        /\ UNCHANGED <<run, round, runMu, done, failed, cancelled>>
    BY <1>1, <1>3 DEF Records, LoopTypeOK
  <2>2. /\ worker'[l][n] = "exporting"
        /\ \A m \in Rounds : m # n => worker'[l][m] = worker[l][m]
    BY <1>1, <2>1, TypesAt
  <2>3. done[l][n] = "empty"
    BY <1>1, <1>3 DEF Good, Records
  <2>4. LoopTypeOK'
    <3>1. worker' \in [Loops -> [Rounds -> WorkerStates]]
      BY <1>1, <1>3 DEF Records, LoopTypeOK, WorkerStates
    <3>2. lastResult' \in [Loops -> 0..MaxRounds]
      BY <1>1, <1>3, RoundsBounded DEF Records, LoopTypeOK, Rounds
    <3> QED
      BY <1>1, <2>1, <3>1, <3>2 DEF LoopTypeOK
  <2>5. Good(l)'
    BY <1>1, <1>2, <2>1, <2>2, <2>3 DEF Good, Alive
  <2> QED
    BY <2>4, <2>5
<1>4. CASE Sends(l, n)
  <2>1. PICK x \in {"ok", "error"} :
          /\ x = "ok" => worker[l][n] = "exporting"
          /\ done' = [done EXCEPT ![l][n] = x]
    BY <1>4 DEF Sends
  <2>2. /\ worker'[l] = [worker[l] EXCEPT ![n] = "sent"]
        /\ done'[l] = [done[l] EXCEPT ![n] = x]
        /\ UNCHANGED <<run, round, runMu, lastResult, failed, cancelled>>
    BY <1>1, <1>4, <2>1 DEF Sends, LoopTypeOK
  <2>3. /\ worker'[l][n] = "sent" /\ done'[l][n] = x
        /\ \A m \in Rounds : m # n => worker'[l][m] = worker[l][m] /\ done'[l][m] = done[l][m]
    BY <1>1, <2>2, TypesAt
  <2>4. x = "ok" => lastResult[l] = n
    BY <1>1, <2>1 DEF Good
  <2>5. LoopTypeOK'
    <3>1. worker' \in [Loops -> [Rounds -> WorkerStates]]
      <4>1. /\ worker \in [Loops -> [Rounds -> WorkerStates]]
            /\ worker' = [worker EXCEPT ![l][n] = "sent"]
        BY <1>1, <1>4 DEF Sends, LoopTypeOK
      <4>2. "sent" \in WorkerStates
        BY DEF WorkerStates
      <4> QED
        BY <4>1, <4>2
    <3>2. done' \in [Loops -> [Rounds -> {"empty", "ok", "error"}]]
      BY <1>1, <2>1 DEF LoopTypeOK
    <3> QED
      BY <1>1, <2>2, <3>1, <3>2 DEF LoopTypeOK
  <2>6. Good(l)'
    <3>1. \A m \in Rounds : Alive(l, m)' <=> Alive(l, m)
      BY <1>2, <2>3 DEF Alive
    <3>2. \A m \in Rounds :
            /\ Alive(l, m)' => m = round[l] /\ runMu[l]
            /\ worker'[l][m] = "exporting" => lastResult[l] = m
            /\ m > round[l] => worker'[l][m] = "unused"
            /\ done'[l][m] # "empty" => worker'[l][m] \in {"sent", "ended"}
            /\ m = round[l] /\ done'[l][m] = "ok" => lastResult[l] = m
      <4> TAKE m \in Rounds
      <4>1. CASE m = n
        BY <1>2, <2>3, <2>4, <4>1, RoundsBounded DEF Rounds
      <4>2. CASE m # n
        BY <1>1, <2>3, <3>1, <4>2 DEF Good
      <4> QED
        BY <4>1, <4>2
    <3> QED
      BY <1>1, <1>2, <2>2, <3>1, <3>2 DEF Good
  <2> QED
    BY <2>5, <2>6
<1>5. CASE Unlocks(l, n)
  <2>1. /\ worker'[l] = [worker[l] EXCEPT ![n] = "ended"] /\ runMu'[l] = FALSE
        /\ UNCHANGED <<run, round, done, lastResult, failed, cancelled>>
    BY <1>1, <1>5 DEF Unlocks, LoopTypeOK
  <2>2. /\ worker'[l][n] = "ended"
        /\ \A m \in Rounds : m # n => worker'[l][m] = worker[l][m]
    BY <1>1, <2>1, TypesAt
  <2>3. LoopTypeOK'
    <3>1. worker' \in [Loops -> [Rounds -> WorkerStates]]
      <4>1. /\ worker \in [Loops -> [Rounds -> WorkerStates]]
            /\ worker' = [worker EXCEPT ![l][n] = "ended"]
        BY <1>1, <1>5 DEF Unlocks, LoopTypeOK
      <4>2. "ended" \in WorkerStates
        BY DEF WorkerStates
      <4> QED
        BY <4>1, <4>2
    <3>2. runMu' \in [Loops -> BOOLEAN]
      BY <1>1, <1>5 DEF Unlocks, LoopTypeOK
    <3> QED
      BY <1>1, <2>1, <3>1, <3>2 DEF LoopTypeOK
  <2>4. Good(l)'
    BY <1>1, <1>2, <2>1, <2>2 DEF Good, Alive
  <2> QED
    BY <2>3, <2>4
<1> QED
  BY <1>3, <1>4, <1>5

\* Steps of the loops and their workers preserve the invariant.
LEMMA LoopNextKeepsInv ==
  ASSUME LoopInv, LoopNext
  PROVE  LoopInv'
<1>1. PICK l \in Loops : LoopStep(l) \/ WorkerStep(l)
  BY DEF LoopNext
<1>2. LoopTypeOK' /\ Good(l)'
  <2>1. CASE LoopStep(l)
    BY <2>1, RunKeepsInv, StartsWorkerKeepsInv, ReceivesKeepsInv DEF LoopStep
  <2>2. CASE WorkerStep(l)
    BY <2>2, WorkerKeepsInv DEF WorkerStep
  <2> QED
    BY <1>1, <2>1, <2>2
<1>3. \A k \in Loops : k # l => Good(k)'
  BY <1>1, OthersKept
<1> QED
  BY <1>2, <1>3 DEF LoopInv

\* So do a cancellation and steps of others.
LEMMA CancelKeepsInv ==
  ASSUME LoopInv, cancelled' \in BOOLEAN,
         UNCHANGED <<run, round, runMu, worker, done, lastResult, failed>>
  PROVE  LoopInv'
  BY DEF LoopInv, LoopTypeOK, Good, Alive

\* What the invariant says of the properties.
LEMMA LoopInvImplies ==
  ASSUME LoopInv
  PROVE  OneWorker /\ LockFollowsWorker /\ SuccessIsFresh
<1>1. OneWorker
  BY DEF LoopInv, Good, OneWorker
<1>2. SuccessIsFresh
  BY DEF LoopInv, Good, SuccessIsFresh
<1>3. ASSUME NEW l \in Loops PROVE runMu[l] <=> \E n \in Rounds : Alive(l, n)
  <2>1. runMu[l] => round[l] \in Rounds /\ Alive(l, round[l])
    BY TypesAt, RoundsBounded DEF LoopInv, Good, Rounds
  <2>2. \A n \in Rounds : Alive(l, n) => runMu[l]
    BY DEF LoopInv, Good
  <2>3. runMu[l] \in BOOLEAN
    BY TypesAt DEF LoopInv
  <2> QED
    BY <2>1, <2>2, <2>3
<1> QED
  BY <1>1, <1>2, <1>3 DEF LockFollowsWorker

-----------------------------------------------------------------------------
(* ServerShutdown: New and Stop *)

\* What the body of Stop has closed when it comes to a step.
ClosedBy(s) ==
  CASE s = "exporter" -> {"workload"}
    [] s = "components" -> {"workload", "exporter"}
    [] s = "dcgm" -> {"workload", "exporter", "components"}
    [] s = "databases" -> {"workload", "exporter", "components", "dcgm"}
    [] s = "done" -> Resources
    [] OTHER -> {}

\* The steps of the body that come after Shutdown.
AfterHTTP == Resources \cup {"done"}

(***************************************************************************)
(* Stop runs only when New is over, so what is opened no longer changes;   *)
(* and each wait of the body leaves what it waited for, or gaveUp says so. *)
(***************************************************************************)
StopInv ==
  /\ boot \in BootSteps
  /\ stopBody \in StopSteps
  /\ caller \in [StopCallers -> {"running", "stopping", "returned"}]
  /\ closes \in [Resources -> Nat]
  /\ \A r \in Resources :
       /\ r \in ClosedBy(stopBody) /\ r \in opened => closes[r] = 1
       /\ r \notin ClosedBy(stopBody) \/ r \notin opened => closes[r] = 0
  /\ \A c \in StopCallers : caller[c] = "returned" => stopBody = "done"
  /\ (\E c \in StopCallers : caller[c] # "running") => boot \in {"up", "failed"}
  /\ stopBody # "new" => boot \in {"up", "failed"}
  /\ serve # "none" => boot = "up"
  /\ serve = "none" => handler = "none"
  /\ stopBody \in AfterHTTP =>
       \/ gaveUp \cap {"http", "noServer"} # {}
       \/ handler = "none" /\ serve \in {"none", "returned"}
  /\ stopBody \in AfterHTTP \cup {"http"} => "loops" \in gaveUp \/ LoopsGone

-----------------------------------------------------------------------------

\* The state in which runCommand calls New.
LEMMA StopInitInv == Init => StopInv
  BY DEF Init, StopInv, BootSteps, StopSteps, Resources, StopCallers, ClosedBy, AfterHTTP

\* New opens one thing more, or fails.
LEMMA BootKeepsInv ==
  ASSUME StopInv, BootStep
  PROVE  StopInv'
<1>1. /\ boot \notin {"up", "failed"} /\ stopBody = "new" /\ UNCHANGED <<stopBody, closes>>
      /\ serve = "none" /\ \A c \in StopCallers : caller[c] = "running"
  BY DEF StopInv, BootStep, BootOpens, BootFails, BootWithoutDatabases, Resources
<1>2. ClosedBy(stopBody) = {}
  BY <1>1 DEF ClosedBy
<1>3. CASE BootOpens
  BY <1>1, <1>2, <1>3 DEF BootOpens, AfterBoot, StopInv, BootSteps, Resources, AfterHTTP
<1>4. CASE BootFails
  BY <1>1, <1>2, <1>4 DEF BootFails, StopInv, BootSteps, Resources, StopCallers, AfterHTTP
<1>5. CASE BootWithoutDatabases
  BY <1>1, <1>2, <1>5 DEF BootWithoutDatabases, StopInv, BootSteps, Resources, AfterHTTP
<1> QED
  BY <1>3, <1>4, <1>5 DEF BootStep

\* What runs beside Stop: Serve returns or handlers go on.
LEMMA BesideKeepsInv ==
  ASSUME StopInv,
         ServerStarts \/ ServeFails \/ HandlerStep \/ SignalArrives \/ ServerReturns
  PROVE  StopInv'
<1>1. CASE ServerStarts
  BY <1>1 DEF ServerStarts, StopInv, loopVars, bootVars, LoopsGone, AfterHTTP
<1>2. CASE ServeFails
  BY <1>2 DEF ServeFails, StopInv, loopVars, bootVars, LoopsGone
<1>3. CASE HandlerStep
  BY <1>3 DEF HandlerStep, StopInv, loopVars, bootVars, LoopsGone
<1>4. CASE SignalArrives
  BY <1>4 DEF SignalArrives, StopInv, loopVars, LoopsGone
<1>5. CASE ServerReturns
  BY <1>5 DEF ServerReturns, StopInv, loopVars, bootVars, LoopsGone, StopCallers
<1> QED
  BY <1>1, <1>2, <1>3, <1>4, <1>5

\* The callers of Stop.
LEMMA CallersKeepInv ==
  ASSUME StopInv, NEW c \in StopCallers,
         StopBegins(c) \/ StopReturns(c) \/ SignalHandled \/ ProcessExits
  PROVE  StopInv'
<1>1. CASE StopBegins(c)
  <2>1. ClosedBy(stopBody) = {} /\ ClosedBy(stopBody') = {} /\ stopBody' = "loops"
    BY <1>1 DEF StopBegins, BodyGoto, ClosedBy
  <2>2. boot \in {"up", "failed"}
    BY <1>1 DEF StopBegins, StopInv
  <2> QED
    BY <1>1, <2>1, <2>2 DEF StopBegins, StopInv, bootVars, LoopsGone, StopSteps,
                            AfterHTTP, Resources
<1>2. CASE StopReturns(c)
  BY <1>2 DEF StopReturns, StopInv, loopVars, bootVars, LoopsGone
<1>3. CASE SignalHandled
  BY <1>3 DEF SignalHandled, StopInv, bootVars, LoopsGone, StopCallers
<1>4. CASE ProcessExits
  BY <1>4 DEF ProcessExits, StopInv, loopVars, bootVars, LoopsGone
<1> QED
  BY <1>1, <1>2, <1>3, <1>4

\* The waits of the body.
LEMMA WaitsKeepInv ==
  ASSUME StopInv, StopWaitsForLoops \/ StopShutsDownServer
  PROVE  StopInv'
<1>1. ClosedBy(stopBody) = {} /\ ClosedBy(stopBody') = {}
  BY DEF StopWaitsForLoops, StopShutsDownServer, BodyGoto, ClosedBy
<1>2. CASE StopWaitsForLoops
  <2>1. LoopsGone' = LoopsGone
    BY <1>2 DEF StopWaitsForLoops, loopVars, bootVars, LoopsGone
  <2> QED
    BY <1>1, <1>2, <2>1 DEF StopWaitsForLoops, BodyGoto, StopInv, bootVars,
                            StopSteps, AfterHTTP, Resources
<1>3. CASE StopShutsDownServer
  <2>1. (LoopsGone' = LoopsGone) /\ ("loops" \in gaveUp => "loops" \in gaveUp')
    BY <1>3 DEF StopShutsDownServer, loopVars, bootVars, LoopsGone
  <2>2. stopBody = "http" /\ stopBody' = "workload"
    BY <1>3 DEF StopShutsDownServer, BodyGoto
  <2>3. \/ gaveUp' \cap {"http", "noServer"} # {}
        \/ handler' = "none" /\ serve' \in {"none", "returned"}
    BY <1>3 DEF StopShutsDownServer, StopInv
  <2>4. serve' # "none" => boot' = "up"
    BY <1>3 DEF StopShutsDownServer, StopInv, bootVars
  <2> QED
    BY <1>1, <1>3, <2>1, <2>2, <2>3, <2>4
       DEF StopShutsDownServer, StopInv, bootVars, StopSteps, AfterHTTP, Resources
<1> QED
  BY <1>2, <1>3

\* The body closes the next resource, for the first time.
LEMMA ClosesKeepsInv ==
  ASSUME StopInv, StopCloses
  PROVE  StopInv'
<1>1. stopBody \in Resources /\ stopBody' \in AfterHTTP
  BY DEF StopCloses, BodyGoto, AfterHTTP, Resources
<1>2. /\ stopBody \notin ClosedBy(stopBody)
      /\ ClosedBy(stopBody') = ClosedBy(stopBody) \cup {stopBody}
  BY DEF StopCloses, BodyGoto, ClosedBy, Resources
<1>3. /\ closes[stopBody] = 0
      /\ stopBody \in opened => closes'[stopBody] = 1
      /\ stopBody \notin opened => closes'[stopBody] = 0
      /\ \A r \in Resources : r # stopBody => closes'[r] = closes[r]
  BY <1>1, <1>2 DEF StopCloses, StopInv
<1>4. UNCHANGED <<boot, opened, caller, serve, handler, gaveUp>> /\ LoopsGone' = LoopsGone
  BY DEF StopCloses, loopVars, bootVars, LoopsGone
<1>5. closes' \in [Resources -> Nat]
  <2>1. closes[stopBody] \in Nat /\ closes[stopBody] + 1 \in Nat
    BY <1>1 DEF StopInv
  <2> QED
    BY <2>1 DEF StopCloses, StopInv
<1>6. \A r \in Resources :
        /\ r \in ClosedBy(stopBody') /\ r \in opened => closes'[r] = 1
        /\ r \notin ClosedBy(stopBody') \/ r \notin opened => closes'[r] = 0
  BY <1>1, <1>2, <1>3 DEF StopInv
<1>7. \A c \in StopCallers : caller[c] # "returned"
  BY <1>1 DEF StopInv, Resources
<1> QED
  BY <1>1, <1>4, <1>5, <1>6, <1>7 DEF StopInv, StopSteps, AfterHTTP, Resources

\* The managers: a loop that exited stays so.
LEMMA ManagersKeepStopInv ==
  ASSUME StopInv, LoopTypeOK, Managers(LoopNext)
  PROVE  StopInv'
<1>1. LoopsGone => LoopsGone'
  <2> SUFFICES ASSUME LoopsGone, "loops" \in opened, NEW k \in Loops
               PROVE  run'[k] = "exited"
    BY DEF Managers, bootVars, LoopsGone
  <2>1. PICK l \in Loops : LoopStep(l) \/ WorkerStep(l)
    BY DEF Managers, LoopNext
  <2>2. run[l] = "exited" /\ run[k] = "exited"
    BY DEF LoopsGone
  <2>3. ~LoopStep(l)
    BY <2>2 DEF LoopStep, Wakes, Exits, StartsWorker, StillRunning, Receives, GivesUp
  <2> QED
    BY <2>1, <2>2, <2>3 DEF WorkerStep, Records, Sends, Unlocks
<1> QED
  BY <1>1 DEF Managers, StopInv, bootVars, stopVars

\* Every step preserves StopInv.
LEMMA NextKeepsStopInv ==
  ASSUME StopInv, LoopTypeOK, [Next]_vars
  PROVE  StopInv'
<1>1. CASE StopStep
  <2>1. \/ StopWaitsForLoops \/ StopShutsDownServer \/ StopCloses
        \/ \E c \in StopCallers :
             StopBegins(c) \/ StopReturns(c) \/ SignalHandled \/ ProcessExits
    BY <1>1 DEF StopStep, StopCallers
  <2> QED
    BY <2>1, CallersKeepInv, WaitsKeepInv, ClosesKeepsInv
<1>2. CASE UNCHANGED vars
  BY <1>2 DEF vars, bootVars, stopVars, loopVars, StopInv, LoopsGone
<1> QED
  BY <1>1, <1>2, BootKeepsInv, BesideKeepsInv, ManagersKeepStopInv DEF Next

-----------------------------------------------------------------------------

\* New, Stop and what runs beside them leave the managers alone, except that
\* they cancel them.
LEMMA NextKeepsLoopInv ==
  ASSUME LoopInv, [Next]_vars
  PROVE  LoopInv'
<1>1. CASE Managers(LoopNext)
  BY <1>1, LoopNextKeepsInv DEF Managers
<1>2. CASE ~Managers(LoopNext)
  <2>1. UNCHANGED <<run, round, runMu, worker, done, lastResult, failed>>
        /\ cancelled' \in {cancelled, TRUE}
    BY <1>2 DEF Next, vars, loopVars, BootStep, BootOpens, BootFails,
         BootWithoutDatabases, ServerStarts, ServeFails, HandlerStep, SignalArrives,
         ServerReturns, StopStep, StopBegins, StopReturns, StopWaitsForLoops,
         StopShutsDownServer, StopCloses, SignalHandled, ProcessExits
  <2> QED
    BY <2>1, CancelKeepsInv DEF LoopInv, LoopTypeOK
<1> QED
  BY <1>1, <1>2

\* The inductive invariant of the daemon.
THEOREM Invariance == Spec => [](LoopInv /\ StopInv)
<1>1. Init => LoopInv /\ StopInv
  BY LoopInitInv, StopInitInv DEF Init
<1>2. LoopInv /\ StopInv /\ [Next]_vars => (LoopInv /\ StopInv)'
  BY NextKeepsLoopInv, NextKeepsStopInv DEF LoopInv
<1> QED
  BY <1>1, <1>2, PTL DEF Spec

(***************************************************************************)
(* However many attempts time out, and whatever New and Stop do: a manager *)
(* never has two workflows at once.                                        *)
(***************************************************************************)
THEOREM OneWorkerHolds == Spec => []OneWorker
<1>1. LoopInv => OneWorker
  BY LoopInvImplies
<1> QED
  BY <1>1, Invariance, PTL

(***************************************************************************)
(* runMu is held exactly while a worker is alive, on every path of         *)
(* runAttempt.                                                             *)
(***************************************************************************)
THEOREM LockFollowsWorkerHolds == Spec => []LockFollowsWorker
<1>1. LoopInv => LockFollowsWorker
  BY LoopInvImplies
<1> QED
  BY <1>1, Invariance, PTL

(***************************************************************************)
(* A success that Run saw is about the data of that attempt, never of an   *)
(* abandoned one.                                                          *)
(***************************************************************************)
THEOREM SuccessIsFreshHolds == Spec => []SuccessIsFresh
<1>1. LoopInv => SuccessIsFresh
  BY LoopInvImplies
<1> QED
  BY <1>1, Invariance, PTL

(***************************************************************************)
(* stopOnce: nothing is closed twice, whoever calls Stop.                  *)
(***************************************************************************)
THEOREM ClosedOnceHolds == Spec => []ClosedOnce
<1>1. ASSUME StopInv, NEW r \in Resources PROVE closes[r] <= 1
  <2>1. closes[r] = 1 \/ closes[r] = 0
    BY <1>1 DEF StopInv
  <2> QED
    BY <2>1
<1>2. StopInv => ClosedOnce
  BY <1>1 DEF ClosedOnce
<1> QED
  BY <1>2, Invariance, PTL

(***************************************************************************)
(* A caller of Stop goes on when everything New had opened is closed.      *)
(***************************************************************************)
THEOREM StopReturnsWhenClosedHolds == Spec => []StopReturnsWhenClosed
<1>1. StopInv => StopReturnsWhenClosed
  BY DEF StopInv, StopReturnsWhenClosed, ClosedBy
<1> QED
  BY <1>1, Invariance, PTL

\* Something is closed only when the waits are over.
LEMMA ClosedAfterWaits ==
  ASSUME StopInv, NEW r \in Resources, closes[r] > 0
  PROVE  stopBody \in AfterHTTP
  BY DEF StopInv, ClosedBy, AfterHTTP, Resources

(***************************************************************************)
(* Requests end before anything they use is closed, unless Shutdown gave   *)
(* up or there was no server to shut down.                                 *)
(***************************************************************************)
THEOREM RequestsDrainedHolds == Spec => []RequestsDrained
<1>1. StopInv => RequestsDrained
  BY ClosedAfterWaits DEF StopInv, RequestsDrained
<1> QED
  BY <1>1, Invariance, PTL

(***************************************************************************)
(* The loops' Run returned before anything is closed, unless the wait for  *)
(* them gave up.                                                           *)
(***************************************************************************)
THEOREM LoopsExitedFirstHolds == Spec => []LoopsExitedFirst
<1>1. StopInv => LoopsExitedFirst
  BY ClosedAfterWaits DEF StopInv, LoopsExitedFirst
<1> QED
  BY <1>1, Invariance, PTL
=============================================================================
