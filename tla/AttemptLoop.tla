---------------------------- MODULE AttemptLoop -----------------------------
(***************************************************************************)
(* The loop that the inventory and the attestation manager share (Run and  *)
(* runAttempt; the two copies differ in names only).  Each attempt runs    *)
(* CollectOnce in a goroutine of its own, a worker, under a timeout.  When *)
(* the timeout or a cancellation comes first, the loop goes on and the     *)
(* worker is left behind: it may not watch its context, and ends when it   *)
(* ends.  runMu, taken by the loop with TryLock and released by the        *)
(* worker, keeps the next attempt from overlapping with it.                *)
(*                                                                         *)
(* An enabled loop has a positive interval (Config.Validate) and timeout   *)
(* (the default ones), so only that branch of runAttempt is modelled.      *)
(***************************************************************************)
EXTENDS Naturals

CONSTANTS
  Loops,     \* the managers of the daemon
  MaxRounds  \* bound on the workers a loop starts

ASSUME RoundsBounded == MaxRounds \in Nat

VARIABLES
  run,         \* run[l]: where Run is
  round,       \* round[l]: the last attempt that got a worker
  runMu,       \* runMu[l]: whether it is locked
  worker,      \* worker[l][n]: the worker of attempt n
  done,        \* done[l][n]: the buffered result of attempt n
  lastResult,  \* lastResult[l]: attempt of lastResult or lastSnapshot; 0: nil
  failed,      \* failed[l]: whether the last attempt returned an error
  cancelled    \* whether loopCtx is cancelled

loopVars == <<run, round, runMu, worker, done, lastResult, failed,
              cancelled>>

Rounds == 1..MaxRounds

WorkerStates == {"unused", "collecting", "exporting", "sent", "ended"}

Alive(l, n) == worker[l][n] \in {"collecting", "exporting", "sent"}

LoopTypeOK ==
  /\ run \in [Loops -> {"jitter", "attempt", "wait", "sleep", "exited"}]
  /\ round \in [Loops -> 0..MaxRounds]
  /\ runMu \in [Loops -> BOOLEAN]
  /\ worker \in [Loops -> [Rounds -> WorkerStates]]
  /\ done \in [Loops -> [Rounds -> {"empty", "ok", "error"}]]
  /\ lastResult \in [Loops -> 0..MaxRounds]
  /\ failed \in [Loops -> BOOLEAN]
  /\ cancelled \in BOOLEAN

LoopInit ==
  /\ run = [l \in Loops |-> "jitter"]
  /\ round = [l \in Loops |-> 0]
  /\ runMu = [l \in Loops |-> FALSE]
  /\ worker = [l \in Loops |-> [n \in Rounds |-> "unused"]]
  /\ done = [l \in Loops |-> [n \in Rounds |-> "empty"]]
  /\ lastResult = [l \in Loops |-> 0]
  /\ failed = [l \in Loops |-> FALSE]
  /\ cancelled = FALSE

Goto(l, step) == run' = [run EXCEPT ![l] = step]

-----------------------------------------------------------------------------
(* Run and runAttempt *)

\* sleepWithContext returns: the startup jitter or the interval (the retry
\* interval after an error) is over, or the context is cancelled.  A loop
\* that used up MaxRounds sleeps on.
Wakes(l) ==
  /\ run[l] \in {"jitter", "sleep"}
  /\ round[l] < MaxRounds
  /\ Goto(l, "attempt")
  /\ UNCHANGED <<round, runMu, worker, done, lastResult, failed,
                 cancelled>>

Exits(l) ==
  /\ run[l] \in {"jitter", "sleep"}
  /\ cancelled
  /\ Goto(l, "exited")
  /\ UNCHANGED <<round, runMu, worker, done, lastResult, failed,
                 cancelled>>

\* Mutant: no TryLock.
StartsWorkerAnyway(l) ==
  /\ run[l] = "attempt"
  /\ runMu' = [runMu EXCEPT ![l] = TRUE]
  /\ round' = [round EXCEPT ![l] = @ + 1]
  /\ worker' = [worker EXCEPT ![l][round[l] + 1] = "collecting"]
  /\ Goto(l, "wait")
  /\ UNCHANGED <<done, lastResult, failed, cancelled>>

\* TryLock succeeds; the worker is started.
StartsWorker(l) ==
  /\ run[l] = "attempt"
  /\ ~runMu[l]
  /\ runMu' = [runMu EXCEPT ![l] = TRUE]
  /\ round' = [round EXCEPT ![l] = @ + 1]
  /\ worker' = [worker EXCEPT ![l][round[l] + 1] = "collecting"]
  /\ Goto(l, "wait")
  /\ UNCHANGED <<done, lastResult, failed, cancelled>>

\* TryLock fails: "previous ... is still running".
StillRunning(l) ==
  /\ run[l] = "attempt"
  /\ runMu[l]
  /\ failed' = [failed EXCEPT ![l] = TRUE]
  /\ Goto(l, "sleep")
  /\ UNCHANGED <<round, runMu, worker, done, lastResult, cancelled>>

\* Mutant: the attempts share one channel.
ReceivesAny(l) ==
  /\ run[l] = "wait"
  /\ \E n \in Rounds :
       /\ done[l][n] # "empty"
       /\ done' = [done EXCEPT ![l][n] = "empty"]
       /\ failed' = [failed EXCEPT ![l] = done[l][n] = "error"]
  /\ Goto(l, "sleep")
  /\ UNCHANGED <<round, runMu, worker, lastResult, cancelled>>

\* select: the result is there.
Receives(l) ==
  /\ run[l] = "wait"
  /\ done[l][round[l]] # "empty"
  /\ done' = [done EXCEPT ![l][round[l]] = "empty"]
  /\ failed' = [failed EXCEPT ![l] = done[l][round[l]] = "error"]
  /\ Goto(l, "sleep")
  /\ UNCHANGED <<round, runMu, worker, lastResult, cancelled>>

\* Mutant: the loop releases the lock of the worker it abandons.
GivesUpUnlocking(l) ==
  /\ run[l] = "wait"
  /\ failed' = [failed EXCEPT ![l] = TRUE]
  /\ runMu' = [runMu EXCEPT ![l] = FALSE]
  /\ Goto(l, "sleep")
  /\ UNCHANGED <<round, worker, done, lastResult, cancelled>>

\* Mutant: the loop waits for the worker to return.
GivesUpWithWorker(l) ==
  /\ run[l] = "wait"
  /\ worker[l][round[l]] = "ended"
  /\ failed' = [failed EXCEPT ![l] = TRUE]
  /\ Goto(l, "sleep")
  /\ UNCHANGED <<round, runMu, worker, done, lastResult, cancelled>>

\* select: runCtx is done, by its deadline or because loopCtx is.
GivesUp(l) ==
  /\ run[l] = "wait"
  /\ failed' = [failed EXCEPT ![l] = TRUE]
  /\ Goto(l, "sleep")
  /\ UNCHANGED <<round, runMu, worker, done, lastResult, cancelled>>

-----------------------------------------------------------------------------
(* The worker: CollectOnce, the result, and the deferred Unlock *)

\* Mutant: the result is filed under the attempt that comes next.
RecordsAhead(l, n) ==
  /\ worker[l][n] = "collecting"
  /\ lastResult' = [lastResult EXCEPT ![l] = n + 1]
  /\ worker' = [worker EXCEPT ![l][n] = "exporting"]
  /\ UNCHANGED <<run, round, runMu, done, failed, cancelled>>

\* Data was collected: it becomes the last result, however late it is.
Records(l, n) ==
  /\ worker[l][n] = "collecting"
  /\ lastResult' = [lastResult EXCEPT ![l] = n]
  /\ worker' = [worker EXCEPT ![l][n] = "exporting"]
  /\ UNCHANGED <<run, round, runMu, done, failed, cancelled>>

\* CollectOnce returns: early with an error, or after the export.
Sends(l, n) ==
  /\ worker[l][n] \in {"collecting", "exporting"}
  /\ \E r \in {"ok", "error"} :
       /\ r = "ok" => worker[l][n] = "exporting"
       /\ done' = [done EXCEPT ![l][n] = r]
  /\ worker' = [worker EXCEPT ![l][n] = "sent"]
  /\ UNCHANGED <<run, round, runMu, lastResult, failed, cancelled>>

\* Mutant: the worker returns without Unlock.
ReturnsLocked(l, n) ==
  /\ worker[l][n] = "sent"
  /\ worker' = [worker EXCEPT ![l][n] = "ended"]
  /\ UNCHANGED <<run, round, runMu, done, lastResult, failed, cancelled>>

\* The result is sent before the deferred Unlock runs.
Unlocks(l, n) ==
  /\ worker[l][n] = "sent"
  /\ worker' = [worker EXCEPT ![l][n] = "ended"]
  /\ runMu' = [runMu EXCEPT ![l] = FALSE]
  /\ UNCHANGED <<run, round, done, lastResult, failed, cancelled>>

-----------------------------------------------------------------------------

Cancels ==
  /\ ~cancelled
  /\ cancelled' = TRUE
  /\ UNCHANGED <<run, round, runMu, worker, done, lastResult, failed>>

LoopStep(l) ==
  \/ Wakes(l) \/ Exits(l) \/ StartsWorker(l) \/ StillRunning(l)
  \/ Receives(l) \/ GivesUp(l)

WorkerStep(l) == \E n \in Rounds : Records(l, n) \/ Sends(l, n) \/ Unlocks(l, n)

LoopNext == \E l \in Loops : LoopStep(l) \/ WorkerStep(l)

CancelledLoopNext == LoopNext \/ Cancels

LoopSpec == LoopInit /\ [][CancelledLoopNext]_loopVars

-----------------------------------------------------------------------------

(***************************************************************************)
(* At most one workflow of a manager runs at any time, also when attempts  *)
(* were abandoned: evidence and inventory are never collected twice in     *)
(* parallel.                                                               *)
(***************************************************************************)
OneWorker ==
  \A l \in Loops : \A m, n \in Rounds : Alive(l, m) /\ Alive(l, n) => m = n

(***************************************************************************)
(* runMu is locked exactly while a worker is alive: it is handed from the  *)
(* loop to the worker and no path forgets to release it, so an abandoned   *)
(* attempt blocks later ones only as long as it really runs.               *)
(***************************************************************************)
LockFollowsWorker ==
  \A l \in Loops : runMu[l] <=> \E n \in Rounds : Alive(l, n)

(***************************************************************************)
(* An attempt that is reported as a success is the one lastResult and      *)
(* lastSnapshot are about: a late worker of an earlier attempt neither     *)
(* answers for a later one nor overwrites its data.                        *)
(***************************************************************************)
SuccessIsFresh ==
  \A l \in Loops :
    run[l] = "sleep" /\ ~failed[l] => lastResult[l] = round[l]
=============================================================================
