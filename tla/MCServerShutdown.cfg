SPECIFICATION FairSpec
CONSTANTS
  Loops <- MCLoop
  MaxRounds = 3
INVARIANTS
  ClosedOnce StopReturnsWhenClosed RequestsDrained LoopsExitedFirst
  OneWorker LockFollowsWorker SuccessIsFresh
PROPERTIES SignalEndsProcess ExitsWhenCancelled AttemptsGoOn
CHECK_DEADLOCK FALSE
