SPECIFICATION Spec
CONSTANTS
  Loops <- MCLoops
  MaxRounds = 1
INVARIANT NoWorkAfterClose
CHECK_DEADLOCK FALSE
