SPECIFICATION FairCycleSpec
CONSTANTS
  b1 = b1
  b2 = b2
  Backends <- MCBackends
  Gateway = gateway
  None = None
  Names = {}
  EnrollFlags <- MCEnrollFlags
  MaxFaults = 4
  MaxCommands = 2
  CollectorModes = {TRUE, FALSE}
  RetryMaxAttempts = 3
INVARIANTS WorkIsBounded
PROPERTIES CycleFinishes
