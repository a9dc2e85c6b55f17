SPECIFICATION CycleSpec
CONSTANTS
  b1 = b1
  b2 = b2
  Backends <- MCBackends
  Gateway = gateway
  None = None
  Names = {}
  EnrollFlags <- MCEnrollFlags
  MaxFaults = 1
  MaxCommands = 1
  CollectorModes = {TRUE}
  RetryMaxAttempts = 1
INVARIANT NoTokenToGateway
