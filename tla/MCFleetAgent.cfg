SPECIFICATION Spec
CONSTANTS
  b1 = b1
  b2 = b2
  g1 = g1
  g2 = g2
  z1 = z1
  Backends <- MCBackends
  Gateway = gateway
  None = None
  Names <- MCNames
  EnrollFlags <- MCEnrollFlags
  Resolve <- AsRequested
  MaxFaults = 1
  MaxCommands = 2
  CollectorModes = {FALSE}
  RetryMaxAttempts = 1
  Configurations <- MCConfigurations
INVARIANTS EnrolledIsComplete UnenrolledIsSilent
PROPERTY SettledStays
SYMMETRY BackendSymmetry
