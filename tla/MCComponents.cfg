SPECIFICATION Spec
CONSTANTS
  d1 = d1
  d2 = d2
  Unset = Unset
  Invalid = Invalid
  None = None
  NotBuilt = NotBuilt
  Blank = Blank
  BadLine = BadLine
  HugeLine = HugeLine
  Daemons <- MCDaemons
  MaxStarts = 2
  Registry <- MCRegistry
  Filenames <- MCFilenames
  Contents <- MCContents
  DeviceMaps <- MCDeviceMaps
  maxJobIDsPerMapping = 2
  MaxChanges = 2
  Hosts <- MCLists
CHECK_DEADLOCK FALSE
INVARIANT
  WildcardEnablesAll
