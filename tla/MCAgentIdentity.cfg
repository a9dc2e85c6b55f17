SPECIFICATION FairSpec
CONSTANTS
  daemon = daemon
  enroll1 = enroll1
  enroll2 = enroll2
  Callers <- MCCallers
  HardwareUUID = "dmi"
  RandomUUIDs = {"r1", "r2"}
  None = "none"
  MaxRestarts = 2
INVARIANTS Agreement InsertCommits
PROPERTIES WriteOnce RefinesRegister CallerFinishes
CHECK_DEADLOCK FALSE
