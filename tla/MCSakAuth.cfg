SPECIFICATION FairSpec
CONSTANTS
  r1 = r1
  r2 = r2
  r3 = r3
  Requests <- MCRequests
  MaxTokens = 3
INVARIANTS OneRefreshPerToken RetryUsesNewer EnrollmentHoldsLock
PROPERTIES NeverOlder RequestsEnd
