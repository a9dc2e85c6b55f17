SPECIFICATION FairSpec
CONSTANTS
  Collectors = {ticker, now}
  MaxSlots = 2
  Configurations <- MCConfigurations
  MaxWorld = 2
INVARIANTS OneReader WaitPaysOff
PROPERTIES CacheInOrder Renewed
