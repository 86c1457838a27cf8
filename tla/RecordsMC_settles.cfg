SPECIFICATION RecordsSpec
CONSTANTS
  m1 = m1
  m2 = m2
  m3 = m3
  s1 = s1
  j1 = j1
  j2 = j2
  c1 = c1
  c2 = c2
  NoJob = NoJob
  Foreign = Foreign
  NoCall = NoCall
  JobIds <- TwoJobs
  Calls <- TwoCalls
  MaxAttempts = 2
  MaxDeferrals = 1
  MaxKills = 1
  MaxRestarts = 1
  MaxLost = 1
  MaxForeign = 1
  MaxDeletions = 1
  MaxCrashes = 1
  Jobs <- TwoJobs
  MaxVerdicts = 2
  Parts <- StorageAndOutbox
  Mutators <- TwoMutators
  Savers <- OneSaver
  Faults <- EveryFault
  Deletable <- None
  Attempts = 1
  MaxEntries = 2
  Outages <- AnyOutage
  MaxOutages = 1
  MaxStops = 1
  MaxDiskErrors = 1
INVARIANTS StorageTypeOK FailedInvisible NothingVanishes SpoolOnDisk
PROPERTIES EveryCallSettles EventuallyHeard
CONSTRAINT OneRerun
CHECK_DEADLOCK FALSE
