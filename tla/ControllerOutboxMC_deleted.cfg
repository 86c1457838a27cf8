SPECIFICATION Spec
CONSTANTS
  j1 = j1
  j2 = j2
  Jobs <- TwoJobs
  Deletable <- OneJob
  MaxVerdicts = 1
  Attempts = 2
  MaxEntries = 2
  Outages <- DownOnly
  MaxOutages = 1
  MaxStops = 0
  MaxDiskErrors = 0
PROPERTY EventuallyHeard
CHECK_DEADLOCK FALSE
