SPECIFICATION Spec
CONSTANTS
  j1 = j1
  j2 = j2
  v1 = v1
  v2 = v2
  None = None
  VMs <- TwoVMs
  Jobs <- TwoJobs
  vmOf <- OwnVM
  MaxConcurrent = 1
  MaxRuns = 1
  MaxKills = 1
  MaxCrashes = 1
  MaxFaults = 1
PROPERTY EveryJobSettles
CHECK_DEADLOCK FALSE
