SPECIFICATION Spec
CONSTANTS
  j1 = j1
  j2 = j2
  v1 = v1
  v2 = v2
  None = None
  VMs <- TwoVMs
  Jobs <- TwoJobs
  vmOf <- SameVM
  MaxConcurrent = 1
  MaxRuns = 1
  MaxKills = 0
  MaxCrashes = 0
  MaxFaults = 0
INVARIANT RepeatsAVerdict
CHECK_DEADLOCK FALSE
