SPECIFICATION Spec
CONSTANTS
  j1 = j1
  j2 = j2
  v1 = v1
  v2 = v2
  None = None
  VMs <- TwoVMs
  Jobs <- TwoJobs
  vmOf <- SameVM
  MaxConcurrent = 2
  MaxRuns = 2
  MaxKills = 1
  MaxCrashes = 1
  MaxFaults = 1
CONSTRAINT OneRetry
SYMMETRY Symmetry
INVARIANTS TypeOK NoSilentDrop OneRunPerVM NeverFalselyCompleted
CHECK_DEADLOCK FALSE
