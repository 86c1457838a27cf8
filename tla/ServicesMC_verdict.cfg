SPECIFICATION ServicesSpec
CONSTANTS
  Parts <- OnlyReconcile
  HostCount = 1
  Unstable <- None
  Removable <- None
  Due <- None
  LastTime = 1
  Policies <- Immediate
  Grace = 1
  Threshold = 1
  Window = 2
  SettleTime = 1
  Tolerance = 1
  MaxDowns = 0
  RunCount = 1
  Unresolved <- None
  Passes <- PanelAndSync
  Overlap = 1
  MaxMishaps = 0
  VMs <- First
  Limit = 1
  MaxJobs = 1
  MaxLanded = 0
  MaxAttempts = 1
  MaxTroubles = 0
  Checks = FALSE
  Troubles <- None
  RestoreCount = 1
  Sweeps = 1
  MaxUpsets = 0
  Upsets <- None
PROPERTY VerdictStands
CHECK_DEADLOCK FALSE
