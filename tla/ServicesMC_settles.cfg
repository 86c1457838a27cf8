SPECIFICATION ServicesSpec
CONSTANTS
  Parts <- AllParts
  HostCount = 2
  Unstable <- Second
  Removable <- First
  Due <- TwoFiresClose
  LastTime = 4
  Policies <- Replaying
  Grace = 4
  Threshold = 1
  Window = 3
  SettleTime = 1
  Tolerance = 1
  MaxDowns = 1
  RunCount = 1
  Unresolved <- First
  Passes <- WithRestart
  Overlap = 1
  MaxMishaps = 1
  VMs <- First
  Limit = 1
  MaxJobs = 2
  MaxLanded = 1
  MaxAttempts = 1
  MaxTroubles = 1
  Checks = TRUE
  Troubles <- AgentAndController
  RestoreCount = 1
  Sweeps = 1
  MaxUpsets = 1
  Upsets <- AnyUpset
PROPERTIES StatusConverges RecoveryAnswers RecordsSettle LiveIsShown
           CopyCatchesUp RestoreSettles
CONSTRAINT OneSaver
CHECK_DEADLOCK FALSE
