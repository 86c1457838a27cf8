SPECIFICATION ServicesSpec
CONSTANTS
  Parts <- AllParts
  HostCount = 2
  Unstable <- Second
  Removable <- None
  Due <- TwoFires
  LastTime = 6
  Policies <- EveryPolicy
  Grace = 4
  Threshold = 1
  Window = 3
  SettleTime = 1
  Tolerance = 1
  MaxDowns = 2
  RunCount = 2
  Unresolved <- First
  Passes <- WithRestart
  Overlap = 2
  MaxMishaps = 1
  VMs <- Both
  Limit = 1
  MaxJobs = 3
  MaxLanded = 2
  MaxAttempts = 2
  MaxTroubles = 1
  Checks = FALSE
  Troubles <- AnyTrouble
  RestoreCount = 1
  Sweeps = 1
  MaxUpsets = 2
  Upsets <- AnyUpset
INVARIANTS ServicesTypeOK AtMostTwice NoSilentGap TrackedOnce NeverFalselyGreen
           OneActiveJob CompletedIsCopied HonestRestore
PROPERTY DroppedStaysDropped
CONSTRAINTS OneComplication TwoBackups
CHECK_DEADLOCK FALSE
