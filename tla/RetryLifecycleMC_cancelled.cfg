SPECIFICATION RetrySpec
CONSTANTS
  j1 = j1
  c1 = c1
  c2 = c2
  NoJob = NoJob
  Foreign = Foreign
  NoCall = NoCall
  JobIds <- OneJob
  Calls <- TwoCalls
  MaxAttempts = 2
  MaxDeferrals = 1
  MaxKills = 1
  MaxRestarts = 0
  MaxLost = 0
  MaxForeign = 0
  MaxDeletions = 0
INVARIANT CancelledStays
CHECK_DEADLOCK FALSE
