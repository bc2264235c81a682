CONSTANTS
  Api = {a1}
  Workers = {w1}
  Bundles = {b1}
  NoBundle = NoBundle
  NoJob = NoJob
  MaxAttempts = 2
  Lease = 2
  Timeout = 1
  Visibility = 2
  MaxReceive = 2
  Duplicates = FALSE
  Overtake = TRUE
  MaxErrors = 0
  MaxLost = 0
  MaxCrashes = 0
SPECIFICATION FairSpec
PROPERTIES
  AcceptedSettles
CHECK_DEADLOCK FALSE
