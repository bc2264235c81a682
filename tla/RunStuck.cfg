CONSTANTS
  Api = {a1}
  Workers = {w1}
  Bundles = {b1}
  NoBundle = NoBundle
  NoJob = NoJob
  MaxAttempts = 3
  Lease = 2
  Timeout = 1
  Visibility = 2
  MaxReceive = 3
  Duplicates = FALSE
  Overtake = FALSE
  MaxErrors = 0
  MaxLost = 0
  MaxCrashes = 1
SPECIFICATION FairSpec
PROPERTIES
  AcceptedSettles
CHECK_DEADLOCK FALSE
