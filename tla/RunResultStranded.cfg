CONSTANTS
  Api = {a1}
  Workers = {w1, w2}
  Bundles = {b1}
  NoBundle = NoBundle
  NoJob = NoJob
  MaxAttempts = 3
  Lease = 2
  Timeout = 1
  Visibility = 2
  MaxReceive = 3
  Duplicates = TRUE
  Overtake = TRUE
  MaxErrors = 1
  MaxLost = 0
  MaxCrashes = 0
SPECIFICATION FairSpec
PROPERTIES
  ResultIsPromoted
CHECK_DEADLOCK FALSE
