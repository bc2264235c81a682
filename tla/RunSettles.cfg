CONSTANTS
  Api = {a1, a2}
  Workers = {w1, w2}
  Bundles = {b1}
  NoBundle = NoBundle
  NoJob = NoJob
  MaxAttempts = 2
  Lease = 2
  Timeout = 1
  Visibility = 2
  MaxReceive = 2
  Duplicates = TRUE
  Overtake = FALSE
  MaxErrors = 0
  MaxLost = 0
  MaxCrashes = 0
SPECIFICATION ProfileSpec
PROPERTIES
  QuietRunsSettle
  FaultyRunsPromote
CHECK_DEADLOCK FALSE
