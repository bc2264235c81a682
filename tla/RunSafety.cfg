CONSTANTS
  Api = {a1, a2}
  Workers = {w1, w2}
  Bundles = {b1, b2}
  NoBundle = NoBundle
  NoJob = NoJob
  MaxAttempts = 2
  Lease = 2
  Timeout = 1
  Visibility = 2
  MaxReceive = 2
  Duplicates = TRUE
  Overtake = TRUE
  MaxErrors = 0
  MaxLost = 0
  MaxCrashes = 1
SYMMETRY Symmetry
SPECIFICATION Spec
INVARIANTS
  TypeOK
  StatusNamesRequest
  CompletedNamesResult
  ExecutionsBounded
  OneWorkerPerAttempt
  AcceptedIsPublished
  ExclusiveExecution
CHECK_DEADLOCK FALSE
