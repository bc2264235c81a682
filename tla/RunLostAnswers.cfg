CONSTANTS
  Api = {a1, a2}
  Workers = {w1, w2}
  Bundles = {b1}
  NoBundle = NoBundle
  NoJob = NoJob
  MaxAttempts = 2
  Lease = 2
  Timeout = 1
  Visibility = 2
  MaxReceive = 2
  Duplicates = FALSE
  Overtake = TRUE
  MaxErrors = 1
  MaxLost = 1
  MaxCrashes = 0
SYMMETRY Symmetry
SPECIFICATION Spec
INVARIANTS
  IInv
PROPERTIES
  CompletedIsFinal
  NoLostUpdate
  ImplementsContract
CHECK_DEADLOCK FALSE
