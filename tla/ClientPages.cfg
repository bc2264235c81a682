CONSTANTS
  Runs = {r1, r2}
  MaxMounts = 2
  MaxErrors = 1
  Roams = TRUE
  FetchFails = TRUE
  Retries = TRUE
SPECIFICATION ProfileSpec
INVARIANTS
  TypeOK
  ShownIsOfThisRun
  OnePoller
  RoutesToResult
PROPERTIES
  StayingIsRouted
CHECK_DEADLOCK FALSE
