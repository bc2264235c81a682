CONSTANTS
  Runs = {r1}
  MaxMounts = 2
  MaxErrors = 1
  Roams = FALSE
  FetchFails = TRUE
  Retries = FALSE
SPECIFICATION FairSpec
PROPERTIES
  CompletedIsRouted
CHECK_DEADLOCK FALSE
