CONSTANTS
  s1 = s1  s2 = s2  a1 = a1  a2 = a2  c1 = c1  d1 = d1  r1 = r1  r2 = r2
  t1 = t1  t2 = t2  opened = opened  closed = closed  t0 = t0
  Results <- SmallResults
  Phrases <- SmallPhrases
  NoEntity = NoEntity
  MaxFacts = 8
  MaxListed = 2
  Creators = {k1, k2}
  Texts = {ta, tb}
  MaxPosts = 4
  MaxLost = 2
  OtActors <- OtSmallActors
  OtScenarios <- OtSmallScenarios
  Insider = "mi"
  SafetyScenario = "ss"
  OtStages <- OtSmallStages
  Techniques <- OtSmallTechniques
  Mappings <- OtSmallMappings
  OtControls <- OtSmallControls
  TopLevel = 3
  BaselineLevel = 1
  MaturityShare <- OtSmallShares
  Coverage <- OtSmallCoverage
  DefaultCoverage = 75
  Overlay <- OtSmallOverlay
  Architecture <- OtSmallArchitecture
  PriorityCount = 1
  OtAnalyses <- OtSmallAnalyses
  Redrawn <- OtSmallRedrawn
  Increment = 25
  BarrierCap = 95
  AdjFloor = 25
  AdjCeiling = 200
  DurFloor = 40
  ConseqFloor = 40
  ConseqCeiling = 150
  Unit = 100
  Sheets <- OtSmallSheets
  Draws <- OtSmallDraws
  OtYears = {1, 2}
  ItPack <- ItSmallPack
  ItBooks <- ItSmallBooks
  ItYears = {1, 2, 3}
  Stream <- ItSmallStream
  Rho = 50
  TailPoint = 60
  LevelShare <- ItSmallLevels
  Developing = 3
  Prudence = 125
  MaxPriority = 1
  LayerNames = {"Primary", "A", "B", "C", "-"}
  Simulations <- SmallSimulations
  Category <- SmallCategory
  Programmes <- SmallProgrammes
  Appetites <- SmallAppetites
  Blank = Blank
  Template <- SmallTemplate
  Workbooks <- SmallWorkbooks
  MaxRuns = 2
  Models <- SmallModels
  Files <- SmallFiles
  RouteSpelling <- SmallRouteSpelling
  Hundredths <- SmallHundredths
  MaxFindings = 3
  MaxOiRuns = 2
  Requests <- SmallRequests
  Registry <- SmallRegistry
  Deployments <- SmallDeployments
  Environments <- SmallEnvironments
  NoRoot = NoRoot
  Unset = Unset
  None = None
  MaxRequests = 2
SPECIFICATION PartsSpec
INVARIANTS
  ShownIsGrounded
  AnswerIsOfSelection
  OneNarrative
  UpliftAddsNoLoss
  ShocksAreAlone
  ExcludedNeverLose
  BlockShocksAreExact
  LossesDecompose
  UpliftLowersRates
  AttemptsAreKept
  RecoveryWithinLoss
  TailsAreCoherent
  RunsAlike
  TrailExplains
  AnswerIsGoverned
  EnvironmentRestored
CHECK_DEADLOCK FALSE
