SPECIFICATION OperationsSpec
CONSTANTS
  Workspaces = {w1}
  NoWorkspace = NoWorkspace
  Keys = {"h1", "h2", "c1"}
  TypeOf <- MCTypeOf
  ReporterOf <- MCReporterOf
  PurgedType = "host"
  PurgedReporter = "hbi"
  BatchSize = 1
  MaxIds = 3
  MaxVersion = 1
  MaxGeneration = 0
  MaxPurges = 2
  MaxDay = 3
  Retentions = {0, 1}
  Pods = {"old", "new"}
  NoPod = "none"
  Known <- MCKnown
  Skipped = {3}
  MaxCrashes = 1
  Deployments <- MCDeployments
INVARIANTS OrphansNeedAReport LatestSummaryKept RecordedIsComplete
PROPERTIES PurgeLeavesNothing RolloutEnds
CHECK_DEADLOCK FALSE
