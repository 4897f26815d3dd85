SPECIFICATION FairSpec
CONSTANTS
  MaxPr = 2
  MaxTasks = 1
  MaxCi = 2
  RecodeCap = 1
  PostMergeFixCap = 1
  WatchAttemptCap = 1
  MaxIncidents = 1
  Scenarios <- AllScenarios
INVARIANTS TypeOK RecodesAreBounded FirstPassIsHonest
PROPERTIES NextNeedsGreenMainElse MergedStorySettles
CHECK_DEADLOCK FALSE
