SPECIFICATION FairSpec
CONSTANTS
  Epics = 3
  MaxTasks = 2
  MaxStories = 5
  Scenarios <- AllScenarios
INVARIANTS TypeOK PlanHasNoDuplicates NothingStartsUnapproved ResumeCompletesPlanElse NoStrandedBacklog WorkHasScaffold
PROPERTIES ApprovedGetsPlan
CHECK_DEADLOCK FALSE
