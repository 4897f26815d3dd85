SPECIFICATION Spec
CONSTANTS
  Epics = 3
  MaxTasks = 2
  MaxStories = 5
  Scenarios <- WithdrawScenario
INVARIANTS NoWorkForWithdrawn
CHECK_DEADLOCK FALSE
