SPECIFICATION Spec
CONSTANTS
  Epics = 3
  MaxTasks = 2
  MaxStories = 5
  Scenarios <- CrashScenario
INVARIANTS NothingWrittenTwice
CHECK_DEADLOCK FALSE
