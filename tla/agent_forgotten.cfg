SPECIFICATION Spec
CONSTANTS
  Runs = 2
  TestIters = 1
  MaxCommits = 3
  Scenarios <- CutOffScenario
INVARIANTS NoForgottenWork
CHECK_DEADLOCK FALSE
