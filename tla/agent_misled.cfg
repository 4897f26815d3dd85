SPECIFICATION Spec
CONSTANTS
  Runs = 2
  TestIters = 1
  MaxCommits = 3
  Scenarios <- DeafScenario
INVARIANTS AloneIsNeverRefused
CHECK_DEADLOCK FALSE
