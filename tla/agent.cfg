SPECIFICATION FairSpec
CONSTANTS
  Runs = 2
  TestIters = 1
  MaxCommits = 3
  Scenarios <- AllScenarios
INVARIANTS TypeOK AloneIsNeverRefusedElse FixHoldsMain NoForgottenWorkElse
PROPERTIES OnlyOutcomesEndStories RunsEnd
CHECK_DEADLOCK FALSE
