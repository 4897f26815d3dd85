SPECIFICATION Spec
CONSTANTS
  Worker = {1, 2}
  Pr = {1}
  StartLimit = 1
  SlotTtl = 1
  BaseBackoff = 1
  MaxBackoff = 2
  StrikeTtl = 3
  WatchCap = 1
  Rpm = 1
  DailyCap = 1
  MaxFaults = 1
  Scenarios <- LimitedScenario
INVARIANTS PausedNotStuck
CHECK_DEADLOCK FALSE
