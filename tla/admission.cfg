SPECIFICATION FairSpec
CONSTANTS
  Worker = {1, 2}
  Pr = {1}
  StartLimit = 1
  SlotTtl = 1
  BaseBackoff = 1
  MaxBackoff = 2
  StrikeTtl = 3
  WatchCap = 1
  Rpm = 1
  DailyCap = 1
  MaxFaults = 1
  Scenarios <- AllScenarios
INVARIANTS TypeOK SlotsComeBack LimitHolds StreakOutlivesPause
PROPERTIES OvershootIsSettled LeaksEnd ReviewsSettle
CHECK_DEADLOCK FALSE
