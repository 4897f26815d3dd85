SPECIFICATION FairSpec
CONSTANTS
  a1 = a1  a2 = a2  a3 = a3  b1 = b1
  pa = pa  pb = pb
  Story = {a1, a2}
  Project = {pa}
  ProjectOf <- MCProjectOf
  SequenceOf <- MCSequenceOf
  CreatedAt <- MCCreatedAt
  Run = {r1, r2}
  MaxCoders = 1
  CoderErrorCap = 2
  WatchAttemptCap = 1
  PostMergeFixCap = 1
  Enabled = {"death", "watchdog"}
PROPERTY DeadClaimIsNoticed
CHECK_DEADLOCK FALSE
