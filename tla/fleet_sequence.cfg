SPECIFICATION Spec
CONSTANTS
  a1 = a1  a2 = a2  a3 = a3  b1 = b1
  pa = pa  pb = pb
  Story = {a1, a2, a3}
  Project = {pa}
  ProjectOf <- MCProjectOf
  SequenceOf <- MCSequenceOf
  CreatedAt <- MCCreatedAt
  Run = {r1, r2}
  MaxCoders = 2
  CoderErrorCap = 1
  WatchAttemptCap = 1
  PostMergeFixCap = 0
  Enabled = {"crash", "exception", "stop", "review", "late"}
SYMMETRY RunSymmetry
INVARIANT NoStalledPlan
INVARIANT NoDoublePickup
PROPERTY DoneIsFinal
